------------------------------ MODULE TapeProofs ------------------------------
(***************************************************************************)
(* What the studies of the tape promise for every value of the constants.  *)
(***************************************************************************)
EXTENDS TakerFlow, LockStudy, SettlementStudy, LeadLag, ForecastClass, LadderStudy, FoldProofs

-----------------------------------------------------------------------------
(***************************************************************************)
(* Rows in order                                                           *)
(***************************************************************************)

\* g counts the elements of S by their rank.
Counts(g, S, rank) ==
    /\ Cardinality(S) \in Nat
    /\ g \in [1..Cardinality(S) -> S]
    /\ \A x \in S : \E n \in 1..Cardinality(S) : g[n] = x
    /\ \A m, n \in 1..Cardinality(S) : m < n => rank[g[m]] < rank[g[n]]

\* The elements of a set in the order of their ranks are all of them, once.
LEMMA OrderedIs ==
    ASSUME NEW S, IsFiniteSet(S), NEW rank, \A x \in S : rank[x] \in Int,
           \A x, y \in S : rank[x] = rank[y] => x = y
    PROVE  Counts(Ordered(S, rank), S, rank)
<1>. DEFINE c == Cardinality(S)
            below(x) == {y \in S : rank[y] < rank[x]}
            pos == [x \in S |-> Cardinality(below(x))]
<1>1. c \in Nat
  BY FS_CardinalityType
<1>2. ASSUME NEW x \in S PROVE IsFiniteSet(below(x)) /\ pos[x] \in 0..(c - 1)
  <2>1. below(x) \in SUBSET (S \ {x})
    OBVIOUS
  <2>2. IsFiniteSet(S \ {x}) /\ Cardinality(S \ {x}) = c - 1
    BY FS_RemoveElement
  <2>3. IsFiniteSet(below(x)) /\ Cardinality(below(x)) <= c - 1 /\ Cardinality(below(x)) \in Nat
    BY <2>1, <2>2, FS_Subset, FS_CardinalityType
  <2>. QED BY <2>3, <1>1
<1>3. ASSUME NEW x \in S, NEW y \in S, rank[x] < rank[y] PROVE pos[x] < pos[y]
  <2>0. /\ rank[x] \in Int /\ rank[y] \in Int
        /\ \A z \in below(x) : z \in S /\ rank[z] \in Int /\ rank[z] < rank[x]
    OBVIOUS
  <2>1. below(x) \in SUBSET below(y) /\ x \in below(y) \ below(x)
    <3>1. \A z \in below(x) : z \in below(y)
      BY <2>0, <1>3
    <3>2. x \in below(y) /\ x \notin below(x)
      BY <2>0, <1>3
    <3>. QED BY <3>1, <3>2
  <2>2. Cardinality(below(x)) <= Cardinality(below(y))
        /\ (Cardinality(below(y)) = Cardinality(below(x)) => below(y) = below(x))
    BY <2>1, <1>2, FS_Subset
  <2>3. Cardinality(below(x)) # Cardinality(below(y))
    BY <2>1, <2>2
  <2>4. Cardinality(below(x)) \in Nat /\ Cardinality(below(y)) \in Nat
    BY <1>2, FS_CardinalityType
  <2>5. pos[x] = Cardinality(below(x)) /\ pos[y] = Cardinality(below(y))
    OBVIOUS
  <2>. HIDE DEF below, pos
  <2>. QED BY <2>2, <2>3, <2>4, <2>5
<1>4. pos \in [S -> 0..(c - 1)]
  BY <1>2
<1>. HIDE DEF below, pos
<1>5. \A x, y \in S : pos[x] = pos[y] => x = y
  <2>. SUFFICES ASSUME NEW x \in S, NEW y \in S, pos[x] = pos[y], x # y PROVE FALSE
    OBVIOUS
  <2>1. rank[x] \in Int /\ rank[y] \in Int /\ rank[x] # rank[y]
    OBVIOUS
  <2>2. CASE rank[x] < rank[y]
    BY <2>2, <1>3, <1>4, <1>1
  <2>3. CASE rank[y] < rank[x]
    BY <2>3, <1>3, <1>4, <1>1
  <2>. QED BY <2>1, <2>2, <2>3
<1>6. \A n \in 0..(c - 1) : \E x \in S : pos[x] = n
  <2>1. IsFiniteSet(0..(c - 1)) /\ Cardinality(0..(c - 1)) = c
    BY <1>1, FS_Interval
  <2>2. pos \in Injection(S, 0..(c - 1))
    BY <1>4, <1>5 DEF Injection, IsInjective
  <2>3. pos \in Surjection(S, 0..(c - 1))
    BY <2>1, <2>2, FS_Injection
  <2>. QED BY <2>3 DEF Surjection
<1>. DEFINE g == Ordered(S, rank)
<1>7. DOMAIN g = 1..c
  BY DEF Ordered
<1>8. ASSUME NEW n \in 1..c PROVE g[n] \in S /\ pos[g[n]] = n - 1
  <2>1. g[n] = CHOOSE x \in S : Cardinality({y \in S : rank[y] < rank[x]}) = n - 1
    BY DEF Ordered
  <2>2. \E x \in S : Cardinality({y \in S : rank[y] < rank[x]}) = n - 1
    <3>1. n - 1 \in 0..(c - 1)
      BY <1>1
    <3>. QED BY <3>1, <1>6 DEF pos, below
  <2>. HIDE DEF g
  <2>. QED BY <2>1, <2>2 DEF pos, below
<1>9. g = [n \in 1..c |-> g[n]]
  <2>. DEFINE nth(n) == CHOOSE x \in S : Cardinality({y \in S : rank[y] < rank[x]}) = n - 1
  <2>1. g = [n \in 1..c |-> nth(n)]
    BY DEF Ordered
  <2>. HIDE DEF g, nth
  <2>. QED BY <2>1
<1>. HIDE DEF g
<1>10. g \in [1..c -> S]
  BY <1>8, <1>9
<1>11. \A x \in S : \E n \in 1..c : g[n] = x
  <2>. SUFFICES ASSUME NEW x \in S PROVE \E n \in 1..c : g[n] = x
    OBVIOUS
  <2>1. pos[x] \in 0..(c - 1)
    BY <1>4
  <2>2. pos[x] + 1 \in 1..c /\ (pos[x] + 1) - 1 = pos[x]
    BY <2>1, <1>1
  <2>3. pos[g[pos[x] + 1]] = pos[x] /\ g[pos[x] + 1] \in S
    BY <2>2, <1>8
  <2>. QED BY <2>2, <2>3, <1>5
<1>12. \A m, n \in 1..c : m < n => rank[g[m]] < rank[g[n]]
  <2>. SUFFICES ASSUME NEW m \in 1..c, NEW n \in 1..c, m < n PROVE rank[g[m]] < rank[g[n]]
    OBVIOUS
  <2>1. g[m] \in S /\ g[n] \in S /\ pos[g[m]] = m - 1 /\ pos[g[n]] = n - 1
    BY <1>8
  <2>2. rank[g[m]] \in Int /\ rank[g[n]] \in Int
    BY <2>1
  <2>3. ~(rank[g[n]] < rank[g[m]])
    BY <2>1, <1>3
  <2>4. rank[g[m]] # rank[g[n]]
    BY <2>1
  <2>. QED BY <2>2, <2>3, <2>4
<1>. QED BY <1>1, <1>10, <1>11, <1>12 DEF g, Counts

\* The rows with an index in I, each by its place in the tape.
Picked(rs, rows, I, g) ==
    /\ Len(rs) \in Nat /\ DOMAIN rs = 1..Len(rs) /\ rs \in Seq({rows[i] : i \in I})
    /\ g \in [1..Len(rs) -> I]
    /\ \A i \in I : \E n \in 1..Len(rs) : g[n] = i
    /\ \A m, n \in 1..Len(rs) : m < n => g[m] < g[n]
    /\ \A n \in 1..Len(rs) : rs[n] = rows[g[n]]

LEMMA AmongIs ==
    ASSUME NEW rows, NEW I \in SUBSET Int, IsFiniteSet(I)
    PROVE  \E g : Picked(Among(rows, I), rows, I, g)
<1>. DEFINE r == [i \in I |-> i]
            g == Ordered(I, r)
            c == Cardinality(I)
            rs == Among(rows, I)
<1>1. Counts(g, I, r)
  <2>1. \A x \in I : r[x] \in Int
    OBVIOUS
  <2>2. \A x, y \in I : r[x] = r[y] => x = y
    OBVIOUS
  <2>. HIDE DEF r
  <2>. QED BY <2>1, <2>2, OrderedIs
<1>2. \A i \in I : r[i] = i
  OBVIOUS
<1>3. rs = [n \in DOMAIN g |-> rows[g[n]]]
  BY DEF Among
<1>. HIDE DEF g, r, rs
<1>4. c \in Nat /\ g \in [1..c -> I] /\ DOMAIN g = 1..c
  BY <1>1 DEF Counts
<1>5. rs = [n \in 1..c |-> rows[g[n]]]
  BY <1>3, <1>4
<1>6. rs \in [1..c -> {rows[i] : i \in I}]
  BY <1>4, <1>5
<1>7. rs \in Seq({rows[i] : i \in I}) /\ Len(rs) = c
  BY <1>4, <1>6
<1>8. \A i \in I : \E n \in 1..c : g[n] = i
  BY <1>1 DEF Counts
<1>9. \A m, n \in 1..c : m < n => g[m] < g[n]
  <2>1. \A m, n \in 1..c : m < n => r[g[m]] < r[g[n]]
    BY <1>1 DEF Counts
  <2>2. \A n \in 1..c : r[g[n]] = g[n]
    BY <1>2, <1>4
  <2>. QED BY <2>1, <2>2
<1>10. Picked(rs, rows, I, g)
  BY <1>4, <1>5, <1>7, <1>8, <1>9 DEF Picked
<1>. QED BY <1>10 DEF rs

\* Rows in the order of their arrival: those up to an instant are a prefix.
Arrivals(rows) ==
    /\ Len(rows) \in Nat /\ DOMAIN rows = 1..Len(rows)
    /\ \A i \in 1..Len(rows) : rows[i].at \in Int
    /\ \A i, j \in 1..Len(rows) : i < j => rows[i].at <= rows[j].at

LEMMA InForceIs ==
    ASSUME NEW rows, Arrivals(rows), NEW at \in Int
    PROVE  /\ InForce(rows, at) \in 0..Len(rows)
           /\ \A i \in 1..Len(rows) : rows[i].at <= at <=> i <= InForce(rows, at)
<1>. DEFINE n == Len(rows)
            P == {i \in DOMAIN rows : rows[i].at <= at}
            late == {i \in 1..n : ~(rows[i].at <= at)}
<1>1. /\ n \in Nat /\ DOMAIN rows = 1..n
      /\ \A i \in 1..n : rows[i].at \in Int
      /\ \A i, j \in 1..n : i < j => rows[i].at <= rows[j].at
  BY DEF Arrivals
<1>2. InForce(rows, at) = Cardinality(P)
  BY DEF InForce
<1>3. \E k \in 0..n : P = 1..k
  <2>1. CASE late = {}
    BY <2>1, <1>1
  <2>2. CASE late # {}
    <3>0. late \in SUBSET Nat
      BY <1>1
    <3>1. PICK l \in late : \A m \in late : l <= m
      <4>. HIDE DEF late
      <4>. QED BY <2>2, <3>0, LeastNatural
    <3>2. ASSUME NEW i \in 1..n, i < l PROVE rows[i].at <= at
      BY <3>1, <3>2, <1>1
    <3>3. ASSUME NEW i \in 1..n, rows[i].at <= at PROVE i < l
      <4>. SUFFICES ASSUME l <= i PROVE FALSE
        BY <1>1
      <4>1. rows[l].at <= rows[i].at /\ rows[l].at \in Int /\ rows[i].at \in Int
        BY <1>1
      <4>. QED BY <4>1, <3>3
    <3>4. l \in 1..n
      OBVIOUS
    <3>. HIDE DEF late
    <3>5. \A i : i \in P <=> i \in 1..n /\ rows[i].at <= at
      BY <1>1
    <3>6. \A i : i \in P <=> i \in 1..(l - 1)
      <4>1. \A i \in 1..(l - 1) : i \in 1..n /\ i < l
        BY <3>4, <1>1
      <4>2. \A i \in 1..n : i < l => i \in 1..(l - 1)
        BY <3>4, <1>1
      <4>. HIDE DEF P, n
      <4>. QED BY <3>2, <3>3, <3>5, <4>1, <4>2
    <3>7. P = 1..(l - 1)
      BY <3>6
    <3>8. l - 1 \in 0..n
      BY <3>4, <1>1
    <3>. QED BY <3>7, <3>8
  <2>. QED BY <2>1, <2>2
<1>4. PICK k \in 0..n : P = 1..k
  BY <1>3
<1>5. Cardinality(P) = k
  <2>1. k \in Int /\ 1 \in Int /\ 0 <= k
    BY <1>1
  <2>2. Cardinality(1..k) = IF 1 > k THEN 0 ELSE k - 1 + 1
    BY <2>1, FS_Interval
  <2>3. P = 1..k
    BY <1>4
  <2>. HIDE DEF P
  <2>. QED BY <2>1, <2>2, <2>3
<1>6. \A i \in 1..n : rows[i].at <= at <=> i \in P
  BY <1>1
<1>7. \A i \in 1..n : i \in P <=> i <= k
  BY <1>1, <1>4
<1>. HIDE DEF P
<1>. QED BY <1>1, <1>2, <1>5, <1>6, <1>7

\* What is picked from rows in order is in order.
LEMMA PickedArrive ==
    ASSUME NEW rows, NEW I, NEW rs, NEW g, Picked(rs, rows, I, g), I \in SUBSET Int,
           \A i \in I : rows[i].at \in Int,
           \A i, j \in I : i < j => rows[i].at <= rows[j].at
    PROVE  Arrivals(rs)
<1>1. /\ Len(rs) \in Nat /\ DOMAIN rs = 1..Len(rs)
      /\ g \in [1..Len(rs) -> I]
      /\ \A m, n \in 1..Len(rs) : m < n => g[m] < g[n]
      /\ \A n \in 1..Len(rs) : rs[n] = rows[g[n]]
  BY DEF Picked
<1>2. \A i \in 1..Len(rs) : rs[i].at \in Int
  BY <1>1
<1>3. \A i, j \in 1..Len(rs) : i < j => rs[i].at <= rs[j].at
  BY <1>1
<1>. QED BY <1>1, <1>2, <1>3 DEF Arrivals

\* g takes J to the whole of K.
Onto(g, J, K) == (\A n \in J : g[n] \in K) /\ (\A i \in K : \E n \in J : g[n] = i)

\* What is picked from rows that were picked themselves.
LEMMA PickedTwice ==
    ASSUME NEW rows, NEW I, NEW rs, NEW g, Picked(rs, rows, I, g), I \in SUBSET Int,
           NEW J \in SUBSET (1..Len(rs)), NEW qs, NEW h, Picked(qs, rs, J, h),
           NEW K, Onto(g, J, K)
    PROVE  \E k : Picked(qs, rows, K, k)
<1>. DEFINE k == [n \in 1..Len(qs) |-> g[h[n]]]
<1>1. /\ Len(rs) \in Nat /\ g \in [1..Len(rs) -> I]
      /\ \A m, n \in 1..Len(rs) : m < n => g[m] < g[n]
      /\ \A n \in 1..Len(rs) : rs[n] = rows[g[n]]
  BY DEF Picked
<1>2. /\ Len(qs) \in Nat /\ DOMAIN qs = 1..Len(qs) /\ qs \in Seq({rs[i] : i \in J})
      /\ h \in [1..Len(qs) -> J]
      /\ \A i \in J : \E n \in 1..Len(qs) : h[n] = i
      /\ \A m, n \in 1..Len(qs) : m < n => h[m] < h[n]
      /\ \A n \in 1..Len(qs) : qs[n] = rs[h[n]]
  BY DEF Picked
<1>3. \A n \in 1..Len(qs) : h[n] \in J /\ h[n] \in 1..Len(rs) /\ k[n] = g[h[n]]
  BY <1>2
<1>4. k \in [1..Len(qs) -> K]
  BY <1>3 DEF Onto
<1>5. {rs[i] : i \in J} = {rows[i] : i \in K}
  <2>1. \A i \in J : rs[i] = rows[g[i]]
    BY <1>1
  <2>. QED BY <2>1 DEF Onto
<1>6. \A i \in K : \E n \in 1..Len(qs) : k[n] = i
  <2>. SUFFICES ASSUME NEW j \in J PROVE \E n \in 1..Len(qs) : k[n] = g[j]
    BY DEF Onto
  <2>. QED BY <1>2, <1>3
<1>7. ASSUME NEW m \in 1..Len(qs), NEW n \in 1..Len(qs), m < n PROVE k[m] < k[n]
  BY <1>1, <1>2, <1>3, <1>7
<1>8. \A n \in 1..Len(qs) : qs[n] = rows[k[n]]
  BY <1>1, <1>2, <1>3
<1>. HIDE DEF k
<1>9. Picked(qs, rows, K, k)
  BY <1>2, <1>4, <1>5, <1>6, <1>7, <1>8 DEF Picked
<1>. QED BY <1>9

\* A part of the rows that were picked.
LEMMA PickedPart ==
    ASSUME NEW rows, NEW I, NEW rs, NEW g, Picked(rs, rows, I, g), I \in SUBSET Int,
           NEW J \in SUBSET (1..Len(rs)), NEW K \in SUBSET I,
           \A n \in 1..Len(rs) : n \in J <=> g[n] \in K
    PROVE  \E h : Picked(Among(rs, J), rows, K, h)
<1>1. /\ Len(rs) \in Nat /\ g \in [1..Len(rs) -> I]
      /\ \A i \in I : \E n \in 1..Len(rs) : g[n] = i
  BY DEF Picked
<1>2. IsFiniteSet(J) /\ J \in SUBSET Int
  <2>1. 1 \in Int /\ Len(rs) \in Int
    BY <1>1
  <2>2. IsFiniteSet(1..Len(rs)) /\ 1..Len(rs) \subseteq Int
    BY <2>1, FS_Interval
  <2>3. IsFiniteSet(J)
    BY <2>2, FS_Subset
  <2>. QED BY <2>2, <2>3
<1>3. PICK h : Picked(Among(rs, J), rs, J, h)
  BY <1>2, AmongIs
<1>4. Onto(g, J, K)
  BY <1>1 DEF Onto
<1>. DEFINE qs == Among(rs, J)
<1>5. Picked(qs, rs, J, h)
  BY <1>3
<1>. HIDE DEF qs
<1>6. \E k : Picked(qs, rows, K, k)
  <2>1. Picked(rs, rows, I, g) /\ I \in SUBSET Int /\ J \in SUBSET (1..Len(rs))
    OBVIOUS
  <2>. QED BY <1>4, <1>5, <2>1, PickedTwice
<1>. QED BY <1>6 DEF qs

\* I has the rows of J up to an end.
CutAt(rows, I, J, end) == I \subseteq J /\ \A j \in J : rows[j].at <= end => j \in I

\* Of the same rows some were picked, and others that are cut off at an end.
CutOff(rows, I, rs, g, J, qs, h, end) ==
    /\ Picked(rs, rows, I, g) /\ Arrivals(rs) /\ I \in SUBSET Int
    /\ Picked(qs, rows, J, h) /\ Arrivals(qs) /\ J \in SUBSET Int
    /\ end \in Int /\ CutAt(rows, I, J, end)

\* They have the same row in force up to it.
LEMMA SameRowInForce ==
    ASSUME NEW rows, NEW I, NEW rs, NEW g, NEW J, NEW qs, NEW h, NEW end,
           CutOff(rows, I, rs, g, J, qs, h, end),
           NEW at \in Int, at <= end, InForce(rs, at) > 0
    PROVE  /\ InForce(rs, at) \in 1..Len(rs) /\ InForce(qs, at) \in 1..Len(qs)
           /\ qs[InForce(qs, at)] = rs[InForce(rs, at)]
<1>0. /\ Picked(rs, rows, I, g) /\ Arrivals(rs) /\ I \in SUBSET Int
      /\ Picked(qs, rows, J, h) /\ Arrivals(qs) /\ J \in SUBSET Int
      /\ end \in Int /\ CutAt(rows, I, J, end)
  BY DEF CutOff
<1>. DEFINE a == InForce(rs, at)
            b == InForce(qs, at)
<1>1. /\ Len(rs) \in Nat /\ g \in [1..Len(rs) -> I]
      /\ \A i \in I : \E n \in 1..Len(rs) : g[n] = i
      /\ \A m, n \in 1..Len(rs) : m < n => g[m] < g[n]
      /\ \A n \in 1..Len(rs) : rs[n] = rows[g[n]]
  BY <1>0 DEF Picked
<1>2. /\ Len(qs) \in Nat /\ h \in [1..Len(qs) -> J]
      /\ \A i \in J : \E n \in 1..Len(qs) : h[n] = i
      /\ \A m, n \in 1..Len(qs) : m < n => h[m] < h[n]
      /\ \A n \in 1..Len(qs) : qs[n] = rows[h[n]]
  BY <1>0 DEF Picked
<1>3. /\ a \in 0..Len(rs)
      /\ \A i \in 1..Len(rs) : rs[i].at <= at <=> i <= a
  BY <1>0, InForceIs
<1>4. /\ b \in 0..Len(qs)
      /\ \A i \in 1..Len(qs) : qs[i].at <= at <=> i <= b
  BY <1>0, InForceIs
<1>5. /\ \A i \in 1..Len(rs) : rs[i].at \in Int
      /\ \A i \in 1..Len(qs) : qs[i].at \in Int
  BY <1>0 DEF Arrivals
<1>. HIDE DEF a, b
<1>6. a \in 1..Len(rs)
  BY <1>1, <1>3 DEF a
<1>7. PICK m \in 1..Len(qs) : h[m] = g[a]
  BY <1>0, <1>1, <1>2, <1>6 DEF CutAt
<1>8. m <= b
  <2>1. qs[m] = rs[a] /\ rs[a].at <= at
    BY <1>1, <1>2, <1>3, <1>6, <1>7
  <2>. QED BY <2>1, <1>4
<1>9. b \in 1..Len(qs)
  BY <1>2, <1>4, <1>8
<1>10. qs[b].at <= at /\ qs[b] = rows[h[b]] /\ h[b] \in J
  BY <1>2, <1>4, <1>9
<1>11. h[b] \in I
  <2>1. qs[b].at \in Int
    BY <1>5, <1>9
  <2>2. rows[h[b]].at <= end
    BY <1>0, <1>10, <2>1
  <2>. QED BY <1>0, <1>10, <2>2 DEF CutAt
<1>12. PICK n \in 1..Len(rs) : g[n] = h[b]
  BY <1>1, <1>11
<1>13. n <= a
  BY <1>1, <1>3, <1>10, <1>12
<1>14. m = b
  <2>. SUFFICES ASSUME m < b PROVE FALSE
    BY <1>8, <1>9, <1>2
  <2>1. h[m] < h[b]
    BY <1>2, <1>9
  <2>2. g[a] < g[n]
    BY <2>1, <1>7, <1>12
  <2>3. g[n] \in Int /\ g[a] \in Int
    BY <1>0, <1>1, <1>6
  <2>4. n = a \/ n < a
    BY <1>13, <1>6, <1>1
  <2>5. ~(n < a) \/ g[n] < g[a]
    BY <1>1, <1>6
  <2>. QED BY <2>2, <2>3, <2>4, <2>5
<1>15. qs[b] = rs[a]
  BY <1>1, <1>6, <1>7, <1>10, <1>14
<1>. QED BY <1>6, <1>9, <1>15 DEF a, b

-----------------------------------------------------------------------------
(***************************************************************************)
(* Ranks, chains and lists                                                 *)
(***************************************************************************)

\* f has at each place what is its own and what a later place has.
Chained(f, n, own, next) ==
    f = [i \in 1..(n + 1) |-> IF i > n THEN {} ELSE own[i] \cup f[next[i]]]

\* Such a function exists.
LEMMA ChainExists ==
    ASSUME NEW n \in Nat, NEW own, NEW next, \A i \in 1..n : next[i] \in (i + 1)..(n + 1)
    PROVE  \E f : Chained(f, n, own, next)
<1>. DEFINE Sol(f, a) == f = [i \in a..(n + 1) |-> IF i > n THEN {} ELSE own[i] \cup f[next[i]]]
            D == {m \in 0..n : \E f : Sol(f, n + 1 - m)}
<1>1. 0 \in D
  <2>. DEFINE f == [i \in (n + 1)..(n + 1) |-> {}]
  <2>1. Sol(f, n + 1)
    <3>1. \A i \in (n + 1)..(n + 1) : i > n
      OBVIOUS
    <3>. QED BY <3>1
  <2>. HIDE DEF f, Sol
  <2>2. n + 1 - 0 = n + 1
    OBVIOUS
  <2>. QED BY <2>1, <2>2
<1>2. ASSUME NEW m \in 1..n, m - 1 \in D PROVE m \in D
  <2>. DEFINE a == n + 1 - m
  <2>1. a \in 1..n /\ n + 1 - (m - 1) = a + 1
    OBVIOUS
  <2>2. PICK f : Sol(f, a + 1)
    <3>. HIDE DEF Sol
    <3>. QED BY <1>2, <2>1
  <2>. DEFINE g == [i \in a..(n + 1) |-> IF i = a THEN own[a] \cup f[next[a]] ELSE f[i]]
  <2>. HIDE DEF a
  <2>3. \A i \in a..n : next[i] \in a..(n + 1) /\ next[i] # a
    BY <2>1
  <2>4. \A i \in (a + 1)..(n + 1) : f[i] = IF i > n THEN {} ELSE own[i] \cup f[next[i]]
    BY <2>2
  <2>5. \A i \in a..n : g[next[i]] = f[next[i]]
    BY <2>3
  <2>6. \A i \in a..(n + 1) : g[i] = IF i > n THEN {} ELSE own[i] \cup g[next[i]]
    <3>. TAKE i \in a..(n + 1)
    <3>1. CASE i = a
      BY <3>1, <2>1, <2>5
    <3>2. CASE i # a
      <4>1. i \in (a + 1)..(n + 1) /\ g[i] = f[i]
        BY <3>2, <2>1
      <4>2. CASE i > n
        BY <4>1, <4>2, <2>4
      <4>3. CASE ~(i > n)
        <5>1. i \in a..n
          BY <4>3, <2>1
        <5>. QED BY <4>1, <4>3, <5>1, <2>4, <2>5
      <4>. QED BY <4>2, <4>3
    <3>. QED BY <3>1, <3>2
  <2>7. g = [i \in a..(n + 1) |-> g[i]]
    OBVIOUS
  <2>. HIDE DEF g
  <2>8. Sol(g, a)
    BY <2>6, <2>7
  <2>. HIDE DEF Sol
  <2>. QED BY <2>8 DEF a
<1>. HIDE DEF D
<1>3. \A i \in 0..n : i \in D
  BY <1>1, <1>2, CountInduction
<1>4. n \in D
  BY <1>3
<1>5. n + 1 - n = 1
  OBVIOUS
<1>6. \E f : Sol(f, 1)
  <2>. HIDE DEF Sol
  <2>. QED BY <1>4, <1>5 DEF D
<1>. QED BY <1>6 DEF Chained

\* A sequence has no value twice.
Distinct(q) ==
    /\ q \in Seq(Range(q))
    /\ \A m, n \in 1..Len(q) : m # n => q[m] # q[n]

LEMMA OrderedDistinct ==
    ASSUME NEW S, IsFiniteSet(S), NEW rank, \A x \in S : rank[x] \in Int,
           \A x, y \in S : rank[x] = rank[y] => x = y
    PROVE  Distinct(Ordered(S, rank))
<1>. DEFINE q == Ordered(S, rank)
            c == Cardinality(S)
<1>1. /\ c \in Nat /\ q \in [1..c -> S]
      /\ \A m, n \in 1..c : m < n => rank[q[m]] < rank[q[n]]
  BY OrderedIs DEF Counts
<1>. HIDE DEF q, c
<1>2. q \in [1..c -> Range(q)]
  BY <1>1 DEF Range
<1>3. q \in Seq(Range(q)) /\ Len(q) = c
  BY <1>1, <1>2
<1>4. ASSUME NEW m \in 1..c, NEW n \in 1..c, m # n PROVE q[m] # q[n]
  <2>1. rank[q[m]] \in Int /\ rank[q[n]] \in Int
    BY <1>1
  <2>2. m < n \/ n < m
    BY <1>1, <1>4
  <2>3. rank[q[m]] # rank[q[n]]
    BY <1>1, <2>1, <2>2
  <2>. QED BY <2>3
<1>5. Distinct(q)
  BY <1>3, <1>4 DEF Distinct
<1>. QED BY <1>5 DEF q

LEMMA DistinctTail ==
    ASSUME NEW q, Distinct(q), q # <<>>
    PROVE  Distinct(Tail(q)) /\ Head(q) \notin Range(Tail(q)) /\ Range(Tail(q)) \subseteq Range(q)
<1>. DEFINE t == Tail(q)
<1>1. /\ q \in Seq(Range(q)) /\ Len(q) \in Nat \ {0}
      /\ \A m, n \in 1..Len(q) : m # n => q[m] # q[n]
  BY DEF Distinct
<1>2. /\ t \in Seq(Range(q)) /\ Len(t) = Len(q) - 1 /\ Head(q) = q[1]
      /\ \A n \in 1..(Len(q) - 1) : t[n] = q[n + 1]
  BY <1>1
<1>3. DOMAIN q = 1..Len(q) /\ DOMAIN t = 1..Len(t)
  BY <1>1, <1>2
<1>. HIDE DEF t
<1>4. \A n \in 1..Len(t) : n + 1 \in 1..Len(q) /\ n + 1 # 1 /\ t[n] = q[n + 1]
  BY <1>1, <1>2
<1>5. 1 \in 1..Len(q)
  BY <1>1
<1>6. Head(q) \notin Range(t) /\ Range(t) \subseteq Range(q)
  BY <1>1, <1>2, <1>3, <1>4, <1>5 DEF Range
<1>7. t \in Seq(Range(t))
  <2>1. t \in [1..Len(t) -> Range(t)]
    BY <1>2, <1>3 DEF Range
  <2>. QED BY <1>1, <1>2, <2>1
<1>8. \A m, n \in 1..Len(t) : m # n => t[m] # t[n]
  BY <1>1, <1>4
<1>9. Distinct(t)
  BY <1>7, <1>8 DEF Distinct
<1>. QED BY <1>6, <1>9 DEF t

-----------------------------------------------------------------------------
(***************************************************************************)
(* The flow study                                                          *)
(***************************************************************************)

Fates == {"unresolved", "uncovered", "oneSided", "excluded", "out_of_window", "kept"}

LEMMA BooksArrive ==
    ASSUME tfJob \in TfJobs, NEW leg, NEW date
    PROVE  /\ Arrivals(BookOf(leg, date))
           /\ \A i \in 1..Len(BookOf(leg, date)) : BookOf(leg, date)[i].ts \in Int \cup {NOSTAMP}
<1>. DEFINE I == {i \in DOMAIN tfJob.book : /\ tfJob.book[i].leg = leg
                                           /\ tfJob.book[i].at \div LkDayLength \in {date, date + 1}}
<1>1. /\ Len(tfJob.book) \in Nat /\ DOMAIN tfJob.book = 1..Len(tfJob.book)
      /\ \A i \in DOMAIN tfJob.book : tfJob.book[i].at \in Int /\ tfJob.book[i].ts \in Int \cup {NOSTAMP}
      /\ \A i, k \in DOMAIN tfJob.book : i < k /\ tfJob.book[i].leg = tfJob.book[k].leg
                                          => tfJob.book[i].at <= tfJob.book[k].at
  BY FlowAssumption
<1>2. I \in SUBSET (1..Len(tfJob.book)) /\ I \in SUBSET Int
  BY <1>1
<1>3. IsFiniteSet(I)
  <2>. HIDE DEF I
  <2>1. 1 \in Int /\ Len(tfJob.book) \in Int
    BY <1>1
  <2>. QED BY <1>2, <2>1, FS_Interval, FS_Subset
<1>4. BookOf(leg, date) = Among(tfJob.book, I)
  BY DEF BookOf
<1>5. /\ \A i \in I : tfJob.book[i].at \in Int /\ tfJob.book[i].ts \in Int \cup {NOSTAMP}
      /\ \A i, j \in I : i < j => tfJob.book[i].at <= tfJob.book[j].at
  BY <1>1
<1>. HIDE DEF I
<1>6. PICK g : Picked(Among(tfJob.book, I), tfJob.book, I, g)
  BY <1>2, <1>3, AmongIs
<1>7. Arrivals(Among(tfJob.book, I))
  BY <1>2, <1>5, <1>6, PickedArrive
<1>8. \A i \in 1..Len(Among(tfJob.book, I)) : Among(tfJob.book, I)[i].ts \in Int \cup {NOSTAMP}
  BY <1>5, <1>6 DEF Picked
<1>. QED BY <1>4, <1>7, <1>8

\* resolve_anchors: what a print's move is measured from.
LEMMA AnchorIs ==
    ASSUME NEW p, p.at \in Int, p.ts \in Int, NEW rows, Arrivals(rows)
    PROVE  LET a == AnchorOf(p, rows)
           IN  /\ a.index \in 1..(Len(rows) + 1)
               /\ a.hostClock /\ a.index <= Len(rows) => rows[a.index].at > p.at
               /\ ~a.hostClock /\ a.index <= Len(rows) =>
                     rows[a.index].ts # NOSTAMP /\ rows[a.index].ts > p.ts
               /\ ~a.hostClock => \A i \in 1..Len(rows) :
                     i < a.index => ~(rows[i].ts # NOSTAMP /\ rows[i].ts > p.ts)
<1>. DEFINE n == Len(rows)
            T == {i \in DOMAIN rows : rows[i].ts # NOSTAMP /\ rows[i].ts > p.ts}
            stamped == Min(T \cup {n + 1})
            arrival == InForce(rows, p.at) + 1
            hidden  == \E i \in arrival..(stamped - 1) : rows[i].ts = NOSTAMP
<1>1. n \in Nat /\ DOMAIN rows = 1..n
  BY DEF Arrivals
<1>2. /\ InForce(rows, p.at) \in 0..n
      /\ \A i \in 1..n : rows[i].at <= p.at <=> i <= InForce(rows, p.at)
  BY InForceIs
<1>3. stamped \in T \cup {n + 1} /\ \A x \in T \cup {n + 1} : stamped <= x
  <2>1. T \cup {n + 1} \in SUBSET Nat /\ T \cup {n + 1} # {}
    BY <1>1
  <2>. HIDE DEF T
  <2>. QED BY <2>1, MinTakes
<1>4. AnchorOf(p, rows) = [index |-> IF hidden THEN arrival ELSE stamped, hostClock |-> hidden]
  BY DEF AnchorOf
<1>5. stamped \in 1..(n + 1)
  BY <1>1, <1>3
<1>6. \A i \in 1..n : i < stamped => i \notin T
  <2>. HIDE DEF stamped, T
  <2>. QED BY <1>1, <1>3, <1>5
<1>7. CASE hidden
  <2>1. AnchorOf(p, rows).index = arrival /\ AnchorOf(p, rows).hostClock
    <3>1. AnchorOf(p, rows) = [index |-> arrival, hostClock |-> TRUE]
      <4>. HIDE DEF arrival, stamped
      <4>. QED BY <1>4, <1>7
    <3>. QED BY <3>1
  <2>2. arrival \in 1..(n + 1)
    BY <1>1, <1>2
  <2>3. arrival <= n => rows[arrival].at > p.at
    <3>. SUFFICES ASSUME arrival <= n PROVE rows[arrival].at > p.at
      OBVIOUS
    <3>1. arrival \in 1..n /\ ~(arrival <= InForce(rows, p.at))
      BY <1>1, <1>2
    <3>2. rows[arrival].at \in Int
      BY <3>1 DEF Arrivals
    <3>. HIDE DEF arrival
    <3>. QED BY <1>2, <3>1, <3>2
  <2>. HIDE DEF arrival, stamped, hidden
  <2>. QED BY <2>1, <2>2, <2>3
<1>8. CASE ~hidden
  <2>1. AnchorOf(p, rows).index = stamped /\ ~AnchorOf(p, rows).hostClock
    <3>1. AnchorOf(p, rows) = [index |-> stamped, hostClock |-> FALSE]
      <4>. HIDE DEF arrival, stamped
      <4>. QED BY <1>4, <1>8
    <3>. QED BY <3>1
  <2>2. stamped <= n => rows[stamped].ts # NOSTAMP /\ rows[stamped].ts > p.ts
    <3>1. stamped <= n => stamped \in T
      BY <1>1, <1>3
    <3>. HIDE DEF stamped
    <3>. QED BY <3>1
  <2>3. \A i \in 1..n : i < stamped => ~(rows[i].ts # NOSTAMP /\ rows[i].ts > p.ts)
    <3>. HIDE DEF stamped
    <3>. QED BY <1>1, <1>6
  <2>. HIDE DEF arrival, stamped, hidden
  <2>. QED BY <1>5, <2>1, <2>2, <2>3
<1>. QED BY <1>7, <1>8

\* What a kept outcome says of its print: the row that it is measured from,
\* the last row up to its horizon, and the screen of its evidence.
Scored(o, p, h) ==
    LET rows == BookOf(p.leg, p.at \div LkDayLength)
        a    == AnchorOf(p, rows)
        from == rows[a.index].at
    IN  /\ a.index \in 1..Len(rows) /\ o.anchor = a.index /\ o.hostClock = a.hostClock
        /\ o.end = InForce(rows, from + h)
        /\ Screen(LkDays[DayOfLeg(p.leg)], LkMerged, Min({p.at, from}), from + h) = "kept"

LEMMA OutcomeIs ==
    ASSUME tfJob \in TfJobs, NEW p \in Range(tfJob.prints), NEW h \in TfHorizons
    PROVE  LET o == OutcomeOf(p, h)
           IN  /\ o.print = p /\ o.horizon = h /\ o.fate \in Fates
               /\ o.fate = "kept" => Scored(o, p, h)
<1>. DEFINE rows     == BookOf(p.leg, p.at \div LkDayLength)
            anchor   == AnchorOf(p, rows)
            resolved == anchor.index <= Len(rows)
            from     == rows[anchor.index]
            evidence == EvidenceOf(p, from.at, h)
            to       == rows[InForce(rows, evidence.end)]
            screened == Screen(LkDays[DayOfLeg(p.leg)], LkMerged, evidence.start, evidence.end)
            fate == CASE ~resolved -> "unresolved"
                      [] resolved /\ Last(rows).at < evidence.end -> "uncovered"
                      [] resolved /\ Last(rows).at >= evidence.end ->
                            IF ~(Quoted(from) /\ Quoted(to)) THEN "oneSided" ELSE screened
            host == anchor.hostClock /\ fate \in {"kept", "excluded", "out_of_window"}
            end == IF fate = "kept" THEN InForce(rows, evidence.end) ELSE 0
            net == IF fate = "kept" THEN NetOf(p, Mid2(to, LkDollar) - Mid2(from, LkDollar)) ELSE 0
<1>1. OutcomeOf(p, h) = [print |-> p, horizon |-> h, fate |-> fate, hostClock |-> host,
                         anchor |-> anchor.index, end |-> end, net |-> net]
  BY DEF OutcomeOf
<1>2. p.at \in Int /\ p.ts \in Int /\ h \in Int
  BY FlowAssumption
<1>3. Arrivals(rows)
  BY BooksArrive
<1>4. /\ anchor.index \in 1..(Len(rows) + 1) /\ Len(rows) \in Nat
      /\ \A i \in 1..Len(rows) : rows[i].at \in Int
  <2>. HIDE DEF rows
  <2>1. anchor.index \in 1..(Len(rows) + 1)
    BY <1>2, <1>3, AnchorIs
  <2>. QED BY <2>1, <1>3 DEF Arrivals
<1>5. evidence.start = Min({p.at, from.at}) /\ evidence.end = from.at + h
  BY DEF EvidenceOf
<1>6. screened \in {"out_of_window", "excluded", "kept"}
  BY DEF Screen
<1>7. resolved => /\ anchor.index \in 1..Len(rows) /\ from.at \in Int
                  /\ Last(rows).at \in Int /\ evidence.end \in Int
  <2>. HIDE DEF rows, anchor, evidence
  <2>. SUFFICES ASSUME resolved
                PROVE  /\ anchor.index \in 1..Len(rows) /\ from.at \in Int
                       /\ Last(rows).at \in Int /\ evidence.end \in Int
    OBVIOUS
  <2>1. anchor.index \in 1..Len(rows) /\ Len(rows) \in 1..Len(rows)
    BY <1>4
  <2>2. from.at \in Int /\ rows[Len(rows)].at \in Int
    BY <1>4, <2>1
  <2>3. evidence.end \in Int
    BY <1>2, <1>5, <2>2
  <2>. QED BY <2>1, <2>2, <2>3 DEF Last
<1>. HIDE DEF rows, anchor, from, evidence, to, screened, resolved, host, net
<1>8. fate \in Fates /\ (fate = "kept" => resolved /\ screened = "kept")
  <2>1. CASE ~resolved
    BY <2>1 DEF Fates
  <2>2. CASE resolved /\ Last(rows).at < evidence.end
    <3>1. ~(Last(rows).at >= evidence.end)
      BY <2>2, <1>7
    <3>2. fate = "uncovered"
      BY <2>2, <3>1
    <3>. HIDE DEF fate
    <3>. QED BY <3>2 DEF Fates
  <2>3. CASE resolved /\ Last(rows).at >= evidence.end
    <3>1. ~(Last(rows).at < evidence.end)
      BY <2>3, <1>7
    <3>2. fate = IF ~(Quoted(from) /\ Quoted(to)) THEN "oneSided" ELSE screened
      BY <2>3, <3>1
    <3>. HIDE DEF fate
    <3>. QED BY <2>3, <3>2, <1>6 DEF Fates
  <2>4. resolved => Last(rows).at < evidence.end \/ Last(rows).at >= evidence.end
    BY <1>7
  <2>. HIDE DEF fate
  <2>. QED BY <2>1, <2>2, <2>3, <2>4
<1>. HIDE DEF fate
<1>9. /\ OutcomeOf(p, h).print = p /\ OutcomeOf(p, h).horizon = h
      /\ OutcomeOf(p, h).fate = fate /\ OutcomeOf(p, h).hostClock = host
      /\ OutcomeOf(p, h).anchor = anchor.index /\ OutcomeOf(p, h).end = end
  <2>. HIDE DEF end
  <2>. QED BY <1>1
<1>10. fate = "kept" => OutcomeOf(p, h).end = InForce(rows, evidence.end)
  BY <1>9
<1>11. fate = "kept" => host = anchor.hostClock
  BY DEF host, anchor, AnchorOf
<1>. QED BY <1>5, <1>7, <1>8, <1>9, <1>10, <1>11 DEF Scored, rows, anchor, from, screened, resolved

\* What a score rests on, of one outcome.
Used(o) ==
    LET rows == BookOf(o.print.leg, o.print.at \div LkDayLength)
        end  == rows[o.anchor].at + o.horizon
    IN  {rows[i].at : i \in o.anchor..o.end} \cup {end}
            \cup (IF o.print.at <= end THEN {o.print.at} ELSE {})

SeenOf(o) == /\ Used(o) \subseteq LkDays[DayOfLeg(o.print.leg)].start..LkDays[DayOfLeg(o.print.leg)].end
             /\ ~Meets(LkMerged, Min(Used(o)), Max(Used(o)))

MoveFollows(o) ==
    LET rows == BookOf(o.print.leg, o.print.at \div LkDayLength)
        from == rows[o.anchor]
    IN  IF o.hostClock THEN from.at > o.print.at
        ELSE /\ from.ts # NOSTAMP /\ from.ts > o.print.ts
             /\ \A i \in 1..(o.anchor - 1) : rows[i].ts # NOSTAMP => rows[i].ts <= o.print.ts

LEMMA MoveFollowsScore ==
    ASSUME tfJob \in TfJobs, NEW o, NEW p \in Range(tfJob.prints), NEW h \in TfHorizons,
           o.print = p, o.horizon = h, Scored(o, p, h)
    PROVE  MoveFollows(o)
<1>. DEFINE rows == BookOf(p.leg, p.at \div LkDayLength)
            a    == AnchorOf(p, rows)
<1>1. p.at \in Int /\ p.ts \in Int
  BY FlowAssumption
<1>2. Arrivals(rows) /\ \A i \in 1..Len(rows) : rows[i].ts \in Int \cup {NOSTAMP}
  BY BooksArrive
<1>3. a.index \in 1..Len(rows) /\ o.anchor = a.index /\ o.hostClock = a.hostClock
  BY DEF Scored
<1>4. /\ a.hostClock => rows[a.index].at > p.at
      /\ ~a.hostClock => rows[a.index].ts # NOSTAMP /\ rows[a.index].ts > p.ts
      /\ ~a.hostClock => \A i \in 1..Len(rows) :
            i < a.index => ~(rows[i].ts # NOSTAMP /\ rows[i].ts > p.ts)
  <2>1. a.index <= Len(rows) /\ Len(rows) \in Nat
    BY <1>2, <1>3 DEF Arrivals
  <2>. HIDE DEF rows
  <2>. QED BY <1>1, <1>2, <2>1, AnchorIs
<1>5. \A i \in 1..(a.index - 1) : i \in 1..Len(rows) /\ i < a.index
  <2>. HIDE DEF a, rows
  <2>. QED BY <1>2, <1>3 DEF Arrivals
<1>. HIDE DEF a
<1>6. MoveFollows(o) <=>
        IF a.hostClock THEN rows[a.index].at > p.at
        ELSE /\ rows[a.index].ts # NOSTAMP /\ rows[a.index].ts > p.ts
             /\ \A i \in 1..(a.index - 1) : rows[i].ts # NOSTAMP => rows[i].ts <= p.ts
  BY <1>3 DEF MoveFollows
<1>. HIDE DEF rows
<1>7. ~a.hostClock => \A i \in 1..(a.index - 1) : rows[i].ts # NOSTAMP => rows[i].ts <= p.ts
  BY <1>1, <1>2, <1>4, <1>5
<1>. QED BY <1>4, <1>6, <1>7

LEMMA EarlierOf ==
    ASSUME NEW a \in Int, NEW b \in Int
    PROVE  Min({a, b}) \in Int /\ Min({a, b}) <= a /\ Min({a, b}) <= b
<1>1. Min({a, b}) = IF a <= b THEN a ELSE b
  BY MinOfTwo
<1>. QED BY <1>1

LEMMA SeenIfScored ==
    ASSUME tfJob \in TfJobs, NEW o, NEW p \in Range(tfJob.prints), NEW h \in TfHorizons,
           DayOfLeg(p.leg) \in DOMAIN LkDays,
           o.print = p, o.horizon = h, Scored(o, p, h)
    PROVE  SeenOf(o)
<1>. DEFINE rows == BookOf(p.leg, p.at \div LkDayLength)
            from == rows[o.anchor].at
            end  == from + h
            day  == LkDays[DayOfLeg(p.leg)]
            first == Min({p.at, from})
            used == {rows[i].at : i \in o.anchor..o.end} \cup {end} \cup (IF p.at <= end THEN {p.at} ELSE {})
<1>1. p.at \in Int /\ h \in Nat /\ day.start \in Int /\ day.end \in Int
  BY FlowAssumption, LockAssumption
<1>2. Arrivals(rows)
  BY BooksArrive
<1>3. /\ o.anchor \in 1..Len(rows) /\ o.end = InForce(rows, end)
      /\ Screen(day, LkMerged, first, end) = "kept"
  BY DEF Scored
<1>. HIDE DEF rows
<1>4. from \in Int /\ end \in Int /\ from <= end
  BY <1>1, <1>2, <1>3 DEF Arrivals
<1>5. /\ o.end \in 0..Len(rows)
      /\ \A i \in 1..Len(rows) : rows[i].at <= end <=> i <= o.end
  <2>. HIDE DEF end
  <2>. QED BY <1>2, <1>3, <1>4, InForceIs
<1>6. first \in Int /\ first <= p.at /\ first <= from
  <2>. HIDE DEF from
  <2>. QED BY <1>1, <1>4, EarlierOf
<1>7. \A i \in o.anchor..o.end : i \in 1..Len(rows) /\ rows[i].at \in Int /\ from <= rows[i].at /\ rows[i].at <= end
  <2>. HIDE DEF end
  <2>. SUFFICES ASSUME NEW i \in o.anchor..o.end
                PROVE  i \in 1..Len(rows) /\ rows[i].at \in Int /\ from <= rows[i].at /\ rows[i].at <= end
    OBVIOUS
  <2>1. i \in 1..Len(rows) /\ o.anchor <= i /\ i <= o.end
    BY <1>2, <1>3, <1>5 DEF Arrivals
  <2>2. rows[i].at \in Int /\ rows[i].at <= end
    BY <1>2, <1>5, <2>1 DEF Arrivals
  <2>3. from <= rows[i].at
    <3>1. CASE o.anchor = i
      BY <3>1, <1>4
    <3>2. CASE o.anchor < i
      BY <3>2, <2>1, <1>2, <1>3 DEF Arrivals
    <3>. QED BY <3>1, <3>2, <2>1, <1>3
  <2>. QED BY <2>1, <2>2, <2>3
<1>8. \A t \in used : t \in Int /\ first <= t /\ t <= end
  <2>. HIDE DEF end, from, first
  <2>. SUFFICES ASSUME NEW t \in used PROVE t \in Int /\ first <= t /\ t <= end
    OBVIOUS
  <2>1. CASE \E i \in o.anchor..o.end : t = rows[i].at
    BY <2>1, <1>4, <1>6, <1>7
  <2>2. CASE t = end
    BY <2>2, <1>4, <1>6
  <2>3. CASE p.at <= end /\ t = p.at
    BY <2>3, <1>1, <1>6
  <2>. QED BY <2>1, <2>2, <2>3
<1>9. IsFiniteSet(used) /\ end \in used
  <2>. DEFINE I == o.anchor..o.end
              f == [i \in I |-> rows[i].at]
  <2>1. IsFiniteSet(I)
    <3>1. o.anchor \in Int /\ o.end \in Int
      BY <1>3, <1>5
    <3>. QED BY <3>1, FS_Interval
  <2>2. {f[i] : i \in I} = {rows[i].at : i \in o.anchor..o.end}
    OBVIOUS
  <2>3. IsFiniteSet({f[i] : i \in I})
    <3>. HIDE DEF I
    <3>1. DOMAIN f = I
      OBVIOUS
    <3>. HIDE DEF f
    <3>. QED BY <2>1, <3>1, ImageIsFinite
  <2>. DEFINE arrivals == {rows[i].at : i \in o.anchor..o.end}
  <2>4. IsFiniteSet(arrivals)
    BY <2>2, <2>3
  <2>. HIDE DEF arrivals, I, f, end
  <2>5. IsFiniteSet(arrivals \cup {end}) /\ IsFiniteSet((arrivals \cup {end}) \cup {p.at})
    BY <2>4, FS_AddElement
  <2>6. (arrivals \cup {end}) \cup {} = arrivals \cup {end}
    OBVIOUS
  <2>7. used = arrivals \cup {end} \cup (IF p.at <= end THEN {p.at} ELSE {})
    BY DEF arrivals
  <2>. HIDE DEF used
  <2>8. used = (arrivals \cup {end}) \cup {p.at} \/ used = arrivals \cup {end}
    BY <2>7
  <2>. QED BY <2>5, <2>7, <2>8
<1>. HIDE DEF used, first, end
<1>10. /\ Min(used) \in used /\ Max(used) \in used
  <2>1. used \in SUBSET Int /\ used # {}
    BY <1>8, <1>9
  <2>. QED BY <1>9, <2>1, MinOfFinite, MaxOfFinite
<1>. HIDE DEF day
<1>11. first >= day.start /\ end <= day.end /\ ~Meets(LkMerged, first, end)
  BY <1>3 DEF Screen
<1>12. used \subseteq day.start..day.end
  <2>1. \A t \in used : t \in day.start..day.end
    BY <1>1, <1>4, <1>6, <1>8, <1>11
  <2>. QED BY <2>1
<1>13. ~Meets(LkMerged, Min(used), Max(used))
  <2>. DEFINE lo == Min(used)
              hi == Max(used)
  <2>1. lo \in Int /\ hi \in Int /\ first <= lo /\ hi <= end
    BY <1>8, <1>10
  <2>2. \A x \in LkMerged : x[1] \in Int /\ x[2] \in Int
    BY LockAssumption
  <2>. HIDE DEF lo, hi
  <2>3. ~Meets(LkMerged, lo, hi)
    BY <1>4, <1>6, <1>11, <2>1, <2>2 DEF Meets
  <2>. QED BY <2>3 DEF lo, hi
<1>14. Used(o) = used
  BY DEF Used, used, end, from, rows
<1>. QED BY <1>12, <1>13, <1>14 DEF SeenOf, day

-----------------------------------------------------------------------------
(***************************************************************************)
(* The counts of the flow study                                            *)
(***************************************************************************)

Parts(F, A, B) == F = A \cup B /\ A \cap B = {}

\* The sizes of two parts of a finite set add up to its size.
LEMMA PartsAdd ==
    ASSUME NEW F, IsFiniteSet(F), NEW A, NEW B, Parts(F, A, B)
    PROVE  /\ IsFiniteSet(A) /\ IsFiniteSet(B)
           /\ Cardinality(A) \in Nat /\ Cardinality(B) \in Nat
           /\ Cardinality(F) = Cardinality(A) + Cardinality(B)
<1>1. IsFiniteSet(A) /\ IsFiniteSet(B)
  <2>1. A \in SUBSET F /\ B \in SUBSET F
    BY DEF Parts
  <2>. QED BY <2>1, FS_Subset
<1>2. Cardinality(A) \in Nat /\ Cardinality(B) \in Nat /\ Cardinality(A \cap B) = 0
  <2>1. A \cap B = {}
    BY DEF Parts
  <2>. QED BY <1>1, <2>1, FS_CardinalityType, FS_EmptySet
<1>3. Cardinality(A \cup B) = Cardinality(A) + Cardinality(B) - Cardinality(A \cap B)
  BY <1>1, FS_Union
<1>. QED BY <1>1, <1>2, <1>3 DEF Parts

Fated(F, f) == {o \in F : o.fate = f}

\* Every outcome has one of the fates.
LEMMA FatesAdd ==
    ASSUME NEW F, IsFiniteSet(F), \A o \in F : o.fate \in Fates
    PROVE  /\ \A f \in Fates : IsFiniteSet(Fated(F, f)) /\ Cardinality(Fated(F, f)) \in Nat
           /\ Cardinality(F) = Cardinality(Fated(F, "kept")) + Cardinality(Fated(F, "unresolved"))
                 + Cardinality(Fated(F, "uncovered")) + Cardinality(Fated(F, "oneSided"))
                 + Cardinality(Fated(F, "excluded")) + Cardinality(Fated(F, "out_of_window"))
<1>. DEFINE a == Fated(F, "kept")
            b == Fated(F, "unresolved")
            c == Fated(F, "uncovered")
            d == Fated(F, "oneSided")
            e == Fated(F, "excluded")
            f == Fated(F, "out_of_window")
            ef    == e \cup f
            def   == d \cup ef
            cdef  == c \cup def
            bcdef == b \cup cdef
<1>1. /\ Parts(F, a, bcdef) /\ Parts(bcdef, b, cdef) /\ Parts(cdef, c, def)
      /\ Parts(def, d, ef) /\ Parts(ef, e, f)
  BY DEF Parts, Fated, Fates
<1>. HIDE DEF a, b, c, d, e, f, ef, def, cdef, bcdef
<1>2. /\ IsFiniteSet(bcdef) /\ IsFiniteSet(a) /\ Cardinality(a) \in Nat
      /\ Cardinality(F) = Cardinality(a) + Cardinality(bcdef) /\ Cardinality(bcdef) \in Nat
  BY <1>1, PartsAdd
<1>3. /\ IsFiniteSet(cdef) /\ IsFiniteSet(b) /\ Cardinality(b) \in Nat
      /\ Cardinality(bcdef) = Cardinality(b) + Cardinality(cdef) /\ Cardinality(cdef) \in Nat
  BY <1>1, <1>2, PartsAdd
<1>4. /\ IsFiniteSet(def) /\ IsFiniteSet(c) /\ Cardinality(c) \in Nat
      /\ Cardinality(cdef) = Cardinality(c) + Cardinality(def) /\ Cardinality(def) \in Nat
  BY <1>1, <1>3, PartsAdd
<1>5. /\ IsFiniteSet(ef) /\ IsFiniteSet(d) /\ Cardinality(d) \in Nat
      /\ Cardinality(def) = Cardinality(d) + Cardinality(ef) /\ Cardinality(ef) \in Nat
  BY <1>1, <1>4, PartsAdd
<1>6. /\ IsFiniteSet(e) /\ IsFiniteSet(f) /\ Cardinality(e) \in Nat /\ Cardinality(f) \in Nat
      /\ Cardinality(ef) = Cardinality(e) + Cardinality(f)
  BY <1>1, <1>5, PartsAdd
<1>7. Cardinality(F) = Cardinality(a) + Cardinality(b) + Cardinality(c) + Cardinality(d)
                       + Cardinality(e) + Cardinality(f)
  BY <1>2, <1>3, <1>4, <1>5, <1>6
<1>8. \A x \in Fates : Fated(F, x) = a \/ Fated(F, x) = b \/ Fated(F, x) = c
                        \/ Fated(F, x) = d \/ Fated(F, x) = e \/ Fated(F, x) = f
  BY DEF a, b, c, d, e, f, Fates
<1>9. \A x \in Fates : IsFiniteSet(Fated(F, x)) /\ Cardinality(Fated(F, x)) \in Nat
  BY <1>2, <1>3, <1>4, <1>5, <1>6, <1>8
<1>. QED BY <1>7, <1>9 DEF a, b, c, d, e, f

\* What has been found of some prints at a horizon.
OfSplit(found, split, h) == {o \in found : SplitOfLeg(o.print.leg) = split /\ o.horizon = h}
FoundOf(inside) == {OutcomeOf(p, h) : p \in inside, h \in TfHorizons}

LEMMA FoundAdds ==
    ASSUME tfJob \in TfJobs, NEW inside \in SUBSET Range(tfJob.prints), IsFiniteSet(inside),
           NEW h \in TfHorizons
    PROVE  /\ IsFiniteSet(OfSplit(FoundOf(inside), "discovery", h))
           /\ IsFiniteSet(OfSplit(FoundOf(inside), "holdout", h))
           /\ Cardinality(inside) = Cardinality(OfSplit(FoundOf(inside), "discovery", h))
                                    + Cardinality(OfSplit(FoundOf(inside), "holdout", h))
           /\ Cardinality(inside) \in Nat
           /\ Cardinality(OfSplit(FoundOf(inside), "discovery", h)) \in Nat
           /\ Cardinality(OfSplit(FoundOf(inside), "holdout", h)) \in Nat
<1>. DEFINE D == OfSplit(FoundOf(inside), "discovery", h)
            H == OfSplit(FoundOf(inside), "holdout", h)
            f == [p \in inside |-> OutcomeOf(p, h)]
            T == {o \in FoundOf(inside) : o.horizon = h}
<1>1. \A p \in inside, k \in TfHorizons : OutcomeOf(p, k).print = p /\ OutcomeOf(p, k).horizon = k
  BY OutcomeIs
<1>2. \A p \in inside : OutcomeOf(p, h) \in T
  BY <1>1 DEF FoundOf
<1>3. \A o \in T : o.print \in inside /\ o = OutcomeOf(o.print, h)
  BY <1>1 DEF FoundOf
<1>4. f \in Bijection(inside, T)
  <2>1. f \in [inside -> T]
    BY <1>2
  <2>2. \A p, q \in inside : f[p] = f[q] => p = q
    BY <1>1
  <2>3. \A o \in T : \E p \in inside : f[p] = o
    BY <1>3
  <2>. HIDE DEF f, T
  <2>. QED BY <2>1, <2>2, <2>3 DEF Bijection, Injection, IsInjective, Surjection
<1>5. IsFiniteSet(T) /\ Cardinality(T) = Cardinality(inside)
  <2>. HIDE DEF f, T
  <2>1. ExistsBijection(inside, T)
    BY <1>4 DEF ExistsBijection
  <2>. QED BY <2>1, FS_Bijection
<1>6. Parts(T, D, H)
  BY DEF Parts, OfSplit, SplitOfLeg
<1>. HIDE DEF T, D, H
<1>7. /\ IsFiniteSet(D) /\ IsFiniteSet(H) /\ Cardinality(D) \in Nat /\ Cardinality(H) \in Nat
      /\ Cardinality(T) = Cardinality(D) + Cardinality(H)
  BY <1>5, <1>6, PartsAdd
<1>8. Cardinality(inside) \in Nat
  BY FS_CardinalityType
<1>. QED BY <1>5, <1>7, <1>8 DEF D, H

-----------------------------------------------------------------------------
(***************************************************************************)
(* The flow study, step by step                                            *)
(***************************************************************************)

\* The prints that a root's sweep may score.
Eligible(series) == {p \in Hygienic(PrintsOfRoot(series)) : DayOfLeg(p.leg) \in DOMAIN LkDays}

\* A score is the outcome of one such print, of a root that has been swept.
ScoreOf(o, p, h) ==
    /\ p \in Range(tfJob.prints) /\ h \in TfHorizons
    /\ o = OutcomeOf(p, h) /\ o.fate = "kept"
    /\ p \in Eligible(LkLegs[p.leg].series)
    /\ LkLegs[p.leg].series \notin Range(tfLeft)

RootsLeft == Distinct(tfLeft)

FlowCountType ==
    /\ tfRead.inScope \in Nat
    /\ DOMAIN tfCounts = SplitNames \X TfHorizons
    /\ \A k \in SplitNames \X TfHorizons :
          /\ tfCounts[k].unresolved \in Nat /\ tfCounts[k].uncovered \in Nat /\ tfCounts[k].oneSided \in Nat
          /\ tfCounts[k].excluded \in Nat /\ tfCounts[k].outside \in Nat

PrintsPlaced == \A h \in TfHorizons : tfRead.inScope = Placed("discovery", h) + Placed("holdout", h)

FlowInv ==
    /\ tfJob \in TfJobs /\ IsFiniteSet(tfOutcomes)
    /\ RootsLeft /\ FlowCountType /\ PrintsPlaced
    /\ \A o \in tfOutcomes : \E p, h : ScoreOf(o, p, h)

\* What the invariant says is what the study promises.
LEMMA FlowInvMeasures == FlowInv => FlowIsMeasuredAfter
<1>. SUFFICES ASSUME FlowInv PROVE FlowIsMeasuredAfter
  OBVIOUS
<1>0. tfJob \in TfJobs
  BY DEF FlowInv
<1>1. ASSUME NEW o \in tfOutcomes, NEW q \in tfOutcomes,
             o.print.trade = q.print.trade, o.horizon = q.horizon
      PROVE  o = q
  <2>1. PICK p, h : ScoreOf(o, p, h)
    BY DEF FlowInv
  <2>2. PICK r, k : ScoreOf(q, r, k)
    BY DEF FlowInv
  <2>3. /\ p \in Range(tfJob.prints) /\ h \in TfHorizons /\ o = OutcomeOf(p, h)
        /\ r \in Range(tfJob.prints) /\ k \in TfHorizons /\ q = OutcomeOf(r, k)
    BY <2>1, <2>2 DEF ScoreOf
  <2>4. o.print = p /\ o.horizon = h /\ q.print = r /\ q.horizon = k
    BY <1>0, <2>3, OutcomeIs
  <2>5. p.leg = r.leg
    BY <1>0, <1>1, <2>3, <2>4, FlowAssumption
  <2>6. /\ p \in Hygienic(PrintsOfRoot(LkLegs[p.leg].series))
        /\ r \in Hygienic(PrintsOfRoot(LkLegs[p.leg].series))
    BY <2>1, <2>2, <2>5 DEF ScoreOf, Eligible
  <2>7. p.id <= r.id /\ r.id <= p.id
    BY <1>1, <2>4, <2>6 DEF Hygienic
  <2>8. p = r
    BY <1>0, <2>3, <2>7, FlowAssumption
  <2>. QED BY <1>1, <2>3, <2>4, <2>8
<1>2. TradesCountOnce
  BY <1>1 DEF TradesCountOnce, FlowInv, PrintsPlaced
<1>3. ASSUME NEW o \in tfOutcomes PROVE SeenOf(o) /\ MoveFollows(o)
  <2>1. PICK p, h : ScoreOf(o, p, h)
    BY DEF FlowInv
  <2>2. /\ p \in Range(tfJob.prints) /\ h \in TfHorizons /\ o = OutcomeOf(p, h) /\ o.fate = "kept"
        /\ DayOfLeg(p.leg) \in DOMAIN LkDays
    BY <2>1 DEF ScoreOf, Eligible
  <2>3. o.print = p /\ o.horizon = h /\ Scored(o, p, h)
    BY <1>0, <2>2, OutcomeIs
  <2>. QED BY <1>0, <2>2, <2>3, SeenIfScored, MoveFollowsScore
<1>4. ScoresWereSeen
  BY <1>3 DEF ScoresWereSeen, SeenOf, Used
<1>5. MovesFollowTheTrade
  BY <1>3 DEF MovesFollowTheTrade, MoveFollows
<1>. QED BY <1>2, <1>4, <1>5 DEF FlowIsMeasuredAfter

\* At first nothing has been read.
LEMMA FlowInvHoldsFirst ==
    ASSUME NEW j \in TfJobs, TfStart(j)
    PROVE  FlowInv
<1>. DEFINE roots == {d[1] : d \in DOMAIN LkDays}
<1>1. /\ tfJob = j /\ tfLeft = Ordered(roots, LkSeriesOrder)
      /\ tfCounts = [k \in SplitNames \X TfHorizons |-> NoFlow]
      /\ tfRead = NothingRead /\ tfOutcomes = {}
  BY DEF TfStart
<1>2. IsFiniteSet(roots)
  <2>. DEFINE f == [d \in DOMAIN LkDays |-> d[1]]
  <2>1. {f[d] : d \in DOMAIN LkDays} = roots /\ DOMAIN f = DOMAIN LkDays
    OBVIOUS
  <2>. HIDE DEF f, roots
  <2>2. IsFiniteSet(DOMAIN LkDays)
    BY LockAssumption
  <2>. QED BY <2>1, <2>2, ImageIsFinite
<1>3. /\ \A s \in roots : LkSeriesOrder[s] \in Int
      /\ \A s, r \in roots : LkSeriesOrder[s] = LkSeriesOrder[r] => s = r
  BY LockAssumption
<1>. HIDE DEF roots
<1>4. tfLeft = Ordered(roots, LkSeriesOrder)
  BY <1>1 DEF roots
<1>5. RootsLeft
  BY <1>2, <1>3, <1>4, OrderedDistinct DEF RootsLeft
<1>6. ASSUME NEW k \in SplitNames \X TfHorizons
      PROVE  /\ tfCounts[k].unresolved = 0 /\ tfCounts[k].uncovered = 0 /\ tfCounts[k].oneSided = 0
             /\ tfCounts[k].excluded = 0 /\ tfCounts[k].outside = 0
  <2>1. tfCounts[k] = NoFlow
    BY <1>1
  <2>. QED BY <2>1 DEF NoFlow
<1>7. tfRead.inScope = 0
  BY <1>1 DEF NothingRead
<1>8. FlowCountType
  BY <1>1, <1>6, <1>7 DEF FlowCountType
<1>9. PrintsPlaced
  <2>. SUFFICES ASSUME NEW h \in TfHorizons
                PROVE  tfRead.inScope = Placed("discovery", h) + Placed("holdout", h)
    BY DEF PrintsPlaced
  <2>1. \A s \in SplitNames : <<s, h>> \in SplitNames \X TfHorizons /\ ScoredIn(s, h) = {}
    BY <1>1 DEF ScoredIn
  <2>2. \A s \in SplitNames : Placed(s, h) = 0
    BY <1>6, <2>1, FS_EmptySet DEF Placed
  <2>. QED BY <1>7, <2>2 DEF SplitNames
<1>. QED BY <1>1, <1>5, <1>8, <1>9, FS_EmptySet DEF FlowInv

\* What a sweep does with the prints that it takes for its own.
Swept(inside) ==
    LET found == FoundOf(inside)
    IN  /\ inside \in SUBSET Eligible(Head(tfLeft))
        /\ tfOutcomes' = tfOutcomes \cup {o \in found : o.fate = "kept"}
        /\ tfCounts' = [k \in DOMAIN tfCounts |-> WithOutcomes(tfCounts[k], OfSplit(found, k[1], k[2]))]
        /\ tfRead'.inScope = tfRead.inScope + Cardinality(inside)
        /\ tfLeft # <<>> /\ tfLeft' = Tail(tfLeft) /\ tfJob' = tfJob

LEMMA SweepIs == SweepRoot => \E inside : Swept(inside)
<1>. SUFFICES ASSUME SweepRoot PROVE \E inside : Swept(inside)
  OBVIOUS
<1>. DEFINE series  == Head(tfLeft)
            all     == PrintsOfRoot(series)
            signed  == {p \in all : p.taker # ""}
            kept    == Hygienic(all)
            scoped  == {p \in kept : DayOfLeg(p.leg) \in DOMAIN LkDays}
            studied == IF tfJob.near /\ series \notin LkDependent THEN {} ELSE scoped
            locked  == {p \in studied : tfJob.near => LockWindow(p.leg) # {}}
            inside  == {p \in locked : tfJob.near => Near(p)}
<1>1. inside \in SUBSET Eligible(series)
  BY DEF Eligible
<1>2. /\ tfOutcomes' = tfOutcomes \cup {o \in FoundOf(inside) : o.fate = "kept"}
      /\ tfCounts' = [k \in DOMAIN tfCounts |-> WithOutcomes(tfCounts[k], OfSplit(FoundOf(inside), k[1], k[2]))]
  <2>1. \E found \in {FoundOf(inside)} :
            /\ tfOutcomes' = tfOutcomes \cup {o \in found : o.fate = "kept"}
            /\ tfCounts' = [k \in DOMAIN tfCounts |-> WithOutcomes(tfCounts[k], OfSplit(found, k[1], k[2]))]
    <3>1. Score(inside)
      BY Zenon DEF SweepRoot
    <3>. HIDE DEF inside
    <3>. QED BY <3>1 DEF Score, FoundOf, OfSplit
  <2>. HIDE DEF inside
  <2>. QED BY <2>1
<1>3. tfRead'.inScope = tfRead.inScope + Cardinality(inside)
  <2>1. tfRead' = [emptySide |-> tfRead.emptySide + Cardinality(all \ signed),
                    duplicates |-> tfRead.duplicates + Cardinality(signed \ kept),
                    outOfScope |-> tfRead.outOfScope + Cardinality(kept \ scoped),
                    offUniverse |-> tfRead.offUniverse + Cardinality(scoped \ studied),
                    noLock |-> tfRead.noLock + Cardinality(studied \ locked),
                    outsideLock |-> tfRead.outsideLock + Cardinality(locked \ inside),
                    inScope |-> tfRead.inScope + Cardinality(inside)]
    BY Zenon DEF SweepRoot
  <2>. HIDE DEF inside, locked, studied, scoped, kept, signed, all
  <2>. QED BY <2>1
<1>4. tfLeft # <<>> /\ tfLeft' = Tail(tfLeft) /\ tfJob' = tfJob
  <2>1. tfLeft # <<>>
    <3>. HIDE DEF inside, locked, studied, scoped, kept, signed, all, series
    <3>1. tfVerdict = "none" /\ tfLeft # <<>>
      BY Zenon DEF SweepRoot
    <3>. QED BY <3>1
  <2>2. tfLeft' = Tail(tfLeft)
    BY Zenon DEF SweepRoot
  <2>3. UNCHANGED <<tfJob, tfVerdict>>
    BY Zenon DEF SweepRoot
  <2>. QED BY <2>1, <2>2, <2>3
<1>. HIDE DEF inside, locked, studied, scoped, kept, signed, all
<1>5. Swept(inside)
  BY <1>1, <1>2, <1>3, <1>4 DEF Swept
<1>. QED BY <1>5

LEMMA SweepKeepsFlowInv ==
    ASSUME FlowInv, NEW inside, Swept(inside)
    PROVE  FlowInv'
<1>. DEFINE series == Head(tfLeft)
            found  == FoundOf(inside)
            scored == Fated(found, "kept")
<1>0. /\ tfJob \in TfJobs /\ IsFiniteSet(tfOutcomes) /\ RootsLeft /\ FlowCountType /\ PrintsPlaced
      /\ \A o \in tfOutcomes : \E p, h : ScoreOf(o, p, h)
  BY DEF FlowInv
<1>1. /\ inside \in SUBSET Eligible(series)
      /\ tfOutcomes' = tfOutcomes \cup scored
      /\ tfCounts' = [k \in DOMAIN tfCounts |-> WithOutcomes(tfCounts[k], OfSplit(found, k[1], k[2]))]
      /\ tfRead'.inScope = tfRead.inScope + Cardinality(inside)
      /\ tfLeft # <<>> /\ tfLeft' = Tail(tfLeft) /\ tfJob' = tfJob
  BY DEF Swept, Fated
<1>2. inside \in SUBSET Range(tfJob.prints) /\ \A p \in inside : LkLegs[p.leg].series = series
  BY <1>1 DEF Eligible, Hygienic, PrintsOfRoot
<1>3. IsFiniteSet(inside)
  <2>1. /\ Len(tfJob.prints) \in Nat /\ DOMAIN tfJob.prints = 1..Len(tfJob.prints)
    BY <1>0, FlowAssumption
  <2>2. IsFiniteSet(DOMAIN tfJob.prints)
    <3>1. 1 \in Int /\ Len(tfJob.prints) \in Int
      BY <2>1
    <3>. QED BY <2>1, <3>1, FS_Interval
  <2>3. IsFiniteSet({tfJob.prints[i] : i \in DOMAIN tfJob.prints})
    BY <2>2, ImageIsFinite
  <2>4. Range(tfJob.prints) = {tfJob.prints[i] : i \in DOMAIN tfJob.prints}
    BY DEF Range
  <2>. QED BY <1>2, <2>3, <2>4, FS_Subset
<1>4. RootsLeft' /\ series \in Range(tfLeft) /\ series \notin Range(tfLeft') /\ Range(tfLeft') \subseteq Range(tfLeft)
  <2>1. Distinct(tfLeft)
    BY <1>0 DEF RootsLeft
  <2>2. /\ Distinct(Tail(tfLeft)) /\ series \notin Range(Tail(tfLeft))
        /\ Range(Tail(tfLeft)) \subseteq Range(tfLeft)
    BY <1>1, <2>1, DistinctTail
  <2>3. series \in Range(tfLeft)
    BY <1>1, <2>1 DEF Distinct, Range
  <2>. QED BY <1>1, <2>2, <2>3 DEF RootsLeft
<1>. HIDE DEF series
<1>5. \A o \in found : \E p \in inside, h \in TfHorizons :
          o = OutcomeOf(p, h) /\ o.print = p /\ o.horizon = h /\ o.fate \in Fates
  BY <1>0, <1>2, OutcomeIs DEF FoundOf
<1>6. \A o \in tfOutcomes' : \E p, h : ScoreOf(o, p, h)'
  <2>1. ASSUME NEW o \in tfOutcomes PROVE \E p, h : ScoreOf(o, p, h)'
    <3>1. PICK p, h : ScoreOf(o, p, h)
      BY <1>0
    <3>2. ScoreOf(o, p, h)'
      BY <3>1, <1>1, <1>4 DEF ScoreOf, OutcomeOf, BookOf, Eligible, Hygienic, PrintsOfRoot
    <3>. QED BY <3>2
  <2>2. ASSUME NEW o \in scored PROVE \E p, h : ScoreOf(o, p, h)'
    <3>1. o \in found /\ o.fate = "kept"
      BY DEF Fated
    <3>2. PICK p \in inside, h \in TfHorizons : o = OutcomeOf(p, h)
      BY <1>5, <3>1
    <3>3. p \in Range(tfJob.prints) /\ p \in Eligible(LkLegs[p.leg].series) /\ LkLegs[p.leg].series = series
      BY <1>1, <1>2
    <3>4. ScoreOf(o, p, h)'
      BY <1>1, <1>4, <3>1, <3>2, <3>3
         DEF ScoreOf, OutcomeOf, BookOf, Eligible, Hygienic, PrintsOfRoot
    <3>. QED BY <3>4
  <2>. QED BY <1>1, <2>1, <2>2
<1>7. IsFiniteSet(tfOutcomes')
  <2>. DEFINE f == [x \in inside \X TfHorizons |-> OutcomeOf(x[1], x[2])]
  <2>1. IsFiniteSet(inside \X TfHorizons)
    BY <1>3, FlowAssumption, FS_Product
  <2>2. DOMAIN f = inside \X TfHorizons
    OBVIOUS
  <2>3. \A o \in found : \E x \in inside \X TfHorizons : o = f[x]
    <3>1. ASSUME NEW p \in inside, NEW h \in TfHorizons
          PROVE  <<p, h>> \in inside \X TfHorizons /\ f[<<p, h>>] = OutcomeOf(p, h)
      OBVIOUS
    <3>. SUFFICES ASSUME NEW o \in found PROVE \E x \in inside \X TfHorizons : o = f[x]
      OBVIOUS
    <3>2. PICK p \in inside, h \in TfHorizons : o = OutcomeOf(p, h)
      BY <1>5
    <3>. HIDE DEF f
    <3>. QED BY <3>1, <3>2
  <2>. DEFINE image == {f[x] : x \in inside \X TfHorizons}
  <2>4. IsFiniteSet(image)
    <3>. HIDE DEF f
    <3>. QED BY <2>1, <2>2, ImageIsFinite
  <2>5. scored \in SUBSET image
    <3>. HIDE DEF f
    <3>. QED BY <2>3 DEF Fated
  <2>. HIDE DEF image, scored
  <2>. QED BY <1>0, <1>1, <2>4, <2>5, FS_Subset, FS_Union
<1>8. ASSUME NEW s \in SplitNames, NEW h \in TfHorizons
      PROVE  LET F == OfSplit(found, s, h)
             IN  /\ IsFiniteSet(F)
                 /\ Cardinality(ScoredIn(s, h)) \in Nat
                 /\ Cardinality(ScoredIn(s, h)') = Cardinality(ScoredIn(s, h)) + Cardinality(Fated(F, "kept"))
  <2>. DEFINE F == OfSplit(found, s, h)
              was == ScoredIn(s, h)
              now == ScoredIn(s, h)'
  <2>1. IsFiniteSet(F)
    BY <1>0, <1>2, <1>3, FoundAdds DEF SplitNames
  <2>2. now = was \cup Fated(F, "kept")
    BY <1>1 DEF ScoredIn, OfSplit, Fated
  <2>3. was \cap Fated(F, "kept") = {}
    <3>. SUFFICES ASSUME NEW o \in was, o \in found PROVE FALSE
      BY DEF OfSplit, Fated
    <3>1. PICK p, k : ScoreOf(o, p, k)
      BY <1>0 DEF ScoredIn
    <3>2. PICK q \in inside, m \in TfHorizons : o = OutcomeOf(q, m) /\ o.print = q
      BY <1>5
    <3>3. o.print = p
      BY <1>0, <3>1, OutcomeIs DEF ScoreOf
    <3>4. LkLegs[p.leg].series \notin Range(tfLeft) /\ LkLegs[q.leg].series = series
      BY <1>2, <3>1, <3>2 DEF ScoreOf
    <3>. QED BY <1>4, <3>2, <3>3, <3>4
  <2>4. IsFiniteSet(was) /\ IsFiniteSet(now)
    <3>1. was \in SUBSET tfOutcomes /\ now \in SUBSET tfOutcomes'
      BY DEF ScoredIn
    <3>. QED BY <3>1, <1>0, <1>7, FS_Subset
  <2>5. Parts(now, was, Fated(F, "kept"))
    BY <2>2, <2>3 DEF Parts
  <2>. HIDE DEF F, was, now
  <2>6. Cardinality(was) \in Nat /\ Cardinality(now) = Cardinality(was) + Cardinality(Fated(F, "kept"))
    BY <2>4, <2>5, PartsAdd
  <2>. QED BY <2>1, <2>6 DEF F, was, now
<1>9. ASSUME NEW s \in SplitNames, NEW h \in TfHorizons
      PROVE  LET F == OfSplit(found, s, h)
                 k == <<s, h>>
             IN  /\ tfCounts'[k].unresolved = tfCounts[k].unresolved + Cardinality(Fated(F, "unresolved"))
                 /\ tfCounts'[k].uncovered = tfCounts[k].uncovered + Cardinality(Fated(F, "uncovered"))
                 /\ tfCounts'[k].oneSided = tfCounts[k].oneSided + Cardinality(Fated(F, "oneSided"))
                 /\ tfCounts'[k].excluded = tfCounts[k].excluded + Cardinality(Fated(F, "excluded"))
                 /\ tfCounts'[k].outside = tfCounts[k].outside + Cardinality(Fated(F, "out_of_window"))
  <2>. DEFINE k == <<s, h>>
              F == OfSplit(found, s, h)
  <2>1. k \in DOMAIN tfCounts /\ k[1] = s /\ k[2] = h
    BY <1>0 DEF FlowCountType
  <2>2. tfCounts'[k] = WithOutcomes(tfCounts[k], F)
    BY <1>1, <2>1
  <2>. HIDE DEF k, F
  <2>3. /\ tfCounts'[k].unresolved = tfCounts[k].unresolved + Cardinality(Fated(F, "unresolved"))
        /\ tfCounts'[k].uncovered = tfCounts[k].uncovered + Cardinality(Fated(F, "uncovered"))
        /\ tfCounts'[k].oneSided = tfCounts[k].oneSided + Cardinality(Fated(F, "oneSided"))
        /\ tfCounts'[k].excluded = tfCounts[k].excluded + Cardinality(Fated(F, "excluded"))
        /\ tfCounts'[k].outside = tfCounts[k].outside + Cardinality(Fated(F, "out_of_window"))
    BY <2>2 DEF WithOutcomes, Fated
  <2>. QED BY <2>3 DEF k, F
<1>10. ASSUME NEW s \in SplitNames, NEW h \in TfHorizons
       PROVE  LET F == OfSplit(found, s, h)
              IN  /\ \A f \in Fates : Cardinality(Fated(F, f)) \in Nat
                  /\ Cardinality(F) = Cardinality(Fated(F, "kept")) + Cardinality(Fated(F, "unresolved"))
                       + Cardinality(Fated(F, "uncovered")) + Cardinality(Fated(F, "oneSided"))
                       + Cardinality(Fated(F, "excluded")) + Cardinality(Fated(F, "out_of_window"))
  <2>. DEFINE F == OfSplit(found, s, h)
  <2>1. IsFiniteSet(F)
    BY <1>8
  <2>2. \A o \in F : o.fate \in Fates
    BY <1>5 DEF OfSplit
  <2>. HIDE DEF F
  <2>3. /\ \A f \in Fates : Cardinality(Fated(F, f)) \in Nat
        /\ Cardinality(F) = Cardinality(Fated(F, "kept")) + Cardinality(Fated(F, "unresolved"))
                       + Cardinality(Fated(F, "uncovered")) + Cardinality(Fated(F, "oneSided"))
                       + Cardinality(Fated(F, "excluded")) + Cardinality(Fated(F, "out_of_window"))
    BY <2>1, <2>2, FatesAdd
  <2>. QED BY <2>3 DEF F
<1>. HIDE DEF found, scored
<1>11. FlowCountType'
  <2>1. tfRead'.inScope \in Nat
    BY <1>0, <1>1, <1>3, FS_CardinalityType DEF FlowCountType
  <2>2. DOMAIN tfCounts' = SplitNames \X TfHorizons
    BY <1>0, <1>1 DEF FlowCountType
  <2>3. ASSUME NEW s \in SplitNames, NEW h \in TfHorizons
        PROVE  LET k == <<s, h>>
               IN  /\ tfCounts'[k].unresolved \in Nat /\ tfCounts'[k].uncovered \in Nat
                   /\ tfCounts'[k].oneSided \in Nat /\ tfCounts'[k].excluded \in Nat
                   /\ tfCounts'[k].outside \in Nat
    <3>. DEFINE F == OfSplit(found, s, h)
                k == <<s, h>>
    <3>1. /\ tfCounts[k].unresolved \in Nat /\ tfCounts[k].uncovered \in Nat /\ tfCounts[k].oneSided \in Nat
          /\ tfCounts[k].excluded \in Nat /\ tfCounts[k].outside \in Nat
      BY <1>0 DEF FlowCountType
    <3>2. /\ Cardinality(Fated(F, "unresolved")) \in Nat /\ Cardinality(Fated(F, "uncovered")) \in Nat
          /\ Cardinality(Fated(F, "oneSided")) \in Nat /\ Cardinality(Fated(F, "excluded")) \in Nat
          /\ Cardinality(Fated(F, "out_of_window")) \in Nat
      BY <1>10 DEF Fates
    <3>3. /\ tfCounts'[k].unresolved = tfCounts[k].unresolved + Cardinality(Fated(F, "unresolved"))
          /\ tfCounts'[k].uncovered = tfCounts[k].uncovered + Cardinality(Fated(F, "uncovered"))
          /\ tfCounts'[k].oneSided = tfCounts[k].oneSided + Cardinality(Fated(F, "oneSided"))
          /\ tfCounts'[k].excluded = tfCounts[k].excluded + Cardinality(Fated(F, "excluded"))
          /\ tfCounts'[k].outside = tfCounts[k].outside + Cardinality(Fated(F, "out_of_window"))
      BY <1>9
    <3>. HIDE DEF F, k
    <3>4. /\ tfCounts'[k].unresolved \in Nat /\ tfCounts'[k].uncovered \in Nat
          /\ tfCounts'[k].oneSided \in Nat /\ tfCounts'[k].excluded \in Nat
          /\ tfCounts'[k].outside \in Nat
      BY <3>1, <3>2, <3>3
    <3>. QED BY <3>4 DEF k
  <2>4. \A k \in SplitNames \X TfHorizons : k = <<k[1], k[2]>> /\ k[1] \in SplitNames /\ k[2] \in TfHorizons
    OBVIOUS
  <2>. QED BY <2>1, <2>2, <2>3, <2>4 DEF FlowCountType
<1>12. ASSUME NEW s \in SplitNames, NEW h \in TfHorizons
       PROVE  /\ Placed(s, h) \in Nat
              /\ Placed(s, h)' = Placed(s, h) + Cardinality(OfSplit(found, s, h))
  <2>. DEFINE F == OfSplit(found, s, h)
              k == <<s, h>>
              was == Cardinality(ScoredIn(s, h))
              now == Cardinality(ScoredIn(s, h)')
  <2>1. /\ tfCounts[k].unresolved \in Nat /\ tfCounts[k].uncovered \in Nat /\ tfCounts[k].oneSided \in Nat
        /\ tfCounts[k].excluded \in Nat /\ tfCounts[k].outside \in Nat
    BY <1>0 DEF FlowCountType
  <2>2. /\ tfCounts'[k].unresolved = tfCounts[k].unresolved + Cardinality(Fated(F, "unresolved"))
        /\ tfCounts'[k].uncovered = tfCounts[k].uncovered + Cardinality(Fated(F, "uncovered"))
        /\ tfCounts'[k].oneSided = tfCounts[k].oneSided + Cardinality(Fated(F, "oneSided"))
        /\ tfCounts'[k].excluded = tfCounts[k].excluded + Cardinality(Fated(F, "excluded"))
        /\ tfCounts'[k].outside = tfCounts[k].outside + Cardinality(Fated(F, "out_of_window"))
    BY <1>9
  <2>3. was \in Nat /\ now = was + Cardinality(Fated(F, "kept"))
    BY <1>8
  <2>4. /\ Cardinality(Fated(F, "kept")) \in Nat
        /\ Cardinality(Fated(F, "unresolved")) \in Nat /\ Cardinality(Fated(F, "uncovered")) \in Nat
        /\ Cardinality(Fated(F, "oneSided")) \in Nat /\ Cardinality(Fated(F, "excluded")) \in Nat
        /\ Cardinality(Fated(F, "out_of_window")) \in Nat
        /\ Cardinality(F) = Cardinality(Fated(F, "kept")) + Cardinality(Fated(F, "unresolved"))
                       + Cardinality(Fated(F, "uncovered")) + Cardinality(Fated(F, "oneSided"))
                       + Cardinality(Fated(F, "excluded")) + Cardinality(Fated(F, "out_of_window"))
    BY <1>10 DEF Fates
  <2>5. /\ Placed(s, h) = was + tfCounts[k].unresolved + tfCounts[k].uncovered + tfCounts[k].oneSided
                          + tfCounts[k].excluded + tfCounts[k].outside
        /\ Placed(s, h)' = now + tfCounts'[k].unresolved + tfCounts'[k].uncovered + tfCounts'[k].oneSided
                           + tfCounts'[k].excluded + tfCounts'[k].outside
    BY DEF Placed
  <2>. HIDE DEF F, k, was, now
  <2>6. Placed(s, h) \in Nat /\ Placed(s, h)' = Placed(s, h) + Cardinality(F)
    BY <2>1, <2>2, <2>3, <2>4, <2>5
  <2>. QED BY <2>6 DEF F
<1>13. PrintsPlaced'
  <2>. SUFFICES ASSUME NEW h \in TfHorizons
                PROVE  tfRead'.inScope = Placed("discovery", h)' + Placed("holdout", h)'
    BY DEF PrintsPlaced
  <2>1. "discovery" \in SplitNames /\ "holdout" \in SplitNames
    BY DEF SplitNames
  <2>2. tfRead.inScope = Placed("discovery", h) + Placed("holdout", h)
    BY <1>0 DEF PrintsPlaced
  <2>3. /\ Cardinality(inside) = Cardinality(OfSplit(found, "discovery", h))
                                + Cardinality(OfSplit(found, "holdout", h))
        /\ Cardinality(OfSplit(found, "discovery", h)) \in Nat
        /\ Cardinality(OfSplit(found, "holdout", h)) \in Nat
    BY <1>0, <1>2, <1>3, FoundAdds DEF found
  <2>. QED BY <1>1, <1>12, <2>1, <2>2, <2>3
<1>. QED BY <1>0, <1>1, <1>4, <1>6, <1>7, <1>11, <1>13 DEF FlowInv

\* The flow study, whatever prints and whatever book it is given: each trade is
\* scored or counted once at each horizon; a score rests on rows that the
\* recorder has seen; and the move that it scores begins after the trade.
THEOREM FlowMeasuredAfter == TfSpec => []FlowIsMeasuredAfter
<1>1. TfInit => FlowInv
  BY FlowInvHoldsFirst DEF TfInit
<1>2. FlowInv /\ [TfNext]_tfVars => FlowInv'
  <2>1. ASSUME FlowInv, SweepRoot PROVE FlowInv'
    BY <2>1, SweepIs, SweepKeepsFlowInv
  <2>2. ASSUME FlowInv, UNCHANGED <<tfJob, tfLeft, tfCounts, tfRead, tfOutcomes>> PROVE FlowInv'
    <3>1. tfJob' = tfJob /\ tfLeft' = tfLeft /\ tfCounts' = tfCounts /\ tfRead' = tfRead /\ tfOutcomes' = tfOutcomes
      BY <2>2
    <3>2. RootsLeft' /\ FlowCountType'
      BY <2>2, <3>1 DEF FlowInv, RootsLeft, FlowCountType
    <3>3. PrintsPlaced'
      <4>1. \A s, h : Placed(s, h)' = Placed(s, h)
        BY <3>1 DEF Placed, ScoredIn
      <4>. QED BY <2>2, <3>1, <4>1 DEF FlowInv, PrintsPlaced
    <3>4. \A o, p, h : ScoreOf(o, p, h)' <=> ScoreOf(o, p, h)
      BY <3>1 DEF ScoreOf, OutcomeOf, BookOf, Eligible, Hygienic, PrintsOfRoot
    <3>. QED BY <2>2, <3>1, <3>2, <3>3, <3>4 DEF FlowInv
  <2>3. DecideFlow => UNCHANGED <<tfJob, tfLeft, tfCounts, tfRead, tfOutcomes>>
    BY DEF DecideFlow
  <2>. QED BY <2>1, <2>2, <2>3 DEF TfNext, tfVars
<1>. QED BY <1>1, <1>2, FlowInvMeasures, PTL DEF TfSpec

-----------------------------------------------------------------------------
(***************************************************************************)
(* The lock studies: the side of a lock                                    *)
(***************************************************************************)

RealReadings(R) == IsFiniteSet(R) /\ \A r \in R : r.valid \in Int /\ r.at \in Int /\ r.temp \in Int

\* Mirrored, a later extreme is at least an earlier one.
LEMMA ExtremesMount ==
    ASSUME NEW series, NEW R, RealReadings(R), NEW r \in R, NEW until \in Int, r.valid <= until
    PROVE  /\ Mirrored(series, Extreme(series, R, r.valid)) \in Int
           /\ Extreme(series, R, r.valid) \in Int /\ Extreme(series, R, until) \in Int
           /\ Mirrored(series, Extreme(series, R, until)) \in Int
           /\ Mirrored(series, Extreme(series, R, r.valid)) <= Mirrored(series, Extreme(series, R, until))
<1>. DEFINE M(x) == Mirrored(series, x)
            T(t) == {M(x.temp) : x \in {y \in R : y.valid <= t}}
<1>1. \A x \in Int : M(x) \in Int /\ M(M(x)) = x
  BY DEF Mirrored
<1>2. \A x \in R : x.valid \in Int /\ x.temp \in Int
  BY DEF RealReadings
<1>3. ASSUME NEW t \in Int, r.valid <= t
      PROVE  T(t) \in SUBSET Int /\ T(t) # {} /\ IsFiniteSet(T(t))
  <2>1. T(t) \in SUBSET Int
    BY <1>1, <1>2
  <2>2. M(r.temp) \in T(t)
    BY <1>3
  <2>. DEFINE f == [x \in R |-> M(x.temp)]
              image == {f[x] : x \in R}
  <2>3. DOMAIN f = R
    OBVIOUS
  <2>4. T(t) \in SUBSET image
    OBVIOUS
  <2>5. IsFiniteSet(image)
    <3>. HIDE DEF f
    <3>. QED BY <2>3, ImageIsFinite DEF RealReadings
  <2>. HIDE DEF T, f, image
  <2>. QED BY <2>1, <2>2, <2>4, <2>5, FS_Subset
<1>4. T(r.valid) \subseteq T(until)
  <2>1. \A y \in R : y.valid <= r.valid => y.valid <= until
    BY <1>2
  <2>. QED BY <2>1
<1>5. Extreme(series, R, r.valid) = M(Max(T(r.valid))) /\ Extreme(series, R, until) = M(Max(T(until)))
  BY DEF Extreme
<1>. HIDE DEF T
<1>6. /\ T(r.valid) \in SUBSET Int /\ T(r.valid) # {} /\ IsFiniteSet(T(r.valid))
      /\ T(until) \in SUBSET Int /\ T(until) # {} /\ IsFiniteSet(T(until))
  BY <1>2, <1>3
<1>7. /\ Max(T(r.valid)) \in T(r.valid) /\ Max(T(until)) \in T(until)
      /\ \A x \in T(until) : x <= Max(T(until))
  BY <1>6, MaxOfFinite
<1>8. Max(T(r.valid)) \in Int /\ Max(T(until)) \in Int /\ Max(T(r.valid)) <= Max(T(until))
  BY <1>4, <1>6, <1>7
<1>. HIDE DEF M
<1>9. /\ M(Extreme(series, R, r.valid)) = Max(T(r.valid)) /\ M(Extreme(series, R, until)) = Max(T(until))
      /\ Extreme(series, R, r.valid) \in Int /\ Extreme(series, R, until) \in Int
  BY <1>1, <1>5, <1>8
<1>. QED BY <1>8, <1>9 DEF M

\* A lock past the margin is of the side that any temperature within the margin
\* of a later extreme is paid for.
LEMMA SideHolds ==
    ASSUME NEW l \in LkNames, NEW then, NEW peak,
           Mirrored(LkLegs[l].series, then) \in Int, peak \in Int,
           Mirrored(LkLegs[l].series, then) <= Mirrored(LkLegs[l].series, peak),
           Reaches(LockOf(l, LkLegs[l].listed), then, LkMargin),
           NEW temp \in (peak - LkMargin + 1)..(peak + LkMargin - 1)
    PROVE  SettlesYes(l, LkLegs[l].listed, temp) = (LockOf(l, LkLegs[l].listed).side = "yes")
<1>. DEFINE kind == LkLegs[l].listed
            lock == LockOf(l, kind)
            lo == LkLegs[l].lo
            hi == LkLegs[l].hi
            falling == LkLegs[l].series \in LkFalling
            t == Mirrored(LkLegs[l].series, then)
<1>1. /\ LkMargin \in Int /\ lo \in Int /\ kind \in {"bracket", "above", "below"}
      /\ kind = "bracket" => hi \in Int
  BY LockStudyAssumption
<1>2. /\ lock.series = LkLegs[l].series
      /\ lock.side = IF kind = (IF falling THEN "below" ELSE "above") THEN "yes" ELSE "no"
      /\ lock.strike = IF kind = "bracket" /\ ~falling THEN hi ELSE lo
  BY DEF LockOf
<1>3. lock.strike \in Int
  BY <1>1, <1>2
<1>4. IF lock.side = "yes" THEN t >= Mirrored(lock.series, lock.strike) + LkMargin
      ELSE t > Mirrored(lock.series, lock.strike) + LkMargin
  BY <1>2 DEF Reaches
<1>. HIDE DEF lock
<1>5. CASE falling
  <2>1. /\ t <= -peak /\ t \in Int /\ Mirrored(lock.series, lock.strike) = -lo
    BY <1>2, <1>5 DEF Mirrored
  <2>2. temp \in Int /\ -temp >= -peak - LkMargin + 1
    BY <1>1
  <2>. HIDE DEF t, kind, lo, hi, falling
  <2>3. temp < lo
    BY <1>1, <1>4, <2>1, <2>2
  <2>4. kind = "above" => ~(temp > lo)
    BY <1>1, <2>2, <2>3
  <2>5. kind = "bracket" => ~(lo <= temp)
    BY <1>1, <2>2, <2>3
  <2>6. (lock.side = "yes") = (kind = "below")
    BY <1>2, <1>5
  <2>. QED BY <1>1, <2>3, <2>4, <2>5, <2>6 DEF SettlesYes, kind, lo, hi, lock
<1>6. CASE ~falling
  <2>1. /\ t <= peak /\ t \in Int /\ Mirrored(lock.series, lock.strike) = lock.strike
    BY <1>2, <1>6 DEF Mirrored
  <2>2. temp \in Int /\ temp >= peak - LkMargin + 1
    BY <1>1
  <2>. HIDE DEF t, kind, lo, hi, falling
  <2>3. temp > lock.strike
    BY <1>1, <1>3, <1>4, <2>1, <2>2
  <2>4. kind # "bracket" => temp > lo
    BY <1>2, <2>3
  <2>5. kind = "bracket" => ~(temp <= hi)
    BY <1>1, <1>2, <1>6, <2>2, <2>3
  <2>6. (lock.side = "yes") = (kind = "above")
    BY <1>2, <1>6
  <2>7. kind = "below" => ~(temp < lo)
    BY <1>1, <2>2, <2>4
  <2>. QED BY <1>1, <2>4, <2>5, <2>6, <2>7 DEF SettlesYes, kind, lo, hi, lock
<1>. QED BY <1>5, <1>6

\* The locks that a scan takes for clean.
CleanOn(d) == {k \in LadderLocks(Census(d), ReadingsOf(d)) : ~k.ambiguous}
ReadDays == {d \in DOMAIN LkDays : d[1] \in LkDependent /\ RecordedOn(d) \in DOMAIN lkJob.readings}

LEMMA DetectedIs ==
    ASSUME NEW l, NEW kind, NEW R, NEW k \in Detected(l, kind, R)
    PROVE  LET series == LkLegs[l].series
               W      == InWindow(DayOfLeg(l), R)
           IN  \E r \in W :
                 /\ k.leg = l /\ k.side = LockOf(l, kind).side /\ k.at = r.at
                 /\ k.ambiguous = ~Reaches(LockOf(l, kind), Extreme(series, W, r.valid), LkMargin)
<1>. DEFINE series == LkLegs[l].series
            W == InWindow(DayOfLeg(l), R)
            lock == LockOf(l, kind)
<1>1. PICK r \in W : k = [leg |-> l, series |-> lock.series, side |-> lock.side, strike |-> lock.strike,
          at |-> r.at, temp |-> Extreme(lock.series, W, r.valid),
          ambiguous |-> ~Reaches(lock, Extreme(lock.series, W, r.valid), LkMargin)]
  BY DEF Detected
<1>2. lock.series = series
  BY DEF LockOf
<1>. HIDE DEF lock, W, series
<1>3. /\ k.leg = l /\ k.side = lock.side /\ k.at = r.at
      /\ k.ambiguous = ~Reaches(lock, Extreme(series, W, r.valid), LkMargin)
  BY <1>1, <1>2
<1>. QED BY <1>3 DEF lock, W, series

\* A lock of a day comes from a reading of it.
LEMMA CleanOnIs ==
    ASSUME lkJob \in LkJobs, NEW d \in DOMAIN LkDays, NEW k \in CleanOn(d)
    PROVE  /\ RecordedOn(d) \in DOMAIN lkJob.readings
           /\ k.leg \in LkNames /\ DayOfLeg(k.leg) = d
           /\ k.at \in Int
           /\ LET series == LkLegs[k.leg].series
                  kind   == KindIn(k.leg, Census(d))
                  W      == InWindow(d, ReadingsOf(d))
              IN  \E r \in W : /\ k.side = LockOf(k.leg, kind).side
                               /\ Reaches(LockOf(k.leg, kind), Extreme(series, W, r.valid), LkMargin)
<1>1. PICK l \in Census(d) : k \in Detected(l, KindIn(l, Census(d)), ReadingsOf(d))
  BY DEF CleanOn, LadderLocks
<1>2. l \in LkNames /\ DayOfLeg(l) = d
  BY DEF Census, LadderOf
<1>. DEFINE series == LkLegs[l].series
            kind   == KindIn(l, Census(d))
            W      == InWindow(d, ReadingsOf(d))
<1>3. PICK r \in W : /\ k.leg = l /\ k.side = LockOf(l, kind).side /\ k.at = r.at
                     /\ k.ambiguous = ~Reaches(LockOf(l, kind), Extreme(series, W, r.valid), LkMargin)
  BY <1>1, <1>2, DetectedIs
<1>4. ~k.ambiguous
  BY DEF CleanOn
<1>5. r \in ReadingsOf(d)
  BY DEF InWindow
<1>6. RecordedOn(d) \in DOMAIN lkJob.readings /\ r.at \in Int
  BY <1>5, LockStudyAssumption DEF ReadingsOf
<1>. HIDE DEF W, kind, series
<1>7. \E x \in W : /\ k.side = LockOf(l, kind).side
                   /\ Reaches(LockOf(l, kind), Extreme(series, W, x.valid), LkMargin)
  BY <1>3, <1>4
<1>. QED BY <1>2, <1>3, <1>6, <1>7 DEF W, kind, series

LEMMA WindowIsReal ==
    ASSUME lkJob \in LkJobs, NEW d \in DOMAIN LkDays
    PROVE  /\ RealReadings(InWindow(d, ReadingsOf(d)))
           /\ LkDays[d].end \in Int
           /\ \A r \in InWindow(d, ReadingsOf(d)) : r.valid <= LkDays[d].end
<1>1. RealReadings(ReadingsOf(d))
  BY LockStudyAssumption, FS_EmptySet DEF RealReadings, ReadingsOf
<1>2. InWindow(d, ReadingsOf(d)) \in SUBSET ReadingsOf(d)
  BY DEF InWindow
<1>3. LkDays[d].end \in Int
  BY LockAssumption
<1>4. \A r \in InWindow(d, ReadingsOf(d)) : r.valid \in Int /\ r.valid < LkDays[d].end
  BY <1>1 DEF InWindow, RealReadings
<1>5. RealReadings(InWindow(d, ReadingsOf(d)))
  <2>. DEFINE R == ReadingsOf(d)
              W == InWindow(d, R)
  <2>1. W \in SUBSET R /\ RealReadings(R)
    BY <1>1, <1>2
  <2>. HIDE DEF R, W
  <2>2. RealReadings(W)
    BY <2>1, FS_Subset DEF RealReadings
  <2>. QED BY <2>2 DEF R, W
<1>6. \A r \in InWindow(d, ReadingsOf(d)) : r.valid <= LkDays[d].end
  BY <1>3, <1>4
<1>. QED BY <1>3, <1>5, <1>6

LEMMA CleanSideHolds ==
    ASSUME lkJob \in LkJobs, NEW d \in DOMAIN LkDays, NEW k \in CleanOn(d), Census(d) = LadderOf(d),
           NEW temp \in (Extreme(d[1], InWindow(d, ReadingsOf(d)), LkDays[d].end) - LkMargin + 1)..
                        (Extreme(d[1], InWindow(d, ReadingsOf(d)), LkDays[d].end) + LkMargin - 1)
    PROVE  SettlesYes(k.leg, LkLegs[k.leg].listed, temp) = (k.side = "yes")
<1>. DEFINE W == InWindow(d, ReadingsOf(d))
            l == k.leg
            series == LkLegs[l].series
            kind == LkLegs[l].listed
            peak == Extreme(series, W, LkDays[d].end)
<1>1. l \in LkNames /\ DayOfLeg(l) = d
  BY CleanOnIs
<1>2. series = d[1]
  BY <1>1 DEF DayOfLeg
<1>3. KindIn(l, Census(d)) = kind
  BY <1>1, LockStudyAssumption
<1>4. PICK r \in W : /\ k.side = LockOf(l, kind).side
                     /\ Reaches(LockOf(l, kind), Extreme(series, W, r.valid), LkMargin)
  BY <1>3, CleanOnIs
<1>5. RealReadings(W) /\ LkDays[d].end \in Int /\ r.valid <= LkDays[d].end
  BY WindowIsReal
<1>. DEFINE then == Extreme(series, W, r.valid)
<1>6. /\ Mirrored(series, then) \in Int /\ peak \in Int
      /\ Mirrored(series, then) <= Mirrored(series, peak)
  <2>. HIDE DEF W, series
  <2>. QED BY <1>5, ExtremesMount
<1>7. temp \in (peak - LkMargin + 1)..(peak + LkMargin - 1)
  BY <1>2
<1>. HIDE DEF peak, then, W
<1>8. SettlesYes(l, kind, temp) = (LockOf(l, kind).side = "yes")
  BY <1>1, <1>4, <1>6, <1>7, SideHolds DEF then
<1>. QED BY <1>4, <1>8

-----------------------------------------------------------------------------
(***************************************************************************)
(* The lock studies: how long the book takes                               *)
(***************************************************************************)

\* The rows in force over the persistence, by their place and by the clock.
HoldsAt(rows, side, u) ==
    /\ InForce(rows, u) > 0
    /\ \A i \in InForce(rows, u)..InForce(rows, u + LkPersist) : InBand(rows[i], side)

QuotedAt(rows, side, u) == InForce(rows, u) > 0 /\ InBand(rows[InForce(rows, u)], side)

StaysFrom(rows, side, u) ==
    /\ \A v \in u..(u + LkPersist) : QuotedAt(rows, side, v)
    /\ \A i \in DOMAIN rows : u < rows[i].at /\ rows[i].at <= u + LkPersist => InBand(rows[i], side)

LEMMA LaterRowInForce ==
    ASSUME NEW rows, Arrivals(rows), NEW u \in Int, NEW v \in Int, u <= v
    PROVE  InForce(rows, u) <= InForce(rows, v)
<1>. DEFINE i == InForce(rows, u)
            j == InForce(rows, v)
<1>1. /\ i \in 0..Len(rows) /\ j \in 0..Len(rows) /\ Len(rows) \in Nat
      /\ \A n \in 1..Len(rows) : rows[n].at \in Int
      /\ \A n \in 1..Len(rows) : rows[n].at <= u <=> n <= i
      /\ \A n \in 1..Len(rows) : rows[n].at <= v <=> n <= j
  BY InForceIs DEF Arrivals
<1>. HIDE DEF i, j
<1>2. i # 0 => i \in 1..Len(rows)
  BY <1>1
<1>3. i # 0 => rows[i].at <= v
  BY <1>1, <1>2
<1>4. i <= j
  BY <1>1, <1>2, <1>3
<1>. QED BY <1>4 DEF i, j

LEMMA HoldsIfStays ==
    ASSUME NEW rows, Arrivals(rows), NEW side, NEW u \in Int
    PROVE  HoldsAt(rows, side, u) <=> StaysFrom(rows, side, u)
<1>. DEFINE i == InForce(rows, u)
            j == InForce(rows, u + LkPersist)
<1>1. LkPersist \in Nat /\ u + LkPersist \in Int /\ u <= u + LkPersist
  BY LockStudyAssumption
<1>2. /\ i \in 0..Len(rows) /\ j \in 0..Len(rows) /\ Len(rows) \in Nat /\ DOMAIN rows = 1..Len(rows)
      /\ \A n \in 1..Len(rows) : rows[n].at \in Int
      /\ \A n \in 1..Len(rows) : rows[n].at <= u <=> n <= i
      /\ \A n \in 1..Len(rows) : rows[n].at <= u + LkPersist <=> n <= j
  BY <1>1, InForceIs DEF Arrivals
<1>3. ASSUME HoldsAt(rows, side, u) PROVE StaysFrom(rows, side, u)
  <2>1. i > 0 /\ \A n \in i..j : InBand(rows[n], side)
    BY <1>3 DEF HoldsAt
  <2>2. ASSUME NEW v \in u..(u + LkPersist) PROVE QuotedAt(rows, side, v)
    <3>1. v \in Int /\ u <= v /\ v <= u + LkPersist
      BY <1>1
    <3>2. i <= InForce(rows, v) /\ InForce(rows, v) <= j /\ InForce(rows, v) \in 0..Len(rows)
      BY <1>1, <3>1, LaterRowInForce, InForceIs
    <3>. HIDE DEF i, j
    <3>3. InForce(rows, v) \in i..j /\ InForce(rows, v) > 0
      BY <1>2, <2>1, <3>2
    <3>. QED BY <2>1, <3>3 DEF QuotedAt
  <2>3. ASSUME NEW n \in DOMAIN rows, u < rows[n].at, rows[n].at <= u + LkPersist
        PROVE  InBand(rows[n], side)
    <3>. HIDE DEF i, j
    <3>1. rows[n].at \in Int /\ ~(rows[n].at <= u) /\ n \in 1..Len(rows)
      BY <1>2, <2>3
    <3>2. ~(n <= i) /\ n <= j
      BY <1>2, <2>3, <3>1
    <3>3. n \in i..j
      BY <1>2, <3>1, <3>2
    <3>. QED BY <2>1, <3>3
  <2>. QED BY <2>2, <2>3 DEF StaysFrom
<1>4. ASSUME StaysFrom(rows, side, u) PROVE HoldsAt(rows, side, u)
  <2>1. QuotedAt(rows, side, u)
    <3>1. u \in u..(u + LkPersist)
      BY <1>1
    <3>. QED BY <1>4, <3>1 DEF StaysFrom
  <2>2. i > 0 /\ InBand(rows[i], side)
    BY <2>1 DEF QuotedAt
  <2>3. ASSUME NEW n \in i..j PROVE InBand(rows[n], side)
    <3>. HIDE DEF i, j
    <3>1. CASE n = i
      BY <2>2, <3>1
    <3>2. CASE n # i
      <4>1. n \in 1..Len(rows) /\ ~(n <= i) /\ n <= j
        BY <1>2, <2>2, <3>2
      <4>2. u < rows[n].at /\ rows[n].at <= u + LkPersist
        BY <1>1, <1>2, <4>1
      <4>. QED BY <1>2, <1>4, <4>1, <4>2 DEF StaysFrom
    <3>. QED BY <3>1, <3>2
  <2>. QED BY <2>2, <2>3 DEF HoldsAt
<1>. QED BY <1>3, <1>4

\* The instants that the search tries.
Tried(rows, at) == {at} \cup {r.at : r \in {x \in Range(rows) : x.at > at}}

\* If the book stays from u on, it stays from where its row came into force,
\* which is an instant that the search tries.
LEMMA TriedInTime ==
    ASSUME NEW rows, Arrivals(rows), NEW side, NEW at \in Int, NEW u \in Int, at <= u,
           HoldsAt(rows, side, u)
    PROVE  \E w \in Tried(rows, at) : w \in Int /\ w <= u /\ HoldsAt(rows, side, w)
<1>. DEFINE i == InForce(rows, u)
            w == IF rows[i].at > at THEN rows[i].at ELSE at
<1>1. /\ i \in 1..Len(rows) /\ Len(rows) \in Nat /\ DOMAIN rows = 1..Len(rows)
      /\ rows[i].at \in Int /\ rows[i].at <= u
  <2>1. i \in 0..Len(rows) /\ i > 0 /\ \A n \in 1..Len(rows) : rows[n].at <= u <=> n <= i
    BY InForceIs DEF HoldsAt
  <2>2. Len(rows) \in Nat /\ DOMAIN rows = 1..Len(rows) /\ \A n \in 1..Len(rows) : rows[n].at \in Int
    BY DEF Arrivals
  <2>. HIDE DEF i
  <2>. QED BY <2>1, <2>2
<1>2. \A n \in i..InForce(rows, u + LkPersist) : InBand(rows[n], side)
  BY DEF HoldsAt
<1>. HIDE DEF i
<1>3. w \in Int /\ w <= u /\ rows[i].at <= w
  BY <1>1
<1>4. w \in Tried(rows, at)
  <2>1. rows[i] \in Range(rows)
    BY <1>1 DEF Range
  <2>. QED BY <2>1 DEF Tried
<1>. HIDE DEF w
<1>5. InForce(rows, w) = i
  <2>1. /\ InForce(rows, w) \in 0..Len(rows)
        /\ \A n \in 1..Len(rows) : rows[n].at <= w <=> n <= InForce(rows, w)
    BY <1>3, InForceIs
  <2>2. i <= InForce(rows, w)
    BY <1>1, <1>3, <2>1
  <2>3. InForce(rows, w) <= i
    BY <1>3, LaterRowInForce DEF i
  <2>. QED BY <1>1, <2>1, <2>2, <2>3
<1>6. InForce(rows, w + LkPersist) <= InForce(rows, u + LkPersist)
      /\ InForce(rows, w + LkPersist) \in Int /\ InForce(rows, u + LkPersist) \in Int
  <2>1. w + LkPersist \in Int /\ u + LkPersist \in Int /\ w + LkPersist <= u + LkPersist
    BY <1>3, LockStudyAssumption
  <2>. QED BY <2>1, LaterRowInForce, InForceIs
<1>7. \A n \in i..InForce(rows, w + LkPersist) : n \in i..InForce(rows, u + LkPersist)
  BY <1>1, <1>6
<1>8. HoldsAt(rows, side, w)
  BY <1>1, <1>2, <1>5, <1>7 DEF HoldsAt
<1>. QED BY <1>3, <1>4, <1>8

LEMMA ConvergedIs ==
    ASSUME NEW rows, Arrivals(rows), NEW lock, lock.at \in Int, NEW end \in Int
    PROVE  LET c == Converged(rows, lock, end)
           IN  IF c = UNCONVERGED
               THEN \A u \in Int : lock.at <= u /\ u + LkPersist <= end => ~HoldsAt(rows, lock.side, u)
               ELSE /\ c \in Int /\ HoldsAt(rows, lock.side, c)
                    /\ \A u \in Int : lock.at <= u /\ u < c /\ u + LkPersist <= end
                          => ~HoldsAt(rows, lock.side, u)
<1>. DEFINE able == {u \in Tried(rows, lock.at) : u + LkPersist <= end /\ HoldsAt(rows, lock.side, u)}
            c == Converged(rows, lock, end)
<1>0. LkPersist \in Nat /\ UNCONVERGED \notin Int
  BY LockStudyAssumption
<1>1. c = IF able = {} THEN UNCONVERGED ELSE Min(able)
  BY DEF Converged, Tried, HoldsAt
<1>2. Tried(rows, lock.at) \in SUBSET Int /\ IsFiniteSet(Tried(rows, lock.at))
  <2>1. Len(rows) \in Nat /\ DOMAIN rows = 1..Len(rows) /\ \A n \in 1..Len(rows) : rows[n].at \in Int
    BY DEF Arrivals
  <2>. DEFINE f == [n \in DOMAIN rows |-> rows[n].at]
              image == {f[n] : n \in DOMAIN rows}
  <2>2. IsFiniteSet(image)
    <3>1. 1 \in Int /\ Len(rows) \in Int /\ IsFiniteSet(1..Len(rows))
      BY <2>1, FS_Interval
    <3>2. DOMAIN f = DOMAIN rows
      OBVIOUS
    <3>. HIDE DEF f
    <3>. QED BY <2>1, <3>1, <3>2, ImageIsFinite
  <2>3. Tried(rows, lock.at) \in SUBSET (image \cup {lock.at})
    BY DEF Tried, Range
  <2>4. image \in SUBSET Int
    BY <2>1
  <2>. HIDE DEF image
  <2>5. IsFiniteSet(image \cup {lock.at})
    BY <2>2, FS_AddElement
  <2>. QED BY <2>3, <2>4, <2>5, FS_Subset
<1>3. able \in SUBSET Int /\ IsFiniteSet(able)
  <2>1. able \in SUBSET Tried(rows, lock.at)
    OBVIOUS
  <2>. QED BY <1>2, <2>1, FS_Subset
<1>4. ASSUME NEW u \in Int, lock.at <= u, u + LkPersist <= end, HoldsAt(rows, lock.side, u)
      PROVE  \E w \in able : w <= u
  <2>1. PICK w \in Tried(rows, lock.at) : w \in Int /\ w <= u /\ HoldsAt(rows, lock.side, w)
    BY <1>4, TriedInTime
  <2>2. w + LkPersist <= end
    BY <1>0, <1>4, <2>1
  <2>. QED BY <2>1, <2>2
<1>5. able # {} => Min(able) \in able /\ \A x \in able : Min(able) <= x
  <2>. HIDE DEF able
  <2>. QED BY <1>3, MinOfFinite
<1>6. \A u \in able : HoldsAt(rows, lock.side, u)
  OBVIOUS
<1>. HIDE DEF able, c
<1>7. CASE able = {}
  BY <1>1, <1>4, <1>7 DEF c
<1>8. CASE able # {}
  <2>1. c \in Int /\ c # UNCONVERGED /\ HoldsAt(rows, lock.side, c)
    BY <1>0, <1>1, <1>3, <1>5, <1>6, <1>8
  <2>2. ASSUME NEW u \in Int, lock.at <= u, u < c, u + LkPersist <= end PROVE ~HoldsAt(rows, lock.side, u)
    <3>. SUFFICES ASSUME HoldsAt(rows, lock.side, u) PROVE FALSE
      OBVIOUS
    <3>1. PICK w \in able : w <= u
      BY <1>4, <2>2
    <3>2. c <= w /\ w \in Int
      BY <1>1, <1>3, <1>5, <1>8
    <3>. QED BY <2>1, <2>2, <3>1, <3>2
  <2>. QED BY <2>1, <2>2 DEF c
<1>. QED BY <1>7, <1>8

LEMMA RowsArrive ==
    ASSUME lkJob \in LkJobs, NEW leg, NEW day
    PROVE  Arrivals(RowsIn(lkJob.book, leg, day))
<1>. DEFINE book == lkJob.book
            I == {i \in DOMAIN book : /\ book[i].leg = leg
                                     /\ LkDays[day].start <= book[i].at /\ book[i].at <= LkDays[day].end}
<1>1. /\ Len(book) \in Nat /\ DOMAIN book = 1..Len(book)
      /\ \A i \in DOMAIN book : book[i].at \in Int
      /\ \A i, k \in DOMAIN book : i < k /\ book[i].leg = book[k].leg => book[i].at <= book[k].at
  BY LockStudyAssumption
<1>2. I \in SUBSET Int /\ IsFiniteSet(I)
  <2>1. I \in SUBSET (1..Len(book)) /\ 1 \in Int /\ Len(book) \in Int
    BY <1>1
  <2>2. IsFiniteSet(1..Len(book)) /\ 1..Len(book) \in SUBSET Int
    BY <2>1, FS_Interval
  <2>. HIDE DEF I
  <2>. QED BY <2>1, <2>2, FS_Subset
<1>3. RowsIn(book, leg, day) = Among(book, I)
  BY DEF RowsIn
<1>4. /\ \A i \in I : book[i].at \in Int
      /\ \A i, j \in I : i < j => book[i].at <= book[j].at
  BY <1>1
<1>. HIDE DEF I, book
<1>5. PICK g : Picked(Among(book, I), book, I, g)
  BY <1>2, AmongIs
<1>6. Arrivals(Among(book, I))
  BY <1>2, <1>4, <1>5, PickedArrive
<1>. QED BY <1>3, <1>6 DEF book

\* What HalfLivesFollowTheBook says of one measure.
Follows(rows, side, at, half, censored, end) ==
    /\ \A u \in at..((at + half) - 1) : u + LkPersist <= end => ~StaysFrom(rows, side, u)
    /\ IF censored THEN at + half = end ELSE StaysFrom(rows, side, at + half)

FollowsTheBook(m) ==
    Follows(RowsIn(lkJob.book, m.lock.leg, m.day), m.lock.side, m.lock.at, m.half, m.censored, LkDays[m.day].end)

LEMMA MeasureFollows ==
    ASSUME lkJob \in LkJobs, NEW day \in DOMAIN LkDays, NEW k, k.at \in Int
    PROVE  FollowsTheBook(Measure(k, day))
<1>. DEFINE rows == RowsIn(lkJob.book, k.leg, day)
            end  == LkDays[day].end
            c    == Converged(rows, k, end)
            m    == Measure(k, day)
            half == (IF c # UNCONVERGED THEN c ELSE end) - k.at
            fate == Screen(LkDays[day], LkMerged, k.at, IF c # UNCONVERGED THEN c + LkPersist ELSE end)
<1>1. Arrivals(rows) /\ end \in Int
  BY RowsArrive, LockAssumption
<1>2. m = [lock |-> k, day |-> day, half |-> half, censored |-> ~(c # UNCONVERGED), fate |-> fate]
  BY DEF Measure
<1>. HIDE DEF m, fate, half
<1>3. m.lock = k /\ m.day = day /\ m.half = half /\ m.censored = (c = UNCONVERGED)
  BY <1>2
<1>4. IF c = UNCONVERGED
      THEN \A u \in Int : k.at <= u /\ u + LkPersist <= end => ~HoldsAt(rows, k.side, u)
      ELSE /\ c \in Int /\ HoldsAt(rows, k.side, c)
           /\ \A u \in Int : k.at <= u /\ u < c /\ u + LkPersist <= end => ~HoldsAt(rows, k.side, u)
  <2>. HIDE DEF rows, end
  <2>. QED BY <1>1, ConvergedIs
<1>5. \A u \in Int : HoldsAt(rows, k.side, u) <=> StaysFrom(rows, k.side, u)
  <2>. HIDE DEF rows
  <2>. QED BY <1>1, HoldsIfStays
<1>6. FollowsTheBook(m) <=> Follows(rows, k.side, k.at, half, c = UNCONVERGED, end)
  <2>1. /\ RowsIn(lkJob.book, m.lock.leg, m.day) = rows /\ LkDays[m.day].end = end
        /\ m.lock.at = k.at /\ m.lock.side = k.side /\ m.half = half
    BY <1>3
  <2>. HIDE DEF c, rows, end
  <2>. QED BY Zenon, <1>3, <2>1 DEF FollowsTheBook
<1>. HIDE DEF rows, end, c
<1>7. CASE c = UNCONVERGED
  <2>1. k.at + half = end
    BY <1>1, <1>7 DEF half
  <2>2. \A u \in k.at..((k.at + half) - 1) : u \in Int /\ k.at <= u
    BY <1>1, <2>1
  <2>. QED BY <1>4, <1>5, <1>6, <1>7, <2>1, <2>2 DEF m, Follows
<1>8. CASE c # UNCONVERGED
  <2>1. k.at + half = c /\ c \in Int /\ half \in Int
    BY <1>4, <1>8 DEF half
  <2>2. \A u \in k.at..((k.at + half) - 1) : u \in Int /\ k.at <= u /\ u < c
    BY <2>1
  <2>. QED BY <1>4, <1>5, <1>6, <1>8, <2>1, <2>2 DEF m, Follows
<1>. QED BY <1>7, <1>8

-----------------------------------------------------------------------------
(***************************************************************************)
(* The lock studies, step by step                                          *)
(***************************************************************************)

Scanned == lkPhase \notin {"survey", "scan", "raised"}

\* What a survey says of a day is what the readings of it lock.
SupplyIsCounted ==
    \A d \in DOMAIN lkSupply :
        /\ d \in DOMAIN LkDays
        /\ lkSupply[d].clean
             = Cardinality({k \in LadderLocks(LadderOf(d), ReadingsOf(d)) : ~k.ambiguous})

LockInv ==
    /\ lkJob \in LkJobs
    /\ lkPhase = "survey" => lkSupply = <<>>
    /\ SupplyIsCounted
    /\ IF Scanned THEN lkLocks = UNION {CleanOn(d) : d \in ReadDays} ELSE lkLocks = {} /\ lkKept = {}
    /\ \A m \in lkKept : \E k \in lkLocks : m = Measure(k, DayOfLeg(k.leg))

LEMMA LockOfDay ==
    ASSUME LockInv, NEW k \in lkLocks
    PROVE  /\ lkJob \in LkJobs /\ DayOfLeg(k.leg) \in DOMAIN LkDays
           /\ k \in CleanOn(DayOfLeg(k.leg)) /\ k.at \in Int
<1>1. lkJob \in LkJobs /\ lkLocks = UNION {CleanOn(d) : d \in ReadDays}
  BY DEF LockInv
<1>2. PICK d \in ReadDays : k \in CleanOn(d)
  BY <1>1
<1>3. d \in DOMAIN LkDays
  BY DEF ReadDays
<1>4. DayOfLeg(k.leg) = d /\ k.at \in Int
  BY <1>1, <1>2, <1>3, CleanOnIs
<1>. QED BY <1>1, <1>2, <1>3, <1>4

LEMMA LockInvMeasures == LockInv => LocksAreMeasuredRight
<1>. SUFFICES ASSUME LockInv PROVE LocksAreMeasuredRight
  OBVIOUS
<1>0. lkJob \in LkJobs
  BY DEF LockInv
<1>1. CleanLocksHold
  <2>. SUFFICES ASSUME NEW k \in lkLocks, Census(DayOfLeg(k.leg)) = LadderOf(DayOfLeg(k.leg))
                PROVE  LET day  == DayOfLeg(k.leg)
                           peak == Extreme(day[1], InWindow(day, ReadingsOf(day)), LkDays[day].end)
                       IN  \A temp \in (peak - LkMargin + 1)..(peak + LkMargin - 1) :
                               SettlesYes(k.leg, LkLegs[k.leg].listed, temp) = (k.side = "yes")
    BY DEF CleanLocksHold
  <2>. DEFINE day == DayOfLeg(k.leg)
  <2>1. day \in DOMAIN LkDays /\ k \in CleanOn(day) /\ Census(day) = LadderOf(day)
    BY LockOfDay
  <2>. HIDE DEF day
  <2>2. \A temp \in (Extreme(day[1], InWindow(day, ReadingsOf(day)), LkDays[day].end) - LkMargin + 1)..
                    (Extreme(day[1], InWindow(day, ReadingsOf(day)), LkDays[day].end) + LkMargin - 1) :
            SettlesYes(k.leg, LkLegs[k.leg].listed, temp) = (k.side = "yes")
    BY <1>0, <2>1, CleanSideHolds
  <2>. QED BY <2>2 DEF day
<1>2. StudiesAgreeOnLocks
  <2>. SUFFICES ASSUME Scanned, NEW d \in DOMAIN lkSupply, d[1] \in LkDependent, Census(d) = LadderOf(d)
                PROVE  lkSupply[d].clean = Cardinality({k \in lkLocks : DayOfLeg(k.leg) = d})
    BY DEF StudiesAgreeOnLocks, Scanned
  <2>1. d \in DOMAIN LkDays /\ lkSupply[d].clean = Cardinality(CleanOn(d))
    BY DEF LockInv, SupplyIsCounted, CleanOn
  <2>2. lkLocks = UNION {CleanOn(x) : x \in ReadDays}
    BY DEF LockInv
  <2>3. \A k \in lkLocks : DayOfLeg(k.leg) = d => k \in CleanOn(d)
    BY LockOfDay
  <2>4. ASSUME NEW k \in CleanOn(d) PROVE k \in lkLocks /\ DayOfLeg(k.leg) = d
    <3>1. RecordedOn(d) \in DOMAIN lkJob.readings /\ DayOfLeg(k.leg) = d
      BY <1>0, <2>1, CleanOnIs
    <3>2. d \in ReadDays
      BY <2>1, <3>1 DEF ReadDays
    <3>. QED BY <2>2, <3>1, <3>2
  <2>5. {k \in lkLocks : DayOfLeg(k.leg) = d} = CleanOn(d)
    BY <2>3, <2>4
  <2>. QED BY <2>1, <2>5
<1>3. \A m \in lkKept : FollowsTheBook(m)
  <2>. SUFFICES ASSUME NEW m \in lkKept PROVE FollowsTheBook(m)
    OBVIOUS
  <2>1. PICK k \in lkLocks : m = Measure(k, DayOfLeg(k.leg))
    BY DEF LockInv
  <2>. QED BY <2>1, LockOfDay, MeasureFollows
<1>4. HalfLivesFollowTheBook
  <2>. DEFINE rows(m)  == RowsIn(lkJob.book, m.lock.leg, m.day)
              until(m) == m.lock.at + m.half
              stays(m, u) == StaysFrom(rows(m), m.lock.side, u)
  <2>1. ASSUME NEW m \in lkKept
        PROVE  /\ \A u \in m.lock.at..(until(m) - 1) : u + LkPersist <= LkDays[m.day].end => ~stays(m, u)
               /\ IF m.censored THEN until(m) = LkDays[m.day].end ELSE stays(m, until(m))
    <3>1. FollowsTheBook(m)
      BY <1>3
    <3>. QED BY Zenon, <3>1 DEF FollowsTheBook, Follows
  <2>. QED BY Zenon, <2>1 DEF HalfLivesFollowTheBook, StaysFrom, QuotedAt
<1>. QED BY <1>1, <1>2, <1>4 DEF LocksAreMeasuredRight

LEMMA LockInvHoldsFirst ==
    ASSUME NEW j \in LkJobs, LkStart(j)
    PROVE  LockInv
<1>1. /\ lkJob = j /\ lkSupply = <<>> /\ lkLocks = {} /\ lkKept = {} /\ lkPhase = "survey"
  BY DEF LkStart
<1>2. DOMAIN lkSupply = {}
  BY <1>1
<1>. QED BY <1>1, <1>2 DEF LockInv, SupplyIsCounted, Scanned

\* Nothing that the invariant speaks of depends on more than these variables.
LEMMA LockSame ==
    ASSUME UNCHANGED lkJob
    PROVE  /\ \A d : CleanOn(d)' = CleanOn(d) /\ ReadingsOf(d)' = ReadingsOf(d)
           /\ ReadDays' = ReadDays
           /\ \A k, d : Measure(k, d)' = Measure(k, d)
<1>1. lkJob' = lkJob
  OBVIOUS
<1>2. \A d : ReadingsOf(d)' = ReadingsOf(d) /\ Census(d)' = Census(d)
  BY <1>1 DEF ReadingsOf, Census
<1>3. \A d : CleanOn(d)' = CleanOn(d)
  BY <1>2 DEF CleanOn
<1>4. ReadDays' = ReadDays
  BY <1>1 DEF ReadDays
<1>5. \A k, d : Measure(k, d)' = Measure(k, d)
  BY <1>1 DEF Measure
<1>. QED BY <1>2, <1>3, <1>4, <1>5

LEMMA SurveyKeepsLockInv == ASSUME LockInv, Survey PROVE LockInv'
<1>. DEFINE row(day) ==
               LET window == InWindow(day, ReadingsOf(day))
                   first  == CHOOSE r \in window : \A x \in window : r.valid <= x.valid
                   found  == LadderLocks(LadderOf(day), ReadingsOf(day))
                   clean  == {k \in found : ~k.ambiguous}
                   open   == {k \in clean : k.at = first.at}
               IN  [readings |-> Cardinality(window), markets |-> Cardinality(LadderOf(day)),
                    clean |-> Cardinality(clean), ambiguous |-> Cardinality(found \ clean),
                    windowOpen |-> Cardinality(open), midDay |-> Cardinality(clean \ open)]
            mixed == lkJob.roots \cap LkFalling # {} /\ ~(lkJob.roots \subseteq LkFalling)
            days == {d \in DOMAIN LkDays : d[1] \in lkJob.roots /\ LadderOf(d) # {}}
<1>1. lkSupply' = IF mixed THEN <<>> ELSE [d \in days |-> row(d)]
  BY Zenon DEF Survey
<1>2. lkPhase = "survey" /\ lkPhase' = "scan" /\ lkJob' = lkJob /\ lkLocks' = lkLocks /\ lkKept' = lkKept
  BY DEF Survey
<1>3. \A d : row(d).clean = Cardinality({k \in LadderLocks(LadderOf(d), ReadingsOf(d)) : ~k.ambiguous})
  OBVIOUS
<1>4. \A d : ReadingsOf(d)' = ReadingsOf(d)
  BY <1>2, LockSame
<1>. HIDE DEF row, mixed
<1>5. SupplyIsCounted'
  <2>1. CASE mixed
    <3>1. DOMAIN lkSupply' = {}
      BY <1>1, <2>1
    <3>. QED BY <3>1 DEF SupplyIsCounted
  <2>2. CASE ~mixed
    <3>1. lkSupply' = [d \in days |-> row(d)]
      BY <1>1, <2>2
    <3>. QED BY <1>3, <1>4, <3>1 DEF SupplyIsCounted
  <2>. QED BY <2>1, <2>2
<1>6. lkLocks = {} /\ lkKept = {} /\ lkJob \in LkJobs
  BY <1>2 DEF LockInv, Scanned
<1>. QED BY <1>2, <1>5, <1>6 DEF LockInv, Scanned

LEMMA ScanKeepsLockInv == ASSUME LockInv, ScanLocks PROVE LockInv'
<1>. DEFINE days  == {d \in DOMAIN LkDays : d[1] \in LkDependent}
            read  == {d \in days : RecordedOn(d) \in DOMAIN lkJob.readings}
            found == UNION {LadderLocks(Census(d), ReadingsOf(d)) : d \in read}
            clean == {k \in found : ~k.ambiguous}
<1>1. lkPhase = "scan" /\ lkJob' = lkJob /\ lkSupply' = lkSupply /\ lkKept' = lkKept
  BY DEF ScanLocks
<1>2. \/ lkPhase' = "raised" /\ lkLocks' = lkLocks
      \/ lkPhase' = "sweep" /\ lkLocks' = clean
  BY DEF ScanLocks
<1>3. lkLocks = {} /\ lkKept = {} /\ lkJob \in LkJobs /\ SupplyIsCounted
  BY <1>1 DEF LockInv, Scanned
<1>4. clean = UNION {CleanOn(d) : d \in ReadDays}
  <2>1. read = ReadDays
    BY DEF ReadDays
  <2>. HIDE DEF read
  <2>. QED BY <2>1 DEF CleanOn
<1>. HIDE DEF clean
<1>5. SupplyIsCounted'
  BY <1>1, <1>3, LockSame DEF SupplyIsCounted
<1>6. UNION {CleanOn(d) : d \in ReadDays}' = UNION {CleanOn(d) : d \in ReadDays}
  BY <1>1, LockSame
<1>. QED BY <1>1, <1>2, <1>3, <1>4, <1>5, <1>6 DEF LockInv, Scanned

LEMMA SweepKeepsLockInv == ASSUME LockInv, SweepDay PROVE LockInv'
<1>. DEFINE day == Head(lkLeft)
            locks == {k \in lkLocks : DayOfLeg(k.leg) = day}
<1>1. /\ lkPhase = "sweep" /\ lkPhase' \in {"sweep", "decide"}
      /\ lkJob' = lkJob /\ lkSupply' = lkSupply /\ lkLocks' = lkLocks
  BY DEF SweepDay
<1>2. \/ lkKept' = lkKept
      \/ lkKept' = lkKept \cup {m \in {Measure(k, day) : k \in locks} : m.fate = "kept"}
  BY DEF SweepDay
<1>3. Scanned /\ Scanned'
  BY <1>1 DEF Scanned
<1>4. \A m \in lkKept' : \E k \in lkLocks : m = Measure(k, DayOfLeg(k.leg))
  BY <1>2 DEF LockInv
<1>5. (lkLocks = UNION {CleanOn(d) : d \in ReadDays})'
  <2>1. lkLocks = UNION {CleanOn(d) : d \in ReadDays}
    BY <1>3 DEF LockInv
  <2>. QED BY <1>1, <2>1, LockSame
<1>6. SupplyIsCounted'
  BY <1>1, LockSame DEF LockInv, SupplyIsCounted
<1>7. \A m \in lkKept' : \E k \in lkLocks' : m = Measure(k, DayOfLeg(k.leg))'
  BY <1>1, <1>4, LockSame
<1>8. lkJob' \in LkJobs /\ lkPhase' # "survey"
  BY <1>1 DEF LockInv
<1>. QED BY <1>3, <1>5, <1>6, <1>7, <1>8 DEF LockInv

\* The lock studies, whatever was read and whatever the book did: a lock that
\* they call clean is of the side that is paid, they count the same locks, and
\* a half-life is what the book of the day says it is.
THEOREM LocksMeasuredRight == LkSpec => []LocksAreMeasuredRight
<1>1. LkInit => LockInv
  BY LockInvHoldsFirst DEF LkInit
<1>2. LockInv /\ [LkNext]_lkVars => LockInv'
  <2>1. ASSUME LockInv, UNCHANGED <<lkJob, lkSupply, lkLocks, lkKept>>,
               lkPhase' = lkPhase \/ (Scanned /\ lkPhase' = "done")
        PROVE  LockInv'
    <3>1. lkJob' = lkJob /\ lkSupply' = lkSupply /\ lkLocks' = lkLocks /\ lkKept' = lkKept
      BY <2>1
    <3>2. Scanned' <=> Scanned
      BY <2>1 DEF Scanned
    <3>3. SupplyIsCounted'
      BY <2>1, <3>1, LockSame DEF LockInv, SupplyIsCounted
    <3>4. IF Scanned THEN (lkLocks = UNION {CleanOn(d) : d \in ReadDays})' ELSE lkLocks' = {} /\ lkKept' = {}
      BY <2>1, <3>1, LockSame DEF LockInv
    <3>5. \A m \in lkKept' : \E k \in lkLocks' : m = Measure(k, DayOfLeg(k.leg))'
      BY <2>1, <3>1, LockSame DEF LockInv
    <3>6. lkJob' \in LkJobs /\ (lkPhase' = "survey" => lkSupply' = <<>>)
      BY <2>1, <3>1 DEF LockInv
    <3>. QED BY <3>2, <3>3, <3>4, <3>5, <3>6 DEF LockInv
  <2>2. ASSUME LockInv, DecideLocks PROVE LockInv'
    <3>1. /\ UNCHANGED <<lkJob, lkSupply, lkLocks, lkKept>> /\ lkPhase' = "done"
          /\ lkPhase \in {"sweep", "decide"}
      BY <2>2 DEF DecideLocks
    <3>2. Scanned
      BY <3>1 DEF Scanned
    <3>. QED BY <2>1, <2>2, <3>1, <3>2
  <2>3. LockInv /\ UNCHANGED lkVars => LockInv'
    BY <2>1 DEF lkVars
  <2>. QED BY <2>2, <2>3, SurveyKeepsLockInv, ScanKeepsLockInv, SweepKeepsLockInv DEF LkNext
<1>. QED BY <1>1, <1>2, LockInvMeasures, PTL DEF LkSpec

-----------------------------------------------------------------------------
(***************************************************************************)
(* The settlement study: the rows that a degree settles                    *)
(***************************************************************************)

\* One row settles each degree between two.
Between(t, u) == {x \in Int : (t <= x /\ x <= u) \/ (u <= x /\ x <= t)}
OneRowEach(day, t, u) == \A x \in Between(t, u) : Cardinality(SettlingRows(day, x)) = 1

LEMMA LegsAre ==
    ASSUME NEW l \in LkNames
    PROVE  /\ LkLegs[l].lo \in Int
           /\ LkLegs[l].listed \in {"bracket", "above", "below"}
           /\ LkLegs[l].listed = "bracket" => LkLegs[l].hi \in Int /\ LkLegs[l].lo <= LkLegs[l].hi
           /\ LkLegs[l].listed = "below" => LkLegs[l].hi = LkLegs[l].lo
  BY SettlementAssumption

Alone(S) == \E l : S = {l}

LEMMA OneRow ==
    ASSUME NEW day, NEW x, Cardinality(SettlingRows(day, x)) = 1
    PROVE  Alone(SettlingRows(day, x))
<1>1. SettlingRows(day, x) \in SUBSET LkNames
  BY DEF SettlingRows, LadderOf
<1>2. IsFiniteSet(SettlingRows(day, x))
  BY <1>1, FS_Subset, SettlementAssumption
<1>. QED BY <1>2, FS_Singleton DEF Alone

\* An edge of a row: the last degree that the row settles.
LEMMA EdgeIsLast ==
    ASSUME NEW day, NEW k \in CellEdges(day)
    PROVE  /\ k \in Int
           /\ \E l \in LadderOf(day) :
                 /\ SettlesYes(l, LkLegs[l].listed, k)
                 /\ \A x \in Int : x > k => ~SettlesYes(l, LkLegs[l].listed, x)
<1>1. CASE k \in {LkLegs[l].hi : l \in {x \in LadderOf(day) : LkLegs[x].listed = "bracket"}}
  <2>1. PICK l \in LadderOf(day) : LkLegs[l].listed = "bracket" /\ k = LkLegs[l].hi
    BY <1>1
  <2>2. k \in Int /\ LkLegs[l].lo \in Int /\ LkLegs[l].lo <= k
    BY <2>1, LegsAre DEF LadderOf
  <2>3. \A x : SettlesYes(l, LkLegs[l].listed, x) <=> LkLegs[l].lo <= x /\ x <= k
    BY <2>1 DEF SettlesYes
  <2>. QED BY <2>2, <2>3
<1>2. CASE k \in {LkLegs[l].hi - 1 : l \in {x \in LadderOf(day) : LkLegs[x].listed = "below"}}
  <2>1. PICK l \in LadderOf(day) : LkLegs[l].listed = "below" /\ k = LkLegs[l].hi - 1
    BY <1>2
  <2>2. LkLegs[l].lo \in Int /\ k = LkLegs[l].lo - 1
    BY <2>1, LegsAre DEF LadderOf
  <2>3. \A x : SettlesYes(l, LkLegs[l].listed, x) <=> x < LkLegs[l].lo
    BY <2>1 DEF SettlesYes
  <2>. QED BY <2>2, <2>3
<1>. QED BY <1>1, <1>2 DEF CellEdges

\* A row that settles a degree and not a higher one has an edge between them.
LEMMA RowHasEdge ==
    ASSUME NEW day, NEW l \in LadderOf(day), NEW t \in Int, NEW u \in Int, t < u,
           SettlesYes(l, LkLegs[l].listed, t), ~SettlesYes(l, LkLegs[l].listed, u)
    PROVE  \E k \in CellEdges(day) : t <= k /\ k < u /\ k \in Int
<1>0. l \in LkNames
  BY DEF LadderOf
<1>1. /\ LkLegs[l].lo \in Int /\ LkLegs[l].listed \in {"bracket", "above", "below"}
      /\ LkLegs[l].listed = "bracket" => LkLegs[l].hi \in Int /\ LkLegs[l].lo <= LkLegs[l].hi
      /\ LkLegs[l].listed = "below" => LkLegs[l].hi = LkLegs[l].lo
  BY <1>0, LegsAre
<1>2. CASE LkLegs[l].listed = "bracket"
  <2>1. LkLegs[l].hi \in CellEdges(day)
    BY <1>2 DEF CellEdges
  <2>2. LkLegs[l].lo <= t /\ t <= LkLegs[l].hi /\ ~(LkLegs[l].lo <= u /\ u <= LkLegs[l].hi)
    BY <1>2 DEF SettlesYes
  <2>3. t <= LkLegs[l].hi /\ LkLegs[l].hi < u /\ LkLegs[l].hi \in Int
    BY <1>1, <1>2, <2>2
  <2>. QED BY <2>1, <2>3
<1>3. CASE LkLegs[l].listed = "below"
  <2>1. LkLegs[l].hi - 1 \in CellEdges(day)
    BY <1>3 DEF CellEdges
  <2>2. t < LkLegs[l].lo /\ ~(u < LkLegs[l].lo)
    BY <1>3 DEF SettlesYes
  <2>3. t <= LkLegs[l].hi - 1 /\ LkLegs[l].hi - 1 < u /\ LkLegs[l].hi - 1 \in Int
    BY <1>1, <1>3, <2>2
  <2>. QED BY <2>1, <2>3
<1>4. CASE LkLegs[l].listed = "above"
  <2>1. t > LkLegs[l].lo /\ ~(u > LkLegs[l].lo)
    BY <1>4 DEF SettlesYes
  <2>. QED BY <1>1, <2>1
<1>. QED BY <1>1, <1>2, <1>3, <1>4

\* What settles two degrees settles every one between them.
LEMMA RowsAreConvex ==
    ASSUME NEW l \in LkNames, NEW t \in Int, NEW k \in Int, NEW u \in Int, t <= k, k <= u,
           SettlesYes(l, LkLegs[l].listed, t), SettlesYes(l, LkLegs[l].listed, u)
    PROVE  SettlesYes(l, LkLegs[l].listed, k)
<1>1. LkLegs[l].lo \in Int /\ LkLegs[l].listed \in {"bracket", "above", "below"}
      /\ (LkLegs[l].listed = "bracket" => LkLegs[l].hi \in Int)
  BY LegsAre
<1>2. CASE LkLegs[l].listed = "bracket"
  BY <1>1, <1>2 DEF SettlesYes
<1>3. CASE LkLegs[l].listed = "below"
  BY <1>1, <1>3 DEF SettlesYes
<1>4. CASE LkLegs[l].listed = "above"
  BY <1>1, <1>4 DEF SettlesYes
<1>. QED BY <1>1, <1>2, <1>3, <1>4

\* Of two degrees that one row each settles, the rows differ where an edge
\* separates the degrees.
LEMMA RisingRowsDiffer ==
    ASSUME NEW day, NEW t \in Int, NEW u \in Int, t <= u, OneRowEach(day, t, u)
    PROVE  SettlingRows(day, t) # SettlingRows(day, u) <=> \E k \in CellEdges(day) : t <= k /\ k < u
<1>0. \A x \in Int : t <= x /\ x <= u => Cardinality(SettlingRows(day, x)) = 1
  BY DEF OneRowEach, Between
<1>3. \A x \in Int : t <= x /\ x <= u => Alone(SettlingRows(day, x))
  <2>. SUFFICES ASSUME NEW x \in Int, t <= x, x <= u PROVE Alone(SettlingRows(day, x))
    OBVIOUS
  <2>1. Cardinality(SettlingRows(day, x)) = 1
    BY <1>0
  <2>. QED BY <2>1, OneRow
<1>1. ASSUME SettlingRows(day, t) # SettlingRows(day, u)
      PROVE  \E k \in CellEdges(day) : t <= k /\ k < u
  <2>1. PICK l : SettlingRows(day, t) = {l}
    <3>1. Alone(SettlingRows(day, t))
      BY <1>3
    <3>. QED BY <3>1 DEF Alone
  <2>2. PICK m : SettlingRows(day, u) = {m}
    <3>1. Alone(SettlingRows(day, u))
      BY <1>3
    <3>. QED BY <3>1 DEF Alone
  <2>3. l \in SettlingRows(day, t) /\ l \notin SettlingRows(day, u) /\ t < u
    BY <1>1, <2>1, <2>2
  <2>4. l \in LadderOf(day) /\ SettlesYes(l, LkLegs[l].listed, t) /\ ~SettlesYes(l, LkLegs[l].listed, u)
    BY <2>3 DEF SettlingRows
  <2>. QED BY <2>3, <2>4, RowHasEdge
<1>2. ASSUME NEW k \in CellEdges(day), t <= k, k < u, SettlingRows(day, t) = SettlingRows(day, u)
      PROVE  FALSE
  <2>1. k \in Int
    BY EdgeIsLast
  <2>2. PICK l \in LadderOf(day) : /\ SettlesYes(l, LkLegs[l].listed, k)
                                   /\ \A x \in Int : x > k => ~SettlesYes(l, LkLegs[l].listed, x)
    BY EdgeIsLast
  <2>3. PICK m : SettlingRows(day, t) = {m}
    <3>1. Alone(SettlingRows(day, t))
      BY <1>3
    <3>. QED BY <3>1 DEF Alone
  <2>4. m \in LadderOf(day) /\ SettlesYes(m, LkLegs[m].listed, t) /\ SettlesYes(m, LkLegs[m].listed, u)
    BY <1>2, <2>3 DEF SettlingRows
  <2>5. SettlesYes(m, LkLegs[m].listed, k)
    BY <1>2, <2>1, <2>4, RowsAreConvex DEF LadderOf
  <2>6. PICK n : SettlingRows(day, k) = {n}
    <3>1. Alone(SettlingRows(day, k))
      BY <1>2, <1>3, <2>1
    <3>. QED BY <3>1 DEF Alone
  <2>7. m = l
    BY <2>2, <2>4, <2>5, <2>6 DEF SettlingRows
  <2>. QED BY <1>2, <2>2, <2>4, <2>7
<1>. QED BY <1>1, <1>2

LEMMA RowsDiffer ==
    ASSUME NEW day, NEW t \in Int, NEW u \in Int, OneRowEach(day, t, u)
    PROVE  SettlingRows(day, t) # SettlingRows(day, u) <=> Separating(t, u, CellEdges(day)) # {}
<1>1. \A k \in CellEdges(day) : k \in Int
  BY EdgeIsLast
<1>2. CASE t <= u
  <2>1. \A k \in CellEdges(day) : (t > k) # (u > k) <=> t <= k /\ k < u
    BY <1>1, <1>2
  <2>2. Separating(t, u, CellEdges(day)) # {} <=> \E k \in CellEdges(day) : t <= k /\ k < u
    BY <2>1 DEF Separating
  <2>. QED BY <1>2, <2>2, RisingRowsDiffer
<1>3. CASE u <= t
  <2>1. \A k \in CellEdges(day) : (t > k) # (u > k) <=> u <= k /\ k < t
    BY <1>1, <1>3
  <2>2. Separating(t, u, CellEdges(day)) # {} <=> \E k \in CellEdges(day) : u <= k /\ k < t
    BY <2>1 DEF Separating
  <2>3. OneRowEach(day, u, t)
    BY DEF OneRowEach, Between
  <2>. QED BY <1>3, <2>2, <2>3, RisingRowsDiffer
<1>. QED BY <1>2, <1>3

-----------------------------------------------------------------------------
(***************************************************************************)
(* The settlement study: what an entry is bought against                   *)
(***************************************************************************)

LEMMA ObservationsAreReal ==
    ASSUME stJob \in StJobs, NEW d \in DOMAIN LkDays
    PROVE  /\ RealReadings(Observations(d))
           /\ LkDays[d].start \in Int /\ LkDays[d].end \in Int
           /\ \A r \in Observations(d) : LkDays[d].start <= r.valid /\ r.valid <= LkDays[d].end
<1>. DEFINE station == LkDays[d].station
            R == IF station \in DOMAIN stJob.readings THEN stJob.readings[station] ELSE {}
<1>1. IsFiniteSet(R)
  BY SettlementAssumption, FS_EmptySet
<1>2. \A r \in R : r.valid \in Int /\ r.at \in Int /\ r.temp \in Int
  BY SettlementAssumption
<1>3. Observations(d) \in SUBSET R
  BY DEF Observations, InWindow
<1>4. \A r \in Observations(d) : LkDays[d].start <= r.valid /\ r.valid < LkDays[d].end
  BY DEF Observations, InWindow
<1>5. LkDays[d].start \in Int /\ LkDays[d].end \in Int
  BY LockAssumption
<1>. HIDE DEF R
<1>6. RealReadings(Observations(d))
  BY <1>1, <1>2, <1>3, FS_Subset DEF RealReadings
<1>7. \A r \in Observations(d) : LkDays[d].start <= r.valid /\ r.valid <= LkDays[d].end
  BY <1>4, <1>5, <1>6 DEF RealReadings
<1>. QED BY <1>5, <1>6, <1>7

\* The extreme of a rising ladder is a reading, and none so far is higher.
LEMMA RisingExtreme ==
    ASSUME NEW series, series \notin LkFalling, NEW R, RealReadings(R), NEW at \in Int,
           NEW first \in R, first.valid <= at
    PROVE  /\ \E r \in R : r.valid <= at /\ Extreme(series, R, at) = r.temp
           /\ \A r \in R : r.valid <= at => r.temp <= Extreme(series, R, at)
           /\ Extreme(series, R, at) \in Int
<1>. DEFINE so == {y \in R : y.valid <= at}
            f == [x \in so |-> x.temp]
            T == {f[x] : x \in so}
<1>1. {Mirrored(series, r.temp) : r \in so} = {r.temp : r \in so}
  BY DEF Mirrored
<1>2. {r.temp : r \in so} = T
  OBVIOUS
<1>3. Extreme(series, R, at) = Max(T)
  <2>1. Extreme(series, R, at) = Mirrored(series, Max({Mirrored(series, r.temp) : r \in so}))
    BY DEF Extreme
  <2>. HIDE DEF so, T
  <2>2. Extreme(series, R, at) = Mirrored(series, Max(T))
    BY <1>1, <1>2, <2>1
  <2>. QED BY <2>2 DEF Mirrored
<1>4. IsFiniteSet(so)
  <2>1. so \in SUBSET R
    OBVIOUS
  <2>. HIDE DEF so
  <2>. QED BY <2>1, FS_Subset DEF RealReadings
<1>5. IsFiniteSet(T)
  <2>1. DOMAIN f = so
    OBVIOUS
  <2>. HIDE DEF f, so
  <2>. QED BY <1>4, <2>1, ImageIsFinite
<1>6. T \in SUBSET Int
  BY <1>2 DEF RealReadings
<1>7. first.temp \in T
  BY <1>2
<1>8. Max(T) \in T /\ \A x \in T : x <= Max(T)
  <2>. HIDE DEF T
  <2>. QED BY <1>5, <1>6, <1>7, MaxOfFinite
<1>9. \E r \in R : r.valid <= at /\ Max(T) = r.temp
  BY <1>8
<1>10. \A r \in R : r.valid <= at => r.temp <= Max(T)
  <2>1. \A r \in R : r.valid <= at => r.temp \in T
    BY <1>2
  <2>. HIDE DEF T
  <2>. QED BY <1>8, <2>1
<1>11. Max(T) \in Int
  BY <1>6, <1>8
<1>. HIDE DEF T
<1>. QED BY <1>3, <1>9, <1>10, <1>11

\* What a day reads, and what it is settled at.
Temps(d) == {r.temp : r \in Observations(d)} \cup {Official(d)}

LEMMA TempsHaveOneRow ==
    ASSUME stJob \in StJobs, NEW d \in DOMAIN LkDays, Settled(d), Partitioned(d)
    PROVE  \A t, u \in Temps(d) : t \in Int /\ u \in Int /\ OneRowEach(d, t, u)
<1>. DEFINE f == [r \in Observations(d) |-> r.temp]
            T == {f[r] : r \in Observations(d)}
<1>1. RealReadings(Observations(d))
  BY ObservationsAreReal
<1>2. Temps(d) = T \cup {Official(d)}
  BY DEF Temps
<1>3. IsFiniteSet(T)
  <2>1. DOMAIN f = Observations(d)
    OBVIOUS
  <2>. HIDE DEF f
  <2>. QED BY <1>1, <2>1, ImageIsFinite DEF RealReadings
<1>4. Official(d) \in Int
  BY SettlementAssumption DEF Settled, Official
<1>5. T \in SUBSET Int
  BY <1>1 DEF RealReadings
<1>. HIDE DEF T
<1>6. Temps(d) \in SUBSET Int /\ IsFiniteSet(Temps(d)) /\ Temps(d) # {}
  <2>1. IsFiniteSet(T \cup {Official(d)})
    BY <1>3, FS_AddElement
  <2>. QED BY <1>2, <1>4, <1>5, <2>1
<1>7. /\ Min(Temps(d)) \in Temps(d) /\ \A x \in Temps(d) : Min(Temps(d)) <= x
      /\ Max(Temps(d)) \in Temps(d) /\ \A x \in Temps(d) : x <= Max(Temps(d))
  BY <1>6, MinOfFinite, MaxOfFinite
<1>8. Degrees(d) = Min(Temps(d))..Max(Temps(d))
  BY DEF Degrees, Temps
<1>9. \A t, u \in Temps(d) : \A x \in Between(t, u) : x \in Degrees(d)
  <2>. SUFFICES ASSUME NEW t \in Temps(d), NEW u \in Temps(d), NEW x \in Between(t, u)
                PROVE  x \in Degrees(d)
    OBVIOUS
  <2>1. x \in Int /\ ((t <= x /\ x <= u) \/ (u <= x /\ x <= t))
    BY DEF Between
  <2>2. /\ Min(Temps(d)) <= t /\ Min(Temps(d)) <= u /\ t <= Max(Temps(d)) /\ u <= Max(Temps(d))
        /\ Min(Temps(d)) \in Int /\ Max(Temps(d)) \in Int /\ t \in Int /\ u \in Int
    BY <1>6, <1>7
  <2>3. Min(Temps(d)) <= x /\ x <= Max(Temps(d))
    BY <2>1, <2>2
  <2>. QED BY <1>8, <2>1, <2>2, <2>3
<1>. QED BY <1>6, <1>9 DEF Partitioned, OneRowEach

\* The highest reading when one is taken, in degrees.
High(d, r) == Extreme(d[1], Observations(d), r.valid)

\* Where a day is settled apart, and by which row.
Apart(d) ==
    /\ d \in DOMAIN LkDays /\ d[1] \in StRoots
    /\ Settled(d) /\ Strikes(d) # {}
    /\ Cardinality(SettlingRows(d, Official(d))) = 1

LEMMA HighsAre ==
    ASSUME stJob \in StJobs, NEW d \in DOMAIN LkDays, d[1] \in StRoots, Settled(d)
    PROVE  /\ Official(d) \in Temps(d) /\ Official(d) \in Int
           /\ Observed(d) \in Temps(d) /\ Observed(d) \in Int
           /\ \A r \in Observations(d) : /\ High(d, r) \in Temps(d) /\ High(d, r) \in Int
                                       /\ High(d, r) <= Observed(d)
           /\ \E r \in Observations(d) : High(d, r) = Observed(d)
<1>. DEFINE W == Observations(d)
            end == LkDays[d].end
<1>1. d[1] \notin LkFalling /\ W # {} /\ end \in Int /\ RealReadings(W)
      /\ \A r \in W : r.valid \in Int /\ r.valid <= end
  BY ObservationsAreReal DEF StRoots, Settled, RealReadings
<1>2. Official(d) \in Int
  BY SettlementAssumption DEF Settled, Official
<1>3. PICK first \in W : TRUE
  BY <1>1
<1>4. /\ \E r \in W : r.valid <= end /\ Observed(d) = r.temp
      /\ \A r \in W : r.valid <= end => r.temp <= Observed(d)
      /\ Observed(d) \in Int
  <2>. HIDE DEF W, end
  <2>1. /\ \E r \in W : r.valid <= end /\ Extreme(d[1], W, end) = r.temp
        /\ \A r \in W : r.valid <= end => r.temp <= Extreme(d[1], W, end)
        /\ Extreme(d[1], W, end) \in Int
    BY <1>1, <1>3, RisingExtreme
  <2>. QED BY <2>1 DEF Observed, W, end
<1>5. ASSUME NEW r \in W
      PROVE  /\ \E x \in W : x.valid <= r.valid /\ High(d, r) = x.temp
             /\ \A x \in W : x.valid <= r.valid => x.temp <= High(d, r)
             /\ High(d, r) \in Int
  <2>. HIDE DEF W
  <2>0. r.valid \in Int /\ r.valid <= r.valid
    BY <1>1
  <2>1. /\ \E x \in W : x.valid <= r.valid /\ Extreme(d[1], W, r.valid) = x.temp
        /\ \A x \in W : x.valid <= r.valid => x.temp <= Extreme(d[1], W, r.valid)
        /\ Extreme(d[1], W, r.valid) \in Int
    BY <1>1, <2>0, RisingExtreme
  <2>. QED BY <2>1 DEF High, W
<1>6. \A r \in W : r.temp \in Temps(d)
  BY DEF Temps
<1>7. \A r \in W : r.temp <= Observed(d)
  BY <1>1, <1>4
<1>8. \A r \in W : High(d, r) \in Temps(d) /\ High(d, r) \in Int /\ High(d, r) <= Observed(d)
  BY <1>5, <1>6, <1>7
<1>9. \E r \in W : High(d, r) = Observed(d)
  <2>1. PICK top \in W : Observed(d) = top.temp
    BY <1>4
  <2>2. top.valid <= top.valid
    BY <1>1
  <2>3. Observed(d) <= High(d, top)
    BY <1>5, <2>1, <2>2
  <2>4. High(d, top) = Observed(d)
    BY <1>4, <1>8, <2>3
  <2>. QED BY <2>4
<1>. QED BY <1>2, <1>4, <1>6, <1>8, <1>9 DEF Temps

\* The entry is at the first reading past a strike, in the official row.
EntryFrom(d, e, first) ==
    /\ first \in Observations(d) /\ e.at = first.valid
    /\ PastAt(d, first.valid) # {}
    /\ \A r \in Observations(d) : PastAt(d, r.valid) # {} => first.valid <= r.valid
    /\ SettlingRows(d, Official(d)) = {e.leg}
    /\ e.kind \in {"open", "crossing"}
    /\ e.kind = "open" <=> \A r \in Observations(d) : first.valid <= r.valid

LEMMA EntryIs ==
    ASSUME stJob \in StJobs, NEW d, Apart(d)
    PROVE  \E first : EntryFrom(d, EntryOf(d), first)
<1>. DEFINE W == Observations(d)
            apart == {r \in W : PastAt(d, r.valid) # {}}
            f == [r \in apart |-> r.valid]
            T == {f[r] : r \in apart}
            first == CHOOSE r \in apart : \A x \in apart : r.valid <= x.valid
            leg == CHOOSE l \in SettlingRows(d, Official(d)) : TRUE
<1>0. d \in DOMAIN LkDays /\ d[1] \in StRoots /\ Settled(d) /\ Strikes(d) # {}
      /\ Cardinality(SettlingRows(d, Official(d))) = 1
  BY DEF Apart
<1>1. RealReadings(W)
  BY <1>0, ObservationsAreReal
<1>2. apart # {}
  <2>1. PICK r \in W : High(d, r) = Observed(d)
    BY <1>0, HighsAre
  <2>2. PICK k : k \in Strikes(d)
    BY <1>0
  <2>3. (Observed(d) > k) # (Official(d) > k)
    BY <2>2 DEF Strikes, Separating
  <2>4. k \in PastAt(d, r.valid)
    BY <2>1, <2>2, <2>3 DEF PastAt, Separating, High
  <2>. QED BY <2>4
<1>3. apart \in SUBSET W /\ \A r \in apart : r.valid \in Int
  BY <1>1 DEF RealReadings
<1>. HIDE DEF apart
<1>4. IsFiniteSet(T)
  <2>1. IsFiniteSet(apart)
    BY <1>1, <1>3, FS_Subset DEF RealReadings
  <2>2. DOMAIN f = apart
    OBVIOUS
  <2>. HIDE DEF f
  <2>. QED BY <2>1, <2>2, ImageIsFinite
<1>5. \A r \in apart : f[r] = r.valid
  OBVIOUS
<1>6. T \in SUBSET Int /\ T # {}
  BY <1>2, <1>3, <1>5
<1>7. \E r \in apart : \A x \in apart : r.valid <= x.valid
  <2>1. Min(T) \in T /\ \A x \in T : Min(T) <= x
    <3>. HIDE DEF T
    <3>. QED BY <1>4, <1>6, MinOfFinite
  <2>. HIDE DEF f
  <2>2. \A x \in apart : x.valid \in T
    BY <1>5
  <2>3. PICK r \in apart : Min(T) = r.valid
    BY <1>5, <2>1
  <2>. HIDE DEF T
  <2>. QED BY <2>1, <2>2, <2>3
<1>8. first \in apart /\ \A x \in apart : first.valid <= x.valid
  BY <1>7
<1>9. SettlingRows(d, Official(d)) = {leg}
  <2>1. Alone(SettlingRows(d, Official(d)))
    BY <1>0, OneRow
  <2>. QED BY <2>1 DEF Alone
<1>10. /\ EntryOf(d).at = first.valid /\ EntryOf(d).leg = leg
       /\ EntryOf(d).kind = IF \A x \in W : first.valid <= x.valid THEN "open" ELSE "crossing"
  BY DEF EntryOf, apart
<1>. HIDE DEF first, leg
<1>11. \A r \in W : PastAt(d, r.valid) # {} => r \in apart
  BY DEF apart
<1>12. first \in W /\ PastAt(d, first.valid) # {}
  BY <1>8 DEF apart
<1>. QED BY <1>8, <1>9, <1>10, <1>11, <1>12 DEF EntryFrom

In(e, temp) == SettlesYes(e.leg, LkLegs[e.leg].listed, temp)
Past(d, e, high) == high > Official(d) /\ ~In(e, high)

\* CrossingsRunPast, of one day and its entry.
RunsPast(d, e) ==
    /\ In(e, Official(d)) /\ ~In(e, Observed(d))
    /\ e.kind = "crossing" =>
          /\ Observed(d) > Official(d) /\ Past(d, e, Extreme(d[1], Observations(d), e.at))
          /\ \A r \in Observations(d) : r.valid < e.at => ~Past(d, e, High(d, r))
    /\ e.kind = "open" =>
          /\ e.at = Min({r.valid : r \in Observations(d)})
          /\ \/ Past(d, e, Extreme(d[1], Observations(d), e.at))
             \/ Observed(d) < Official(d)

LEMMA EntryRunsPast ==
    ASSUME stJob \in StJobs, NEW d, Apart(d), Partitioned(d), NEW e, NEW first, EntryFrom(d, e, first)
    PROVE  RunsPast(d, e)
<1>. DEFINE W == Observations(d)
            o == Official(d)
            obs == Observed(d)
<1>0. d \in DOMAIN LkDays /\ d[1] \in StRoots /\ Settled(d) /\ Strikes(d) # {}
  BY DEF Apart
<1>1. /\ o \in Temps(d) /\ o \in Int /\ obs \in Temps(d) /\ obs \in Int
      /\ \A r \in W : High(d, r) \in Temps(d) /\ High(d, r) \in Int /\ High(d, r) <= obs
  BY <1>0, HighsAre
<1>2. /\ first \in W /\ e.at = first.valid /\ PastAt(d, first.valid) # {}
      /\ \A r \in W : PastAt(d, r.valid) # {} => first.valid <= r.valid
      /\ SettlingRows(d, o) = {e.leg}
      /\ e.kind \in {"open", "crossing"}
      /\ e.kind = "open" <=> \A r \in W : first.valid <= r.valid
  BY DEF EntryFrom
<1>3. RealReadings(W) /\ \A r \in W : r.valid \in Int
  BY <1>0, ObservationsAreReal DEF RealReadings
<1>4. \A k \in CellEdges(d) : k \in Int
  BY EdgeIsLast
<1>5. \A temp \in Temps(d) : In(e, temp) <=> SettlingRows(d, temp) = SettlingRows(d, o)
  <2>. SUFFICES ASSUME NEW temp \in Temps(d)
                PROVE  In(e, temp) <=> SettlingRows(d, temp) = SettlingRows(d, o)
    OBVIOUS
  <2>1. e.leg \in LadderOf(d)
    BY <1>2 DEF SettlingRows
  <2>2. In(e, temp) <=> e.leg \in SettlingRows(d, temp)
    BY <2>1 DEF In, SettlingRows
  <2>3. Cardinality(SettlingRows(d, temp)) = 1
    <3>1. temp \in Int /\ OneRowEach(d, temp, temp)
      BY <1>0, TempsHaveOneRow
    <3>. QED BY <3>1 DEF OneRowEach, Between
  <2>4. Alone(SettlingRows(d, temp))
    BY <2>3, OneRow
  <2>. QED BY <1>2, <2>2, <2>4 DEF Alone
<1>6. \A temp \in Temps(d) : In(e, temp) <=> Separating(temp, o, CellEdges(d)) = {}
  <2>. SUFFICES ASSUME NEW temp \in Temps(d)
                PROVE  In(e, temp) <=> Separating(temp, o, CellEdges(d)) = {}
    OBVIOUS
  <2>1. temp \in Int /\ OneRowEach(d, temp, o)
    BY <1>0, <1>1, TempsHaveOneRow
  <2>2. SettlingRows(d, temp) # SettlingRows(d, o) <=> Separating(temp, o, CellEdges(d)) # {}
    BY <1>1, <2>1, RowsDiffer
  <2>. QED BY <1>5, <2>2
<1>7. In(e, o) /\ ~In(e, obs)
  BY <1>0, <1>1, <1>5, <1>6 DEF Strikes
<1>8. \A k : k \in Strikes(d) <=> k \in CellEdges(d) /\ (obs > k) # (o > k)
  BY DEF Strikes, Separating
<1>9. \A r \in W : \A k : k \in PastAt(d, r.valid) <=> k \in Strikes(d) /\ (High(d, r) > k) # (o > k)
  BY DEF PastAt, Separating, High
<1>10. \A r \in W : \A k : k \in Separating(High(d, r), o, CellEdges(d)) <=>
                             k \in CellEdges(d) /\ (High(d, r) > k) # (o > k)
  BY DEF Separating
<1>. HIDE DEF W, o, obs
<1>11. ASSUME obs > o PROVE Past(d, e, High(d, first))
  <2>1. PICK k : k \in PastAt(d, first.valid)
    BY <1>2
  <2>2. k \in CellEdges(d) /\ k \in Int /\ (obs > k) # (o > k) /\ (High(d, first) > k) # (o > k)
    BY <1>2, <1>4, <1>8, <1>9, <2>1
  <2>3. High(d, first) > o
    BY <1>1, <1>2, <1>11, <2>2
  <2>4. ~In(e, High(d, first))
    BY <1>1, <1>2, <1>6, <1>10, <2>2
  <2>. QED BY <2>3, <2>4 DEF Past, o
<1>12. ASSUME obs > o, NEW r \in W, r.valid < e.at PROVE ~Past(d, e, High(d, r))
  <2>. SUFFICES ASSUME High(d, r) > o, ~In(e, High(d, r)) PROVE FALSE
    BY DEF Past, o
  <2>1. PICK k : k \in Separating(High(d, r), o, CellEdges(d))
    BY <1>1, <1>6
  <2>2. k \in CellEdges(d) /\ k \in Int /\ (High(d, r) > k) # (o > k)
    BY <1>4, <1>10, <2>1
  <2>3. (obs > k) # (o > k)
    BY <1>1, <1>12, <2>2
  <2>4. PastAt(d, r.valid) # {}
    BY <1>8, <1>9, <2>2, <2>3
  <2>5. first.valid <= r.valid
    BY <1>2, <2>4
  <2>. QED BY <1>2, <1>3, <1>12, <2>5
<1>13. ASSUME obs < o PROVE e.kind = "open"
  <2>1. PICK k : k \in Strikes(d)
    BY <1>0
  <2>2. k \in Int /\ (obs > k) # (o > k)
    BY <1>4, <1>8, <2>1
  <2>3. ASSUME NEW r \in W PROVE PastAt(d, r.valid) # {}
    <3>1. (High(d, r) > k) # (o > k)
      BY <1>1, <1>13, <2>2
    <3>. QED BY <1>9, <2>1, <3>1
  <2>. QED BY <1>2, <2>3
<1>14. obs # o
  BY <1>0, <1>8
<1>15. e.kind = "open" => e.at = Min({r.valid : r \in W})
  <2>. SUFFICES ASSUME e.kind = "open" PROVE e.at = Min({r.valid : r \in W})
    OBVIOUS
  <2>. DEFINE f == [r \in W |-> r.valid]
              T == {f[r] : r \in W}
  <2>1. DOMAIN f = W /\ \A r \in W : f[r] = r.valid
    OBVIOUS
  <2>2. T = {r.valid : r \in W}
    OBVIOUS
  <2>. HIDE DEF f
  <2>3. IsFiniteSet(T)
    BY <1>3, <2>1, ImageIsFinite DEF RealReadings
  <2>4. T \in SUBSET Int /\ e.at \in T /\ \A x \in T : e.at <= x
    BY <1>2, <1>3, <2>1
  <2>. HIDE DEF T
  <2>5. Min(T) \in T /\ \A x \in T : Min(T) <= x
    BY <2>3, <2>4, MinOfFinite
  <2>6. e.at = Min(T)
    <3>1. e.at \in Int /\ Min(T) \in Int /\ e.at <= Min(T) /\ Min(T) <= e.at
      BY <2>4, <2>5
    <3>. QED BY <3>1
  <2>. QED BY <2>2, <2>6
<1>16. Extreme(d[1], W, e.at) = High(d, first)
  BY <1>2 DEF High, W
<1>17. e.kind = "crossing" =>
         /\ obs > o /\ Past(d, e, High(d, first))
         /\ \A r \in W : r.valid < e.at => ~Past(d, e, High(d, r))
  <2>1. e.kind = "crossing" => obs > o
    BY <1>1, <1>13, <1>14
  <2>. QED BY <1>11, <1>12, <2>1
<1>18. Past(d, e, High(d, first)) \/ obs < o
  BY <1>1, <1>11, <1>14
<1>. QED BY <1>7, <1>15, <1>16, <1>17, <1>18 DEF RunsPast, W, o, obs

-----------------------------------------------------------------------------
(***************************************************************************)
(* The settlement study: what an entry is priced at                        *)
(***************************************************************************)

LEMMA LadderRowsArrive ==
    ASSUME stJob \in StJobs, NEW leg, NEW d
    PROVE  LET I == {i \in DOMAIN stJob.ladder :
                        /\ stJob.ladder[i].leg = leg
                        /\ LkDays[d].start <= stJob.ladder[i].at /\ stJob.ladder[i].at <= LkDays[d].end}
           IN  /\ Arrivals(LadderRows(leg, d))
               /\ \E g : Picked(LadderRows(leg, d), stJob.ladder, I, g)
<1>. DEFINE I == {i \in DOMAIN stJob.ladder :
                     /\ stJob.ladder[i].leg = leg
                     /\ LkDays[d].start <= stJob.ladder[i].at /\ stJob.ladder[i].at <= LkDays[d].end}
<1>1. /\ Len(stJob.ladder) \in Nat /\ DOMAIN stJob.ladder = 1..Len(stJob.ladder)
      /\ \A i \in DOMAIN stJob.ladder : stJob.ladder[i].at \in Int
      /\ \A i, k \in DOMAIN stJob.ladder : i < k /\ stJob.ladder[i].leg = stJob.ladder[k].leg
                                          => stJob.ladder[i].at <= stJob.ladder[k].at
  BY SettlementAssumption
<1>2. I \in SUBSET (1..Len(stJob.ladder)) /\ I \in SUBSET Int
  BY <1>1
<1>3. LadderRows(leg, d) = Among(stJob.ladder, I)
  BY DEF LadderRows
<1>4. /\ \A i \in I : stJob.ladder[i].at \in Int
      /\ \A i, j \in I : i < j => stJob.ladder[i].at <= stJob.ladder[j].at
  BY <1>1
<1>. HIDE DEF I
<1>5. IsFiniteSet(I)
  <2>1. 1 \in Int /\ Len(stJob.ladder) \in Int
    BY <1>1
  <2>. QED BY <1>2, <2>1, FS_Interval, FS_Subset
<1>6. PICK g : Picked(Among(stJob.ladder, I), stJob.ladder, I, g)
  BY <1>2, <1>5, AmongIs
<1>7. Arrivals(Among(stJob.ladder, I))
  BY <1>2, <1>4, <1>6, PickedArrive
<1>8. Arrivals(LadderRows(leg, d)) /\ \E h : Picked(LadderRows(leg, d), stJob.ladder, I, h)
  BY <1>3, <1>6, <1>7
<1>. QED BY <1>8 DEF I

\* PricesWereKnown, of one price.
WasKnown(p) ==
    LET at   == p.straddle.entry.at
        rows == {r \in Range(stJob.ladder) : r.leg = p.straddle.entry.leg /\ r.at <= at
                                             /\ r.at >= LkDays[p.straddle.day].start}
    IN  /\ p.noRow <=> rows = {}
        /\ p.priced => p.row \in rows /\ \A r \in rows : r.at <= p.row.at
        /\ \A x \in LkMerged : ~(x[1] <= at + StMinute /\ at <= x[2])

LEMMA PriceWasKnown ==
    ASSUME stJob \in StJobs, NEW s, s.day \in DOMAIN LkDays, NEW first, EntryFrom(s.day, s.entry, first),
           MinuteFate(s) = "kept"
    PROVE  WasKnown(PriceOf(s))
<1>. DEFINE p    == PriceOf(s)
            day  == s.day
            at   == s.entry.at
            leg  == s.entry.leg
            rs   == LadderRows(leg, day)
            i    == InForce(rs, at)
            tape == stJob.ladder
            rows == {r \in Range(tape) : r.leg = leg /\ r.at <= at /\ r.at >= LkDays[day].start}
            I == {n \in DOMAIN tape : /\ tape[n].leg = leg
                                      /\ LkDays[day].start <= tape[n].at /\ tape[n].at <= LkDays[day].end}
<1>1. at \in Int /\ at <= LkDays[day].end /\ LkDays[day].start \in Int /\ LkDays[day].end \in Int
  BY ObservationsAreReal DEF EntryFrom, RealReadings
<1>2. Arrivals(rs) /\ \E g : Picked(rs, tape, I, g)
  BY LadderRowsArrive
<1>3. \A n \in DOMAIN tape : tape[n].at \in Int
  BY SettlementAssumption
<1>4. p.straddle = s /\ (p.noRow <=> i = 0) /\ (p.priced => i # 0) /\ (i # 0 => p.row = rs[i])
  BY DEF PriceOf
<1>5. i \in 0..Len(rs) /\ \A n \in 1..Len(rs) : rs[n].at <= at <=> n <= i
  <2>. HIDE DEF rs, at
  <2>. QED BY <1>1, <1>2, InForceIs
<1>6. \A r : r \in rows <=> \E n \in I : r = tape[n] /\ tape[n].at <= at
  <2>1. \A n \in DOMAIN tape : tape[n].leg = leg /\ tape[n].at <= at /\ tape[n].at >= LkDays[day].start
                             => n \in I
    BY <1>1, <1>3
  <2>2. \A n \in I : tape[n].leg = leg /\ tape[n].at >= LkDays[day].start /\ tape[n] \in Range(tape)
    BY <1>1, <1>3 DEF Range
  <2>3. \A r \in Range(tape) : \E n \in DOMAIN tape : r = tape[n]
    BY DEF Range
  <2>. HIDE DEF I, tape
  <2>. QED BY <2>1, <2>2, <2>3
<1>7. PICK g : Picked(rs, tape, I, g)
  BY <1>2
<1>8. /\ Len(rs) \in Nat /\ g \in [1..Len(rs) -> I]
      /\ \A n \in I : \E k \in 1..Len(rs) : g[k] = n
      /\ \A n \in 1..Len(rs) : rs[n] = tape[g[n]]
  BY <1>7 DEF Picked
<1>. HIDE DEF rows, rs, I, tape, at, i
<1>9. \A r : r \in rows <=> \E n \in 1..Len(rs) : r = rs[n] /\ n <= i
  BY <1>5, <1>6, <1>8
<1>10. i = 0 <=> rows = {}
  <2>1. i # 0 => rs[i] \in rows
    BY <1>5, <1>8, <1>9
  <2>2. i = 0 => rows = {}
    BY <1>8, <1>9
  <2>. QED BY <2>1, <2>2
<1>11. i # 0 => rs[i] \in rows /\ \A r \in rows : r.at <= rs[i].at
  <2>. SUFFICES ASSUME i # 0 PROVE rs[i] \in rows /\ \A r \in rows : r.at <= rs[i].at
    OBVIOUS
  <2>1. i \in 1..Len(rs) /\ i <= i
    BY <1>5, <1>8
  <2>2. \A n \in 1..Len(rs) : n <= i => rs[n].at <= rs[i].at
    BY <1>2, <1>8, <2>1 DEF Arrivals
  <2>. QED BY <1>9, <2>1, <2>2
<1>12. \A x \in LkMerged : ~(x[1] <= at + StMinute /\ at <= x[2])
  <2>1. ~Meets(LkMerged, at, at + StMinute)
    BY DEF MinuteFate, Screen, at
  <2>2. \A x \in LkMerged : x[1] \in Int /\ x[2] \in Int
    BY LockAssumption
  <2>. QED BY <1>1, <2>1, <2>2 DEF Meets
<1>13. (p.noRow <=> rows = {}) /\ (p.priced => p.row \in rows /\ \A r \in rows : r.at <= p.row.at)
  <2>. HIDE DEF p
  <2>. QED BY <1>4, <1>10, <1>11
<1>. HIDE DEF p
<1>14. WasKnown(p)
  BY <1>4, <1>12, <1>13 DEF WasKnown, rows, tape, at
<1>. QED BY <1>14 DEF p

-----------------------------------------------------------------------------
(***************************************************************************)
(* The settlement study, step by step                                      *)
(***************************************************************************)

\* A straddle is the one of its day, and a day of a swept root that is settled
\* apart has one.
StraddlesAreOfDays == \A s \in stStraddles : Apart(s.day) /\ s = StraddleOf(s.day)
SweptDaysStraddle ==
    stPhase # "raised" =>
        \A d \in DOMAIN LkDays :
            d[1] \in StRoots \ Range(stLeft) /\ Settled(d) /\ Strikes(d) # {}
            => \E s \in stStraddles : s.day = d

PricesAreOfStraddles ==
    \A p \in stPriced : \E s \in stStraddles : p = PriceOf(s) /\ MinuteFate(s) = "kept"

Manifested ==
    /\ stPhase \in {"preflight", "aborted"} <=> ~stManifest
    /\ stPhase \in {"preflight", "aborted"} => stStraddles = {} /\ stVerdict = "none"

SettleInv ==
    /\ stJob \in StJobs /\ stLeft \in Seq(StRoots)
    /\ StraddlesAreOfDays /\ SweptDaysStraddle /\ PricesAreOfStraddles /\ Manifested

LEMMA SettleInvIsHonest == SettleInv => SettlementIsHonest
<1>. SUFFICES ASSUME SettleInv PROVE SettlementIsHonest
  OBVIOUS
<1>0. stJob \in StJobs /\ StraddlesAreOfDays /\ SweptDaysStraddle /\ PricesAreOfStraddles /\ Manifested
  BY DEF SettleInv
<1>1. StraddlesDisagree
  <2>. SUFFICES ASSUME stPhase # "raised",
                       NEW d \in UNION {StDaysOf(r) : r \in StRoots \ Range(stLeft)},
                       Settled(d), Partitioned(d)
                PROVE  (\E s \in stStraddles : s.day = d)
                       <=> SettlingRows(d, Official(d)) # SettlingRows(d, Observed(d))
    BY DEF StraddlesDisagree
  <2>1. d \in DOMAIN LkDays /\ d[1] \in StRoots \ Range(stLeft)
    BY DEF StDaysOf
  <2>2. Observed(d) \in Temps(d) /\ Official(d) \in Temps(d)
    BY <1>0, <2>1, HighsAre
  <2>3. Observed(d) \in Int /\ Official(d) \in Int /\ OneRowEach(d, Observed(d), Official(d))
    BY <1>0, <2>1, <2>2, TempsHaveOneRow
  <2>4. SettlingRows(d, Observed(d)) # SettlingRows(d, Official(d)) <=> Strikes(d) # {}
    BY <2>3, RowsDiffer DEF Strikes
  <2>5. (\E s \in stStraddles : s.day = d) => Strikes(d) # {}
    BY <1>0 DEF StraddlesAreOfDays, Apart
  <2>6. Strikes(d) # {} => \E s \in stStraddles : s.day = d
    BY <1>0, <2>1 DEF SweptDaysStraddle
  <2>. QED BY <2>4, <2>5, <2>6
<1>2. CrossingsRunPast
  <2>. SUFFICES ASSUME NEW s \in stStraddles, Partitioned(s.day)
                PROVE  RunsPast(s.day, s.entry) /\ s.official = Official(s.day) /\ s.observed = Observed(s.day)
    BY DEF CrossingsRunPast, RunsPast, Past, In, High
  <2>1. Apart(s.day) /\ s = StraddleOf(s.day)
    BY <1>0 DEF StraddlesAreOfDays
  <2>2. s.entry = EntryOf(s.day) /\ s.official = Official(s.day) /\ s.observed = Observed(s.day)
    BY <2>1 DEF StraddleOf
  <2>3. PICK first : EntryFrom(s.day, s.entry, first)
    BY <1>0, <2>1, <2>2, EntryIs
  <2>. QED BY <1>0, <2>1, <2>2, <2>3, EntryRunsPast
<1>3. PricesWereKnown
  <2>. SUFFICES ASSUME NEW p \in stPriced PROVE WasKnown(p)
    BY DEF PricesWereKnown, WasKnown
  <2>1. PICK s \in stStraddles : p = PriceOf(s) /\ MinuteFate(s) = "kept"
    BY <1>0 DEF PricesAreOfStraddles
  <2>2. Apart(s.day) /\ s = StraddleOf(s.day)
    BY <1>0 DEF StraddlesAreOfDays
  <2>3. s.entry = EntryOf(s.day)
    BY <2>2 DEF StraddleOf
  <2>4. PICK first : EntryFrom(s.day, s.entry, first)
    BY <1>0, <2>2, <2>3, EntryIs
  <2>. QED BY <1>0, <2>1, <2>2, <2>4, PriceWasKnown DEF Apart
<1>4. ManifestFirst
  BY <1>0 DEF ManifestFirst, Manifested
<1>. QED BY <1>1, <1>2, <1>3, <1>4 DEF SettlementIsHonest

LEMMA SettleInvHoldsFirst ==
    ASSUME NEW j \in StJobs, StStart(j)
    PROVE  SettleInv
<1>1. /\ stJob = j /\ stManifest = FALSE /\ stLeft = Ordered(StRoots, LkSeriesOrder)
      /\ stStraddles = {} /\ stPriced = {} /\ stVerdict = "none" /\ stPhase = "preflight"
  BY DEF StStart
<1>2. StRoots \in SUBSET {d[1] : d \in DOMAIN LkDays}
  BY DEF StRoots
<1>3. IsFiniteSet({d[1] : d \in DOMAIN LkDays})
  <2>. DEFINE f == [d \in DOMAIN LkDays |-> d[1]]
              roots == {d[1] : d \in DOMAIN LkDays}
  <2>1. {f[d] : d \in DOMAIN LkDays} = roots /\ DOMAIN f = DOMAIN LkDays
    OBVIOUS
  <2>. HIDE DEF f, roots
  <2>2. IsFiniteSet(DOMAIN LkDays)
    BY LockAssumption
  <2>3. IsFiniteSet(roots)
    BY <2>1, <2>2, ImageIsFinite
  <2>. QED BY <2>3 DEF roots
<1>4. IsFiniteSet(StRoots)
  BY <1>2, <1>3, FS_Subset
<1>5. /\ \A s \in StRoots : LkSeriesOrder[s] \in Int
      /\ \A s, r \in StRoots : LkSeriesOrder[s] = LkSeriesOrder[r] => s = r
  BY <1>2, LockAssumption
<1>6. Counts(stLeft, StRoots, LkSeriesOrder)
  BY <1>1, <1>4, <1>5, OrderedIs
<1>7. stLeft \in Seq(StRoots) /\ StRoots \ Range(stLeft) = {}
  <2>. DEFINE c == Cardinality(StRoots)
  <2>1. c \in Nat /\ stLeft \in [1..c -> StRoots] /\ \A x \in StRoots : \E n \in 1..c : stLeft[n] = x
    BY <1>6 DEF Counts
  <2>. HIDE DEF c
  <2>2. stLeft \in Seq(StRoots)
    BY <2>1
  <2>3. \A x \in StRoots : x \in Range(stLeft)
    BY <2>1 DEF Range
  <2>. QED BY <2>2, <2>3
<1>8. SweptDaysStraddle
  BY <1>7 DEF SweptDaysStraddle
<1>. QED BY <1>1, <1>7, <1>8 DEF SettleInv, StraddlesAreOfDays, PricesAreOfStraddles, Manifested

\* Of the variables, a day's sources depend on the job alone.
LEMMA SettleSame ==
    ASSUME UNCHANGED stJob
    PROVE  /\ \A d : Apart(d)' <=> Apart(d)
           /\ \A d : StraddleOf(d)' = StraddleOf(d)
           /\ \A d : Settled(d)' <=> Settled(d)
           /\ \A d : Strikes(d)' = Strikes(d)
           /\ \A s : PriceOf(s)' = PriceOf(s)
<1>1. stJob' = stJob
  OBVIOUS
<1>2. \A d : Observations(d)' = Observations(d)
  BY <1>1 DEF Observations
<1>3. \A d : Official(d)' = Official(d) /\ (Settled(d)' <=> Settled(d))
  BY <1>1, <1>2 DEF Official, Settled
<1>4. \A d : Observed(d)' = Observed(d)
  BY <1>2 DEF Observed
<1>5. \A d : Strikes(d)' = Strikes(d)
  BY <1>3, <1>4 DEF Strikes
<1>6. \A d, at : PastAt(d, at)' = PastAt(d, at)
  BY <1>2, <1>3, <1>5 DEF PastAt
<1>7. \A d : EntryOf(d)' = EntryOf(d)
  BY <1>2, <1>3, <1>6 DEF EntryOf
<1>8. \A d : StraddleOf(d)' = StraddleOf(d)
  BY <1>3, <1>4, <1>7 DEF StraddleOf
<1>9. \A d : Apart(d)' <=> Apart(d)
  BY <1>3, <1>5 DEF Apart
<1>10. \A s : PriceOf(s)' = PriceOf(s)
  BY <1>1 DEF PriceOf, LadderRows
<1>. QED BY <1>3, <1>5, <1>8, <1>9, <1>10

\* A sweep of the root at the head.
LEMMA SweepKeepsSettleInv == ASSUME SettleInv, SweepSettlements PROVE SettleInv'
<1>. DEFINE days    == StDaysOf(Head(stLeft))
            settled == {d \in days : Settled(d)}
            apart   == {d \in settled : Strikes(d) # {}}
            broken  == {d \in settled : LadderOf(d) = {}}
                       \cup {d \in apart : Cardinality(SettlingRows(d, Official(d))) # 1}
<1>0. /\ stJob \in StJobs /\ stLeft \in Seq(StRoots)
      /\ StraddlesAreOfDays /\ SweptDaysStraddle /\ PricesAreOfStraddles /\ Manifested
  BY DEF SettleInv
<1>1. /\ stPhase = "sweep" /\ stLeft # <<>> /\ stLeft' = Tail(stLeft)
      /\ stJob' = stJob /\ stManifest' = stManifest /\ stPriced' = stPriced /\ stVerdict' = stVerdict
  BY Zenon DEF SweepSettlements
<1>2. \/ stPhase' = "raised" /\ stStraddles' = stStraddles
      \/ /\ broken = {} /\ stPhase' \in {"price", "sweep"}
         /\ stStraddles' = stStraddles \cup {StraddleOf(d) : d \in apart}
  BY Zenon DEF SweepSettlements
<1>3. Head(stLeft) \in StRoots /\ stLeft' \in Seq(StRoots)
  BY <1>0, <1>1
<1>4. \A x \in StRoots : x \notin Range(stLeft') => x \notin Range(stLeft) \/ x = Head(stLeft)
  <2>. SUFFICES ASSUME NEW n \in 1..Len(stLeft), stLeft[n] # Head(stLeft) PROVE stLeft[n] \in Range(stLeft')
    BY <1>0 DEF Range
  <2>1. n - 1 \in 1..Len(stLeft') /\ stLeft'[n - 1] = stLeft[n]
    BY <1>0, <1>1
  <2>. QED BY <1>3, <2>1 DEF Range
<1>5. \A d : d \in apart <=> d \in DOMAIN LkDays /\ d[1] = Head(stLeft) /\ Settled(d) /\ Strikes(d) # {}
  BY DEF StDaysOf
<1>6. broken = {} => \A d \in apart : Cardinality(SettlingRows(d, Official(d))) = 1
  OBVIOUS
<1>7. \A d : StraddleOf(d).day = d
  BY DEF StraddleOf
<1>. HIDE DEF broken, apart
<1>8. /\ \A d : Apart(d)' <=> Apart(d)
      /\ \A d : StraddleOf(d)' = StraddleOf(d)
      /\ \A d : Settled(d)' <=> Settled(d)
      /\ \A d : Strikes(d)' = Strikes(d)
      /\ \A s : PriceOf(s)' = PriceOf(s)
  BY <1>1, SettleSame
<1>9. stStraddles \in SUBSET stStraddles'
  BY <1>2
<1>10. StraddlesAreOfDays'
  <2>. SUFFICES ASSUME NEW s \in stStraddles' PROVE Apart(s.day) /\ s = StraddleOf(s.day)
    BY <1>8 DEF StraddlesAreOfDays
  <2>1. CASE s \in stStraddles
    BY <1>0, <2>1 DEF StraddlesAreOfDays
  <2>2. CASE s \notin stStraddles
    <3>1. PICK d \in apart : s = StraddleOf(d)
      BY <1>2, <2>2
    <3>2. Apart(d)
      BY <1>2, <1>3, <1>5, <1>6, <2>2 DEF Apart
    <3>. QED BY <1>7, <3>1, <3>2
  <2>. QED BY <2>1, <2>2
<1>11. SweptDaysStraddle'
  <2>. SUFFICES ASSUME stPhase' # "raised", NEW d \in DOMAIN LkDays, d[1] \in StRoots,
                       d[1] \notin Range(stLeft'), Settled(d), Strikes(d) # {}
                PROVE  \E s \in stStraddles' : s.day = d
    BY <1>8 DEF SweptDaysStraddle
  <2>1. CASE d[1] \notin Range(stLeft)
    BY <1>0, <1>1, <1>9, <2>1 DEF SweptDaysStraddle
  <2>2. CASE d[1] = Head(stLeft)
    BY <1>2, <1>5, <1>7, <2>2
  <2>. QED BY <1>4, <2>1, <2>2
<1>12. PricesAreOfStraddles'
  BY <1>0, <1>1, <1>8, <1>9 DEF PricesAreOfStraddles
<1>13. Manifested'
  BY <1>0, <1>1, <1>2 DEF Manifested
<1>. QED BY <1>0, <1>1, <1>3, <1>10, <1>11, <1>12, <1>13 DEF SettleInv

\* The steps that sweep nothing.
LEMMA OthersKeepSettleInv ==
    ASSUME SettleInv, UNCHANGED <<stJob, stLeft, stStraddles>>, (stPhase = "raised") => (stPhase' = "raised"),
           PricesAreOfStraddles', Manifested'
    PROVE  SettleInv'
<1>0. stJob \in StJobs /\ stLeft \in Seq(StRoots) /\ StraddlesAreOfDays /\ SweptDaysStraddle
  BY DEF SettleInv
<1>1. stJob' = stJob /\ stLeft' = stLeft /\ stStraddles' = stStraddles
  OBVIOUS
<1>2. /\ \A d : Apart(d)' <=> Apart(d)
      /\ \A d : StraddleOf(d)' = StraddleOf(d)
      /\ \A d : Settled(d)' <=> Settled(d)
      /\ \A d : Strikes(d)' = Strikes(d)
  BY <1>1, SettleSame
<1>3. StraddlesAreOfDays'
  BY <1>0, <1>1, <1>2 DEF StraddlesAreOfDays
<1>4. SweptDaysStraddle'
  BY <1>0, <1>1, <1>2 DEF SweptDaysStraddle
<1>. QED BY <1>0, <1>1, <1>3, <1>4 DEF SettleInv

LEMMA PricesStay ==
    ASSUME PricesAreOfStraddles, UNCHANGED <<stJob, stStraddles, stPriced>>
    PROVE  PricesAreOfStraddles'
<1>1. \A s : PriceOf(s)' = PriceOf(s)
  BY SettleSame
<1>. QED BY <1>1 DEF PricesAreOfStraddles

\* The settlement study, whatever was read, listed and quoted: it straddles the
\* days whose two sources settle different rows and no others, buys what the
\* readings run past, at a price that was known, and decides after its manifest.
THEOREM SettlementHonest == StSpec => []SettlementIsHonest
<1>1. StInit => SettleInv
  BY SettleInvHoldsFirst DEF StInit
<1>2. SettleInv /\ [StNext]_stVars => SettleInv'
  <2>. SUFFICES ASSUME SettleInv, [StNext]_stVars PROVE SettleInv'
    OBVIOUS
  <2>0. PricesAreOfStraddles /\ Manifested
    BY DEF SettleInv
  <2>1. CASE Preflight
    <3>1. /\ stPhase = "preflight"
          /\ stJob' = stJob /\ stLeft' = stLeft /\ stStraddles' = stStraddles /\ stPriced' = stPriced
          /\ stVerdict' = stVerdict
      BY <2>1, Zenon DEF Preflight
    <3>2. \/ stManifest' = TRUE /\ stPhase' = "sweep"
          \/ stManifest' = stManifest /\ stPhase' = "aborted"
      BY <2>1, Zenon DEF Preflight
    <3>3. Manifested'
      BY <2>0, <3>1, <3>2 DEF Manifested
    <3>4. PricesAreOfStraddles'
      BY <2>0, <3>1, PricesStay
    <3>. QED BY <3>1, <3>2, <3>3, <3>4, OthersKeepSettleInv
  <2>2. CASE PriceEntries
    <3>. DEFINE kept == {s \in {x \in stStraddles : x.entry.kind = "crossing"} : MinuteFate(s) = "kept"}
    <3>1. /\ stPhase = "price" /\ stPhase' = "decide"
          /\ stJob' = stJob /\ stLeft' = stLeft /\ stStraddles' = stStraddles /\ stManifest' = stManifest
          /\ stVerdict' = stVerdict
      BY <2>2, Zenon DEF PriceEntries
    <3>2. stPriced' = {PriceOf(s) : s \in kept}
      BY <2>2, Zenon DEF PriceEntries
    <3>3. PricesAreOfStraddles'
      <4>1. \A s : PriceOf(s)' = PriceOf(s)
        BY <3>1, SettleSame
      <4>. QED BY <3>1, <3>2, <4>1 DEF PricesAreOfStraddles
    <3>4. Manifested'
      BY <2>0, <3>1 DEF Manifested
    <3>. QED BY <3>1, <3>3, <3>4, OthersKeepSettleInv
  <2>3. CASE DecideSettlement \/ WriteResults
    <3>1. /\ stPhase \in {"decide", "done"} /\ stPhase' \in {"done", "written", "unwritten"}
          /\ stJob' = stJob /\ stLeft' = stLeft /\ stStraddles' = stStraddles /\ stManifest' = stManifest
          /\ stPriced' = stPriced
      <4>1. CASE DecideSettlement
        BY <4>1, Zenon DEF DecideSettlement
      <4>2. CASE WriteResults
        BY <4>2 DEF WriteResults
      <4>. QED BY <2>3, <4>1, <4>2
    <3>2. PricesAreOfStraddles'
      BY <2>0, <3>1, PricesStay
    <3>3. Manifested'
      BY <2>0, <3>1 DEF Manifested
    <3>. QED BY <3>1, <3>2, <3>3, OthersKeepSettleInv
  <2>4. CASE UNCHANGED stVars
    <3>1. /\ stPhase' = stPhase /\ stVerdict' = stVerdict /\ stManifest' = stManifest
          /\ stJob' = stJob /\ stLeft' = stLeft /\ stStraddles' = stStraddles /\ stPriced' = stPriced
      BY <2>4 DEF stVars
    <3>2. PricesAreOfStraddles' /\ Manifested'
      BY <2>0, <3>1, PricesStay DEF Manifested
    <3>. QED BY <3>1, <3>2, OthersKeepSettleInv
  <2>. QED BY <2>1, <2>2, <2>3, <2>4, SweepKeepsSettleInv DEF StNext
<1>. QED BY <1>1, <1>2, SettleInvIsHonest, PTL DEF StSpec

-----------------------------------------------------------------------------
(***************************************************************************)
(* The lead-lag study: moves and their answers                             *)
(***************************************************************************)

\* A move that is found: of which rows, and when.
FoundAt(s, c, i, k) ==
    /\ i \in 1..Len(s) /\ k \in 1..Len(s)
    /\ c.anchor = s[i].at /\ c.cross = s[k].at /\ c.deadline = s[i].at + LgWindow
    /\ c.anchor \in Int /\ c.cross \in Int /\ c.anchor <= c.cross
    /\ c.direction \in {1, -1}
    /\ (Mid2(s[k], LgDollar) - Mid2(s[i], LgDollar)) * c.direction >= LgBar

\* Rows with two quotes.
HasMids(s) == Arrivals(s) /\ \A i \in 1..Len(s) : Mid2(s[i], LgDollar) \in Int

LEMMA CrossingIs ==
    ASSUME NEW s, HasMids(s), NEW i \in 1..Len(s), Hits(s, i) # {}
    PROVE  \E k : FoundAt(s, CrossingFrom(s, i), i, k)
<1>. DEFINE k == Min(Hits(s, i))
            c == CrossingFrom(s, i)
            m == Moved(s, i, k)
<1>1. /\ Len(s) \in Nat /\ \A j \in 1..Len(s) : s[j].at \in Int /\ Mid2(s[j], LgDollar) \in Int
      /\ \A j, l \in 1..Len(s) : j < l => s[j].at <= s[l].at
  BY DEF HasMids, Arrivals
<1>2. k \in Hits(s, i)
  <2>1. Hits(s, i) \in SUBSET Nat
    BY <1>1 DEF Hits
  <2>. QED BY <2>1, MinTakes
<1>3. k \in (i + 1)..Len(s) /\ (m >= LgBar \/ m <= -LgBar)
  BY <1>2 DEF Hits
<1>4. c = [anchor |-> s[i].at, cross |-> s[k].at, deadline |-> s[i].at + LgWindow,
           direction |-> IF m > 0 THEN 1 ELSE -1]
  BY DEF CrossingFrom
<1>. HIDE DEF k, c
<1>5. k \in 1..Len(s) /\ i < k
  BY <1>1, <1>3
<1>6. m = Mid2(s[k], LgDollar) - Mid2(s[i], LgDollar) /\ m \in Int
  BY <1>1, <1>5 DEF Moved
<1>7. LgBar \in Nat
  BY LeadAssumption
<1>. HIDE DEF m
<1>8. CASE m > 0
  <2>1. m * 1 >= LgBar
    BY <1>3, <1>6, <1>7, <1>8
  <2>2. c.direction = 1
    BY <1>4, <1>8
  <2>. QED BY <1>1, <1>4, <1>5, <1>6, <2>1, <2>2 DEF FoundAt, c
<1>9. CASE ~(m > 0)
  <2>1. m * (-1) >= LgBar
    BY <1>3, <1>6, <1>7, <1>9
  <2>2. c.direction = -1
    BY <1>4, <1>9
  <2>. QED BY <1>1, <1>4, <1>5, <1>6, <2>1, <2>2 DEF FoundAt, c
<1>. QED BY <1>8, <1>9

\* The next anchor lies behind the crossing.
LEMMA NextIsLater ==
    ASSUME NEW s, HasMids(s), NEW i \in 1..Len(s)
    PROVE  /\ NextAnchor(s, i) \in (i + 1)..(Len(s) + 1)
           /\ Hits(s, i) # {} /\ NextAnchor(s, i) <= Len(s)
                 => s[NextAnchor(s, i)].at > CrossingFrom(s, i).cross
<1>1. /\ Len(s) \in Nat /\ \A j \in 1..Len(s) : s[j].at \in Int
      /\ \A j, l \in 1..Len(s) : j < l => s[j].at <= s[l].at
  BY DEF HasMids, Arrivals
<1>2. CASE Hits(s, i) = {}
  BY <1>1, <1>2 DEF NextAnchor
<1>3. CASE Hits(s, i) # {}
  <2>. DEFINE cross == CrossingFrom(s, i).cross
              T == {j \in i..(Len(s) + 1) : j > Len(s) \/ s[j].at > cross}
  <2>1. PICK k : FoundAt(s, CrossingFrom(s, i), i, k)
    BY <1>3, CrossingIs
  <2>2. s[i].at <= cross /\ cross \in Int
    BY <2>1 DEF FoundAt
  <2>3. T \in SUBSET Nat /\ Len(s) + 1 \in T
    BY <1>1
  <2>. HIDE DEF cross, T
  <2>4. Min(T) \in T
    BY <2>3, MinTakes
  <2>5. NextAnchor(s, i) = Min(T)
    BY <1>3 DEF NextAnchor, T, cross
  <2>6. Min(T) \in i..(Len(s) + 1) /\ (Min(T) > Len(s) \/ s[Min(T)].at > cross)
    BY <2>4 DEF T
  <2>7. Min(T) # i
    BY <2>2, <2>6, <1>1
  <2>. QED BY <1>1, <2>5, <2>6, <2>7 DEF cross
<1>. QED BY <1>2, <1>3

\* The moves found from a row on are of that row or later ones, and apart.
ApartFrom(s, S, i) ==
    /\ IsFiniteSet(S)
    /\ \A c \in S : \E j, k : j >= i /\ FoundAt(s, c, j, k)
    /\ \A c, x \in S : x = c \/ x.cross < c.anchor \/ c.cross < x.anchor

LEMMA OneMoreApart ==
    ASSUME NEW s, HasMids(s), NEW i \in 1..Len(s), NEW S, ApartFrom(s, S, NextAnchor(s, i)),
           NextAnchor(s, i) > Len(s) => S = {}
    PROVE  ApartFrom(s, (IF Hits(s, i) = {} THEN {} ELSE {CrossingFrom(s, i)}) \cup S, i)
<1>. DEFINE n == NextAnchor(s, i)
            c == CrossingFrom(s, i)
            R == (IF Hits(s, i) = {} THEN {} ELSE {c}) \cup S
<1>1. /\ Len(s) \in Nat /\ \A j \in 1..Len(s) : s[j].at \in Int
      /\ \A j, l \in 1..Len(s) : j < l => s[j].at <= s[l].at
  BY DEF HasMids, Arrivals
<1>2. /\ n \in (i + 1)..(Len(s) + 1)
      /\ Hits(s, i) # {} /\ n <= Len(s) => s[n].at > c.cross
  BY NextIsLater
<1>. HIDE DEF n
<1>3. /\ IsFiniteSet(S)
      /\ \A x \in S : \E j, k : j >= n /\ FoundAt(s, x, j, k)
      /\ \A x, y \in S : x = y \/ x.cross < y.anchor \/ y.cross < x.anchor
  BY DEF ApartFrom, n
<1>4. \A x \in S : \E j, k : j >= i /\ FoundAt(s, x, j, k)
  <2>. TAKE x \in S
  <2>1. PICK j, k : j >= n /\ FoundAt(s, x, j, k)
    BY <1>3
  <2>2. j \in 1..Len(s)
    BY <2>1 DEF FoundAt
  <2>3. j >= i
    BY <1>1, <1>2, <2>1, <2>2
  <2>. QED BY <2>1, <2>3
<1>5. CASE Hits(s, i) = {}
  <2>1. R = S
    BY <1>5
  <2>. HIDE DEF R
  <2>2. ApartFrom(s, R, i)
    BY <1>3, <1>4, <2>1 DEF ApartFrom
  <2>. QED BY <2>2 DEF R
<1>6. CASE Hits(s, i) # {}
  <2>1. R = S \cup {c}
    BY <1>6
  <2>2. PICK k : FoundAt(s, c, i, k)
    BY <1>6, CrossingIs
  <2>3. IsFiniteSet(R)
    BY <1>3, <2>1, FS_AddElement
  <2>4. ASSUME NEW x \in S PROVE c.cross < x.anchor
    <3>1. PICK j, l : j >= n /\ FoundAt(s, x, j, l)
      BY <1>3
    <3>2. j \in 1..Len(s) /\ x.anchor = s[j].at
      BY <3>1 DEF FoundAt
    <3>3. n \in 1..Len(s)
      BY <1>1, <1>2, <3>1, <3>2
    <3>4. s[n].at <= s[j].at
      BY <1>1, <3>1, <3>2, <3>3
    <3>5. c.cross \in Int
      BY <2>2 DEF FoundAt
    <3>. QED BY <1>1, <1>2, <1>6, <3>2, <3>3, <3>4, <3>5
  <2>5. i >= i
    BY <1>1
  <2>. HIDE DEF R, c
  <2>6. \A x, y \in R : x = y \/ x.cross < y.anchor \/ y.cross < x.anchor
    BY <1>3, <2>1, <2>4
  <2>7. \A x \in R : \E j, l : j >= i /\ FoundAt(s, x, j, l)
    BY <1>4, <2>1, <2>2, <2>5
  <2>8. ApartFrom(s, R, i)
    BY <2>3, <2>6, <2>7 DEF ApartFrom
  <2>. QED BY <2>8 DEF R, c
<1>. QED BY <1>5, <1>6

LEMMA CrossingsAre ==
    ASSUME NEW rows, HasMids(BothSides(rows))
    PROVE  ApartFrom(BothSides(rows), Crossings(rows), 1)
<1>. DEFINE s == BothSides(rows)
            n == Len(s)
            own == [i \in 1..n |-> IF Hits(s, i) = {} THEN {} ELSE {CrossingFrom(s, i)}]
            next == [i \in 1..n |-> NextAnchor(s, i)]
            Of(f) == f = [i \in 1..(n + 1) |->
                            IF i > n THEN {}
                            ELSE (IF Hits(s, i) = {} THEN {} ELSE {CrossingFrom(s, i)}) \cup f[NextAnchor(s, i)]]
            from == CHOOSE f : Of(f)
<1>1. n \in Nat
  BY DEF HasMids, Arrivals
<1>2. \A i \in 1..n : next[i] \in (i + 1)..(n + 1)
  <2>. TAKE i \in 1..n
  <2>1. NextAnchor(s, i) \in (i + 1)..(n + 1)
    BY NextIsLater
  <2>. QED BY <2>1
<1>3. \E f : Of(f)
  <2>1. PICK f : Chained(f, n, own, next)
    <3>. HIDE DEF own, next, n
    <3>. QED BY <1>1, <1>2, ChainExists
  <2>2. ASSUME NEW i \in 1..(n + 1)
        PROVE  (IF i > n THEN {} ELSE own[i] \cup f[next[i]])
               = IF i > n THEN {}
                 ELSE (IF Hits(s, i) = {} THEN {} ELSE {CrossingFrom(s, i)}) \cup f[NextAnchor(s, i)]
    <3>1. ~(i > n) => i \in 1..n
      BY <1>1
    <3>. HIDE DEF n, s
    <3>. QED BY <3>1
  <2>. HIDE DEF own, next, n, s
  <2>3. Of(f)
    BY <2>1, <2>2 DEF Chained
  <2>. QED BY <2>3
<1>4. Of(from)
  <2>. HIDE DEF Of
  <2>. QED BY <1>3
<1>5. Crossings(rows) = from[1]
  BY DEF Crossings
<1>. HIDE DEF from
<1>6. /\ from[n + 1] = {}
      /\ \A i \in 1..n : from[i] = (IF Hits(s, i) = {} THEN {} ELSE {CrossingFrom(s, i)})
                                   \cup from[NextAnchor(s, i)]
  <2>. HIDE DEF s, n
  <2>1. n + 1 \in 1..(n + 1) /\ n + 1 > n
    BY <1>1
  <2>2. \A i \in 1..n : i \in 1..(n + 1) /\ ~(i > n)
    BY <1>1
  <2>. QED BY <1>4, <2>1, <2>2
<1>. HIDE DEF Of
<1>. DEFINE D == {m \in 0..n : \A i \in (n + 1 - m)..(n + 1) : ApartFrom(s, from[i], i)}
<1>7. 0 \in D
  <2>1. ApartFrom(s, {}, n + 1)
    BY FS_EmptySet DEF ApartFrom
  <2>2. \A i \in (n + 1 - 0)..(n + 1) : i = n + 1
    BY <1>1
  <2>3. 0 \in 0..n
    BY <1>1
  <2>. HIDE DEF s, n
  <2>. QED BY <1>6, <2>1, <2>2, <2>3
<1>8. ASSUME NEW m \in 1..n, m - 1 \in D PROVE m \in D
  <2>. DEFINE a == n + 1 - m
  <2>1. a \in 1..n /\ n + 1 - (m - 1) = a + 1 /\ m \in 0..n
    BY <1>1
  <2>. HIDE DEF a
  <2>2. \A i \in (a + 1)..(n + 1) : ApartFrom(s, from[i], i)
    BY <1>8, <2>1
  <2>3. NextAnchor(s, a) \in (a + 1)..(n + 1)
    BY <2>1, NextIsLater
  <2>4. NextAnchor(s, a) > n => from[NextAnchor(s, a)] = {}
    <3>1. NextAnchor(s, a) > n => NextAnchor(s, a) = n + 1
      BY <1>1, <2>1, <2>3
    <3>. QED BY <3>1, <1>6
  <2>5. ApartFrom(s, (IF Hits(s, a) = {} THEN {} ELSE {CrossingFrom(s, a)}) \cup from[NextAnchor(s, a)], a)
    <3>1. HasMids(s)
      OBVIOUS
    <3>2. ApartFrom(s, from[NextAnchor(s, a)], NextAnchor(s, a))
      BY <2>2, <2>3
    <3>. HIDE DEF s
    <3>. QED BY <3>1, <3>2, <2>1, <2>4, OneMoreApart DEF n
  <2>6. ApartFrom(s, from[a], a)
    <3>. HIDE DEF s, n
    <3>. QED BY <2>1, <2>5, <1>6
  <2>7. \A i \in a..(n + 1) : i = a \/ i \in (a + 1)..(n + 1)
    BY <2>1, <1>1
  <2>. HIDE DEF s, n
  <2>. QED BY <2>1, <2>2, <2>6, <2>7 DEF a
<1>. HIDE DEF D
<1>9. \A i \in 0..n : i \in D
  <2>. HIDE DEF n
  <2>. QED BY <1>1, <1>7, <1>8, CountInduction
<1>10. n \in D /\ n + 1 - n = 1 /\ 1 \in 1..(n + 1)
  BY <1>1, <1>9
<1>11. ApartFrom(s, from[1], 1)
  <2>. HIDE DEF s, n
  <2>. QED BY <1>10 DEF D
<1>. QED BY <1>5, <1>11

\* An answer to a move: of the rows of the follower the first, behind it and in
\* time, that is the bar away from the one in force at the move.
Away(s, base, k, direction) == (Mid2(s[k], LgDollar) - Mid2(s[base], LgDollar)) * direction >= LgBar

AnswerIs(s, c, at) ==
    LET base == InForce(s, c.cross)
    IN  /\ base \in 1..Len(s) /\ c.cross < at /\ at <= c.deadline /\ at \in Int
        /\ \E k \in 1..Len(s) : s[k].at = at /\ Away(s, base, k, c.direction)
        /\ \A k \in 1..Len(s) : c.cross < s[k].at /\ s[k].at < at => ~Away(s, base, k, c.direction)

LEMMA AnswersAre ==
    ASSUME NEW rows, HasMids(BothSides(rows)), NEW c, c.cross \in Int, c.deadline \in Int
    PROVE  /\ \A at \in Answered(rows, c) : AnswerIs(BothSides(rows), c, at)
           /\ \A x, y \in Answered(rows, c) : x = y
           /\ IsFiniteSet(Answered(rows, c))
<1>. DEFINE s == BothSides(rows)
            base == InForce(s, c.cross)
            hits == {k \in DOMAIN s : /\ s[k].at > c.cross /\ s[k].at <= c.deadline
                                      /\ Away(s, base, k, c.direction)}
            A == Answered(rows, c)
            firsts == {i \in hits : \A j \in hits : i <= j}
<1>1. A = IF base = 0 THEN {} ELSE {s[k].at : k \in firsts}
  BY DEF Answered, Away
<1>2. /\ Arrivals(s) /\ Len(s) \in Nat /\ DOMAIN s = 1..Len(s)
      /\ \A i \in 1..Len(s) : s[i].at \in Int
      /\ \A i, j \in 1..Len(s) : i < j => s[i].at <= s[j].at
  BY DEF HasMids, Arrivals
<1>3. base \in 0..Len(s)
  <2>. HIDE DEF s
  <2>. QED BY <1>2, InForceIs
<1>. HIDE DEF s, base, A
<1>4. \A i, j \in firsts : i = j
  <2>1. firsts \in SUBSET hits /\ \A i \in hits : i \in Int
    BY <1>2
  <2>2. \A i, j \in firsts : i <= j /\ j <= i /\ i \in Int /\ j \in Int
    BY <2>1
  <2>. HIDE DEF firsts
  <2>. QED BY <2>2
<1>5. ASSUME NEW at \in A PROVE AnswerIs(s, c, at)
  <2>1. PICK k \in firsts : at = s[k].at
    BY <1>1
  <2>2. /\ k \in 1..Len(s) /\ s[k].at > c.cross /\ s[k].at <= c.deadline /\ Away(s, base, k, c.direction)
        /\ \A j \in hits : k <= j
    BY <1>2
  <2>3. base \in 1..Len(s)
    BY <1>1, <1>2, <1>3
  <2>4. ASSUME NEW j \in 1..Len(s), c.cross < s[j].at, s[j].at < at, Away(s, base, j, c.direction)
        PROVE  FALSE
    <3>0. s[j].at \in Int /\ s[k].at \in Int
      BY <1>2, <2>2
    <3>1. j \in hits
      BY <1>2, <2>1, <2>2, <2>4, <3>0
    <3>2. k <= j
      BY <2>2, <3>1
    <3>3. s[k].at <= s[j].at
      BY <1>2, <2>2, <3>0, <3>2
    <3>. QED BY <2>1, <2>4, <3>0, <3>3
  <2>. HIDE DEF firsts, hits
  <2>5. c.cross < at /\ at <= c.deadline /\ at \in Int
    BY <1>2, <2>1, <2>2
  <2>. QED BY <2>1, <2>2, <2>3, <2>4, <2>5 DEF AnswerIs, base
<1>6. \A x, y \in A : x = y
  <2>. HIDE DEF firsts
  <2>. QED BY <1>1, <1>4
<1>7. IsFiniteSet(A)
  <2>1. A = {} \/ \E x : A = {x}
    <3>. HIDE DEF firsts
    <3>. QED BY <1>6
  <2>. QED BY <2>1, FS_EmptySet, FS_Singleton
<1>. QED BY <1>5, <1>6, <1>7 DEF A, s

\* An answer and what it answers.
LeadOf(pair, reading, date, c, at) ==
    [pair |-> pair, date |-> date, direction |-> c.direction, anchor |-> c.anchor,
     cross |-> c.cross, answer |-> at, lead |-> at - c.cross,
     leader   |-> IF reading = "forward" THEN pair.upstream ELSE pair.downstream,
     follower |-> IF reading = "forward" THEN pair.downstream ELSE pair.upstream]

LEMMA PairEpisodes ==
    ASSUME NEW pair, NEW reading, NEW date, NEW L, NEW F,
           NEW e \in EpisodesOfPair(pair, reading, date, L, F)
    PROVE  \E c \in Crossings(L) : \E at \in Answered(F, c) : e = LeadOf(pair, reading, date, c, at)
BY DEF EpisodesOfPair, LeadOf

LEMMA PairsFinite == IsFiniteSet(Pairs)
<1>. DEFINE pair(c, i) == [corridor |-> c, upstream |-> LgCorridors[c][i], downstream |-> LgCorridors[c][i + 1]]
            of == [c \in DOMAIN LgCorridors |-> {pair(c, i) : i \in 1..(Len(LgCorridors[c]) - 1)}]
<1>1. Pairs = UNION {of[c] : c \in DOMAIN LgCorridors}
  <2>. DEFINE on(c) == {pair(c, i) : i \in 1..(Len(LgCorridors[c]) - 1)}
  <2>1. Pairs = UNION {on(c) : c \in DOMAIN LgCorridors}
    BY DEF Pairs
  <2>2. \A c \in DOMAIN LgCorridors : of[c] = on(c)
    OBVIOUS
  <2>. HIDE DEF of, on
  <2>. QED BY <2>1, <2>2
<1>2. ASSUME NEW c \in DOMAIN LgCorridors PROVE IsFiniteSet(of[c])
  <2>. DEFINE I == 1..(Len(LgCorridors[c]) - 1)
              f == [i \in I |-> pair(c, i)]
  <2>1. IsFiniteSet(I)
    <3>1. 1 \in Int /\ Len(LgCorridors[c]) - 1 \in Int
      BY LeadAssumption
    <3>. QED BY <3>1, FS_Interval
  <2>2. of[c] = {f[i] : i \in I} /\ DOMAIN f = I
    OBVIOUS
  <2>. HIDE DEF of, f, I
  <2>. QED BY <2>1, <2>2, ImageIsFinite
<1>3. IsFiniteSet({of[c] : c \in DOMAIN LgCorridors})
  <2>1. IsFiniteSet(DOMAIN LgCorridors) /\ DOMAIN of = DOMAIN LgCorridors
    BY LeadAssumption
  <2>. HIDE DEF of
  <2>. QED BY <2>1, ImageIsFinite
<1>4. \A T \in {of[c] : c \in DOMAIN LgCorridors} : IsFiniteSet(T)
  <2>. HIDE DEF of
  <2>. QED BY <1>2
<1>. HIDE DEF of
<1>. QED BY <1>1, <1>3, <1>4, FS_UNION

LEMMA EpisodesFinite ==
    ASSUME NEW L, NEW F, HasMids(BothSides(L)), HasMids(BothSides(F)), NEW pair, NEW reading, NEW date
    PROVE  IsFiniteSet(EpisodesOfPair(pair, reading, date, L, F))
<1>. DEFINE C == Crossings(L)
            of == [c \in C |-> {LeadOf(pair, reading, date, c, at) : at \in Answered(F, c)}]
            E == EpisodesOfPair(pair, reading, date, L, F)
<1>1. E = UNION {of[c] : c \in C}
  BY DEF EpisodesOfPair, LeadOf
<1>2. ApartFrom(BothSides(L), C, 1)
  BY CrossingsAre
<1>. HIDE DEF E, C
<1>3. ASSUME NEW c \in C PROVE IsFiniteSet(of[c])
  <2>. DEFINE A == Answered(F, c)
              f == [at \in A |-> LeadOf(pair, reading, date, c, at)]
  <2>1. PICK i, k : FoundAt(BothSides(L), c, i, k)
    BY <1>2 DEF ApartFrom
  <2>2. c.cross \in Int /\ c.deadline \in Int
    <3>1. c.cross \in Int /\ c.anchor \in Int /\ c.deadline = c.anchor + LgWindow
      BY <2>1 DEF FoundAt
    <3>. QED BY <3>1, LeadAssumption
  <2>3. IsFiniteSet(A)
    BY <2>2, AnswersAre
  <2>4. of[c] = {f[at] : at \in A} /\ DOMAIN f = A
    OBVIOUS
  <2>. HIDE DEF of, f, A
  <2>. QED BY <2>3, <2>4, ImageIsFinite
<1>4. IsFiniteSet({of[c] : c \in C})
  <2>1. IsFiniteSet(C) /\ DOMAIN of = C
    BY <1>2 DEF ApartFrom
  <2>. HIDE DEF of
  <2>. QED BY <2>1, ImageIsFinite
<1>5. \A T \in {of[c] : c \in C} : IsFiniteSet(T)
  <2>. HIDE DEF of
  <2>. QED BY <1>3
<1>. HIDE DEF of
<1>6. IsFiniteSet(E)
  BY <1>1, <1>4, <1>5, FS_UNION
<1>. QED BY <1>6 DEF E

-----------------------------------------------------------------------------
(***************************************************************************)
(* The lead-lag study: what is read of a day                               *)
(***************************************************************************)

\* A tape of the study.
LEMMA LeadTape ==
    ASSUME lgJob \in LgJobs
    PROVE  /\ Len(lgJob.book) \in Nat /\ DOMAIN lgJob.book = 1..Len(lgJob.book)
           /\ \A i \in DOMAIN lgJob.book :
                 /\ i \in Int /\ lgJob.book[i].leg \in DOMAIN LgLegs /\ lgJob.book[i].at \in Int
                 /\ lgJob.book[i].bid \in Int /\ lgJob.book[i].noBid \in Int
                 /\ Mid2(lgJob.book[i], LgDollar) \in Int /\ FromHalf(lgJob.book[i]) \in Int
           /\ \A i, k \in DOMAIN lgJob.book : i < k /\ lgJob.book[i].leg = lgJob.book[k].leg
                                                 => lgJob.book[i].at <= lgJob.book[k].at
<1>. DEFINE book == lgJob.book
<1>1. /\ Len(book) \in Nat /\ DOMAIN book = 1..Len(book)
      /\ \A i \in DOMAIN book :
            /\ book[i].leg \in DOMAIN LgLegs
            /\ book[i].at \in Int /\ book[i].bid \in Int /\ book[i].noBid \in Int
      /\ \A i, k \in DOMAIN book : i < k /\ book[i].leg = book[k].leg => book[i].at <= book[k].at
  BY LeadAssumption
<1>2. \A i \in DOMAIN book : i \in Int
  <2>. HIDE DEF book
  <2>. QED BY <1>1
<1>3. ASSUME NEW i \in DOMAIN book
      PROVE  Mid2(book[i], LgDollar) \in Int /\ FromHalf(book[i]) \in Int
  <2>1. book[i].bid \in Int /\ book[i].noBid \in Int /\ LgDollar \in Int
    BY <1>1, LeadAssumption
  <2>. HIDE DEF book
  <2>2. Mid2(book[i], LgDollar) \in Int
    BY <2>1 DEF Mid2
  <2>. QED BY <2>1, <2>2 DEF FromHalf
<1>. QED BY <1>1, <1>2, <1>3

\* The rows of the tape that a day has of its legs, and with two quotes of one.
OnDay(d, i) ==
    /\ i \in DOMAIN lgJob.book
    /\ LgLegs[lgJob.book[i].leg].city = d[1] /\ LgLegs[lgJob.book[i].leg].date = d[2]
    /\ LgDays[d].start <= lgJob.book[i].at /\ lgJob.book[i].at <= LgDays[d].end

InView(d, leg) ==
    {i \in DOMAIN lgJob.book : OnDay(d, i) /\ lgJob.book[i].leg = leg /\ TwoBids(lgJob.book[i])}

RowsWatched(d, leg) == OfLeg(InDay(d, RowsOfDay(d)), leg)

LEMMA DayIs ==
    ASSUME lgJob \in LgJobs, NEW d \in DOMAIN LgDays
    PROVE  \E g : Picked(InDay(d, RowsOfDay(d)), lgJob.book, {i \in DOMAIN lgJob.book : OnDay(d, i)}, g)
<1>. DEFINE book == lgJob.book
            dates == WindowDates(LgDays[d].start, LgDays[d].end, LgDayLength)
            I == {i \in DOMAIN book : /\ LgLegs[book[i].leg].city = d[1]
                                      /\ LgLegs[book[i].leg].date = d[2]
                                      /\ book[i].at \div LgDayLength \in dates}
            rs == RowsOfDay(d)
            J == {i \in DOMAIN rs : LgDays[d].start <= rs[i].at /\ rs[i].at <= LgDays[d].end}
            K == {i \in DOMAIN lgJob.book : OnDay(d, i)}
<1>1. /\ Len(book) \in Nat /\ DOMAIN book = 1..Len(book)
      /\ \A i \in DOMAIN book : i \in Int /\ book[i].at \in Int
  BY LeadTape
<1>2. IsFiniteSet(I) /\ I \in SUBSET Int
  <2>1. 1 \in Int /\ Len(book) \in Int
    BY <1>1
  <2>2. IsFiniteSet(1..Len(book)) /\ 1..Len(book) \subseteq Int
    BY <2>1, FS_Interval
  <2>3. I \in SUBSET (1..Len(book))
    BY <1>1
  <2>. HIDE DEF I, book
  <2>4. IsFiniteSet(I)
    BY <2>2, <2>3, FS_Subset
  <2>. QED BY <2>2, <2>3, <2>4
<1>3. rs = Among(book, I)
  BY DEF RowsOfDay
<1>4. PICK g : Picked(rs, book, I, g)
  <2>. HIDE DEF I, rs
  <2>. QED BY <1>2, <1>3, AmongIs
<1>5. /\ Len(rs) \in Nat /\ DOMAIN rs = 1..Len(rs) /\ g \in [1..Len(rs) -> I]
      /\ \A n \in 1..Len(rs) : rs[n] = book[g[n]]
  BY <1>4 DEF Picked
<1>6. ASSUME NEW i \in DOMAIN book, LgDays[d].start <= book[i].at, book[i].at <= LgDays[d].end
      PROVE  book[i].at \div LgDayLength \in dates
  <2>1. /\ LgDayLength \in Nat \ {0} /\ LgDays[d].start \in Int /\ LgDays[d].end \in Int /\ book[i].at \in Int
    BY <1>1, LeadAssumption
  <2>2. /\ LgDays[d].start \div LgDayLength <= book[i].at \div LgDayLength
        /\ book[i].at \div LgDayLength <= LgDays[d].end \div LgDayLength
    BY <1>6, <2>1, DaysMount
  <2>3. /\ LgDays[d].start \div LgDayLength \in Int /\ book[i].at \div LgDayLength \in Int
        /\ LgDays[d].end \div LgDayLength \in Int
    BY <2>1
  <2>. QED BY <2>2, <2>3 DEF WindowDates
<1>7. K \in SUBSET I
  BY <1>6 DEF OnDay
<1>8. J \in SUBSET (1..Len(rs))
  BY <1>5
<1>9. \A n \in 1..Len(rs) : n \in J <=> g[n] \in K
  <2>. TAKE n \in 1..Len(rs)
  <2>1. rs[n] = book[g[n]] /\ g[n] \in I /\ n \in DOMAIN rs
    BY <1>5
  <2>2. g[n] \in DOMAIN book /\ LgLegs[book[g[n]].leg].city = d[1] /\ LgLegs[book[g[n]].leg].date = d[2]
    BY <2>1
  <2>. HIDE DEF rs
  <2>. QED BY <2>1, <2>2 DEF OnDay
<1>10. InDay(d, rs) = Among(rs, J)
  BY DEF InDay
<1>11. \E h : Picked(Among(rs, J), book, K, h)
  <2>. HIDE DEF I, J, K, rs, book
  <2>. QED BY <1>2, <1>4, <1>7, <1>8, <1>9, PickedPart
<1>. HIDE DEF J
<1>. QED BY <1>10, <1>11

LEMMA ViewIs ==
    ASSUME lgJob \in LgJobs, NEW d \in DOMAIN LgDays, NEW leg
    PROVE  /\ \E g : Picked(BothSides(RowsWatched(d, leg)), lgJob.book, InView(d, leg), g)
           /\ HasMids(BothSides(RowsWatched(d, leg)))
<1>. DEFINE book == lgJob.book
            I == {i \in DOMAIN lgJob.book : OnDay(d, i)}
            rs == InDay(d, RowsOfDay(d))
            J == {i \in DOMAIN rs : rs[i].leg = leg}
            K == {i \in I : book[i].leg = leg}
            qs == RowsWatched(d, leg)
            T == {i \in DOMAIN qs : TwoBids(qs[i])}
            V == InView(d, leg)
<1>1. PICK g : Picked(rs, book, I, g)
  BY DayIs
<1>2. /\ Len(rs) \in Nat /\ DOMAIN rs = 1..Len(rs) /\ g \in [1..Len(rs) -> I]
      /\ \A n \in 1..Len(rs) : rs[n] = book[g[n]]
  BY <1>1 DEF Picked
<1>3. I \in SUBSET Int /\ K \in SUBSET I /\ K \in SUBSET Int
  BY LeadTape
<1>4. J \in SUBSET (1..Len(rs)) /\ \A n \in 1..Len(rs) : n \in J <=> g[n] \in K
  <2>1. \A n \in 1..Len(rs) : g[n] \in I
    BY <1>2
  <2>. HIDE DEF rs, I
  <2>. QED BY <1>2, <2>1
<1>5. qs = Among(rs, J)
  BY DEF RowsWatched, OfLeg
<1>6. PICK h : Picked(qs, book, K, h)
  <2>. HIDE DEF I, J, K, rs, book, qs
  <2>. QED BY <1>1, <1>3, <1>4, <1>5, PickedPart
<1>7. /\ Len(qs) \in Nat /\ DOMAIN qs = 1..Len(qs) /\ h \in [1..Len(qs) -> K]
      /\ \A n \in 1..Len(qs) : qs[n] = book[h[n]]
  BY <1>6 DEF Picked
<1>8. T \in SUBSET (1..Len(qs)) /\ \A n \in 1..Len(qs) : n \in T <=> h[n] \in V
  <2>1. \A n \in 1..Len(qs) : h[n] \in K /\ h[n] \in DOMAIN book
    BY <1>7
  <2>. HIDE DEF qs
  <2>. QED BY <1>7, <2>1 DEF InView
<1>9. V \in SUBSET K
  BY DEF InView
<1>10. BothSides(qs) = Among(qs, T)
  BY DEF BothSides
<1>11. PICK k : Picked(BothSides(qs), book, V, k)
  <2>1. K \in SUBSET Int
    BY <1>3
  <2>. HIDE DEF T, K, qs, book, V
  <2>2. \E k : Picked(Among(qs, T), book, V, k)
    BY <2>1, <1>6, <1>8, <1>9, PickedPart
  <2>. QED BY <1>10, <2>2
<1>12. /\ V \in SUBSET Int
       /\ \A i \in V : book[i].at \in Int /\ Mid2(book[i], LgDollar) \in Int
       /\ \A i, j \in V : i < j => book[i].at <= book[j].at
  BY LeadTape DEF InView
<1>13. HasMids(BothSides(qs))
  <2>. HIDE DEF qs, V, book
  <2>1. Arrivals(BothSides(qs))
    BY <1>11, <1>12, PickedArrive
  <2>2. \A n \in 1..Len(BothSides(qs)) : BothSides(qs)[n] = book[k[n]] /\ k[n] \in V
    BY <1>11 DEF Picked
  <2>. QED BY <1>12, <2>1, <2>2 DEF HasMids
<1>. QED BY <1>11, <1>13

HalfMedian(S, inside) == TwiceMedianOf(S, LAMBDA i : FromHalf(inside[i]))

LEMMA MedianFromHalf ==
    ASSUME NEW S, IsFiniteSet(S), S # {}, NEW inside, \A i \in S : FromHalf(inside[i]) \in Int
    PROVE  HalfMedian(S, inside) \in Int
<1>. DEFINE n == Cardinality(S)
            f == [i \in S |-> FromHalf(inside[i])]
            ranked(k) ==
                FromHalf(inside[CHOOSE x \in S :
                    /\ Cardinality({y \in S : FromHalf(inside[y]) < FromHalf(inside[x])}) < k
                    /\ Cardinality({y \in S : FromHalf(inside[y]) <= FromHalf(inside[x])}) >= k])
<1>1. n \in Nat /\ n > 0
  BY FS_CardinalityType, FS_EmptySet
<1>2. ASSUME NEW k \in 1..n PROVE ranked(k) \in Int
  <2>1. PICK x \in S : HasRank(S, f, k, x)
    <3>1. \A x \in S : f[x] \in Int
      OBVIOUS
    <3>. HIDE DEF f
    <3>. QED BY <3>1, <1>2, RankIsMet
  <2>2. /\ {y \in S : f[y] < f[x]} = {y \in S : FromHalf(inside[y]) < FromHalf(inside[x])}
        /\ {y \in S : f[y] <= f[x]} = {y \in S : FromHalf(inside[y]) <= FromHalf(inside[x])}
    OBVIOUS
  <2>3. \E z \in S : /\ Cardinality({y \in S : FromHalf(inside[y]) < FromHalf(inside[z])}) < k
                     /\ Cardinality({y \in S : FromHalf(inside[y]) <= FromHalf(inside[z])}) >= k
    BY <2>1, <2>2 DEF HasRank
  <2>. QED BY <2>3
<1>3. HalfMedian(S, inside) = ranked((n + 1) \div 2) + ranked(n \div 2 + 1)
  BY DEF HalfMedian, TwiceMedianOf
<1>4. (n + 1) \div 2 \in 1..n /\ n \div 2 + 1 \in 1..n
  <2>. HIDE DEF n
  <2>. QED BY <1>1, MiddleRanks
<1>. HIDE DEF ranked, n
<1>5. ranked((n + 1) \div 2) \in Int /\ ranked(n \div 2 + 1) \in Int
  BY <1>2, <1>4
<1>. QED BY <1>3, <1>5

\* The leg that is watched on a day is one of the day's, and no other is.
WatchedIs(d, x) ==
    /\ x.day = d /\ x.rows = RowsWatched(d, x.leg) /\ x.leg \in DOMAIN LgLegs
    /\ LgLegs[x.leg].city = d[1] /\ LgLegs[x.leg].date = d[2]

Picks(d) == WatchedLeg(d, RowsOfDay(d))

LEMMA OneLegIsWatched ==
    ASSUME lgJob \in LgJobs, NEW d \in DOMAIN LgDays
    PROVE  /\ \A x \in Picks(d) : WatchedIs(d, x)
           /\ \A x, y \in Picks(d) : x = y
<1>. DEFINE inside    == InDay(d, RowsOfDay(d))
            of(l)     == {i \in DOMAIN inside : inside[i].leg = l /\ TwoBids(inside[i])}
            legs      == {l \in DOMAIN LgLegs : of(l) # {}}
            median(l) == TwiceMedianOf(of(l), LAMBDA i : FromHalf(inside[i]))
            nearest   == {[leg |-> l, off |-> median(l)] : l \in legs}
            best      == {y \in nearest : \A z \in nearest : y.off < z.off
                                             \/ (y.off = z.off /\ LgOrder[y.leg] <= LgOrder[z.leg])}
            P         == Picks(d)
<1>1. P = {[day |-> d, leg |-> x.leg, rows |-> RowsWatched(d, x.leg)] : x \in best}
  BY DEF Picks, WatchedLeg, RowsWatched
<1>2. PICK g : Picked(inside, lgJob.book, {i \in DOMAIN lgJob.book : OnDay(d, i)}, g)
  BY DayIs
<1>3. /\ Len(inside) \in Nat /\ DOMAIN inside = 1..Len(inside)
      /\ \A n \in 1..Len(inside) : OnDay(d, g[n]) /\ g[n] \in DOMAIN lgJob.book /\ inside[n] = lgJob.book[g[n]]
  BY <1>2 DEF Picked
<1>4. ASSUME NEW l \in legs
      PROVE  median(l) \in Int /\ LgLegs[l].city = d[1] /\ LgLegs[l].date = d[2]
  <2>. DEFINE S == of(l)
  <2>1. S # {} /\ S \in SUBSET (1..Len(inside)) /\ \A i \in S : inside[i].leg = l
    <3>. HIDE DEF inside
    <3>. QED BY <1>3
  <2>. HIDE DEF inside, S
  <2>2. IsFiniteSet(S)
    <3>1. 1 \in Int /\ Len(inside) \in Int
      BY <1>3
    <3>2. IsFiniteSet(1..Len(inside))
      BY <3>1, FS_Interval
    <3>. QED BY <2>1, <3>2, FS_Subset
  <2>3. \A i \in S : FromHalf(inside[i]) \in Int
    <3>. TAKE i \in S
    <3>1. i \in 1..Len(inside)
      BY <2>1
    <3>2. g[i] \in DOMAIN lgJob.book /\ inside[i] = lgJob.book[g[i]]
      BY <1>3, <3>1
    <3>3. FromHalf(lgJob.book[g[i]]) \in Int
      BY <3>2, LeadTape
    <3>. QED BY <3>2, <3>3
  <2>4. HalfMedian(S, inside) \in Int
    BY <2>1, <2>2, <2>3, MedianFromHalf
  <2>5. LgLegs[l].city = d[1] /\ LgLegs[l].date = d[2]
    <3>1. PICK i \in S : TRUE
      BY <2>1
    <3>2. i \in 1..Len(inside) /\ inside[i].leg = l
      BY <2>1
    <3>3. OnDay(d, g[i]) /\ lgJob.book[g[i]].leg = l
      BY <1>3, <3>2
    <3>. QED BY <3>3 DEF OnDay
  <2>6. median(l) \in Int
    BY <2>4 DEF S, HalfMedian
  <2>. QED BY <2>5, <2>6
<1>. HIDE DEF median, of, inside
<1>5. ASSUME NEW x \in P PROVE WatchedIs(d, x)
  <2>1. PICK b \in best : x = [day |-> d, leg |-> b.leg, rows |-> RowsWatched(d, b.leg)]
    BY <1>1
  <2>2. b.leg \in legs
    OBVIOUS
  <2>3. b.leg \in DOMAIN LgLegs
    BY <2>2
  <2>. HIDE DEF best, legs
  <2>. QED BY <1>4, <2>1, <2>2, <2>3 DEF WatchedIs
<1>6. ASSUME NEW x \in best, NEW y \in best PROVE x.leg = y.leg
  <2>1. x \in nearest /\ y \in nearest
    OBVIOUS
  <2>2. /\ x.off < y.off \/ (x.off = y.off /\ LgOrder[x.leg] <= LgOrder[y.leg])
        /\ y.off < x.off \/ (y.off = x.off /\ LgOrder[y.leg] <= LgOrder[x.leg])
    OBVIOUS
  <2>. HIDE DEF best
  <2>3. x.leg \in legs /\ y.leg \in legs /\ x.off = median(x.leg) /\ y.off = median(y.leg)
    BY <2>1
  <2>4. x.leg \in DOMAIN LgLegs /\ y.leg \in DOMAIN LgLegs
    BY <2>3
  <2>. HIDE DEF legs, nearest
  <2>5. x.off \in Int /\ y.off \in Int
    BY <1>4, <2>3
  <2>6. LgOrder[x.leg] \in Int /\ LgOrder[y.leg] \in Int
    BY <2>4, LeadAssumption
  <2>7. LgOrder[x.leg] = LgOrder[y.leg]
    BY <2>2, <2>5, <2>6
  <2>. QED BY <2>4, <2>7, LeadAssumption
<1>7. \A x, y \in P : x = y
  <2>. HIDE DEF best, P
  <2>. QED BY <1>1, <1>6
<1>. QED BY <1>5, <1>7 DEF P

-----------------------------------------------------------------------------
(***************************************************************************)
(* The lead-lag study: an episode                                          *)
(***************************************************************************)

\* The rows of the leg that was watched on a day.
Reads(d) == RowsWatched(d, lgWatched[d])

WatchedDays ==
    \A d \in DOMAIN lgWatched :
        /\ d \in DOMAIN LgDays /\ d[2] \notin Range(lgLeft)
        /\ \E x \in Picks(d) : x.leg = lgWatched[d]

\* An episode of a reading: found in what was read of the two days, and kept.
LeaderDay(e) == <<e.leader, e.date>>

FollowerDay(e) == <<e.follower, e.date>>

Leads(e, r) ==
    /\ e.pair \in Pairs
    /\ LeaderDay(e) \in DOMAIN lgWatched /\ FollowerDay(e) \in DOMAIN lgWatched
    /\ e \in EpisodesOfPair(e.pair, r, e.date, Reads(LeaderDay(e)), Reads(FollowerDay(e)))
    /\ Range(FatesOf(e)) = {"kept"}

\* What was read of a day that was watched.
LEMMA ReadsAre ==
    ASSUME lgJob \in LgJobs, WatchedDays, NEW d \in DOMAIN lgWatched
    PROVE  /\ d \in DOMAIN LgDays /\ LgDays[d].start \in Int /\ LgDays[d].end \in Int
           /\ LgLegs[lgWatched[d]].city = d[1] /\ LgLegs[lgWatched[d]].date = d[2]
           /\ \E g : Picked(BothSides(Reads(d)), lgJob.book, InView(d, lgWatched[d]), g)
           /\ HasMids(BothSides(Reads(d)))
           /\ ApartFrom(BothSides(Reads(d)), Crossings(Reads(d)), 1)
<1>1. d \in DOMAIN LgDays /\ \E x \in Picks(d) : x.leg = lgWatched[d]
  BY DEF WatchedDays
<1>2. PICK x \in Picks(d) : x.leg = lgWatched[d]
  BY <1>1
<1>3. WatchedIs(d, x)
  BY <1>1, OneLegIsWatched
<1>4. LgLegs[lgWatched[d]].city = d[1] /\ LgLegs[lgWatched[d]].date = d[2]
  BY <1>2, <1>3 DEF WatchedIs
<1>5. /\ \E g : Picked(BothSides(RowsWatched(d, lgWatched[d])), lgJob.book, InView(d, lgWatched[d]), g)
      /\ HasMids(BothSides(RowsWatched(d, lgWatched[d])))
  BY <1>1, ViewIs
<1>6. /\ \E g : Picked(BothSides(Reads(d)), lgJob.book, InView(d, lgWatched[d]), g)
      /\ HasMids(BothSides(Reads(d)))
  BY <1>5 DEF Reads
<1>7. ApartFrom(BothSides(Reads(d)), Crossings(Reads(d)), 1)
  BY <1>6, CrossingsAre
<1>. QED BY <1>1, <1>4, <1>6, <1>7, LeadAssumption

\* What an episode was found from.
LEMMA LeadIs ==
    ASSUME lgJob \in LgJobs, WatchedDays, NEW r, NEW e, Leads(e, r)
    PROVE  \E c \in Crossings(Reads(LeaderDay(e))) :
              /\ e.answer \in Answered(Reads(FollowerDay(e)), c)
              /\ e = LeadOf(e.pair, r, e.date, c, e.answer)
              /\ \E i, k : FoundAt(BothSides(Reads(LeaderDay(e))), c, i, k)
              /\ c.cross \in Int /\ c.deadline \in Int
              /\ AnswerIs(BothSides(Reads(FollowerDay(e))), c, e.answer)
<1>. DEFINE L == Reads(LeaderDay(e))
            F == Reads(FollowerDay(e))
<1>1. /\ LeaderDay(e) \in DOMAIN lgWatched /\ FollowerDay(e) \in DOMAIN lgWatched
      /\ e \in EpisodesOfPair(e.pair, r, e.date, L, F)
  BY DEF Leads
<1>2. ApartFrom(BothSides(L), Crossings(L), 1) /\ HasMids(BothSides(F))
  BY <1>1, ReadsAre
<1>. HIDE DEF L, F
<1>3. PICK c \in Crossings(L) : \E at \in Answered(F, c) : e = LeadOf(e.pair, r, e.date, c, at)
  BY <1>1, PairEpisodes
<1>4. PICK at \in Answered(F, c) : e = LeadOf(e.pair, r, e.date, c, at)
  BY <1>3
<1>5. e.answer = at
  BY <1>4 DEF LeadOf
<1>6. PICK i, k : FoundAt(BothSides(L), c, i, k)
  BY <1>2 DEF ApartFrom
<1>7. c.cross \in Int /\ c.deadline \in Int
  <2>1. c.cross \in Int /\ c.anchor \in Int /\ c.deadline = c.anchor + LgWindow
    BY <1>6 DEF FoundAt
  <2>. QED BY <2>1, LeadAssumption
<1>8. AnswerIs(BothSides(F), c, at)
  BY <1>2, <1>7, AnswersAre
<1>. QED BY <1>4, <1>5, <1>6, <1>7, <1>8 DEF L, F

LEMMA LeadIsNumber ==
    ASSUME lgJob \in LgJobs, WatchedDays, NEW r, NEW e, Leads(e, r)
    PROVE  e.lead \in Int
<1>1. PICK c : /\ e = LeadOf(e.pair, r, e.date, c, e.answer) /\ c.cross \in Int
               /\ AnswerIs(BothSides(Reads(FollowerDay(e))), c, e.answer)
  BY LeadIs
<1>2. e.answer \in Int
  BY <1>1 DEF AnswerIs
<1>3. e.lead = e.answer - c.cross
  BY <1>1 DEF LeadOf
<1>. QED BY <1>1, <1>2, <1>3

\* Its span lies in both days, and meets no exclusion.
LEMMA LeadIsKept ==
    ASSUME NEW e, Range(FatesOf(e)) = {"kept"}, NEW city \in {e.leader, e.follower}
    PROVE  /\ LgDays[<<city, e.date>>].start <= e.anchor /\ e.answer <= LgDays[<<city, e.date>>].end
           /\ ~Meets(LgMerged, e.anchor, e.answer)
<1>1. FatesOf(e)[city] = Screen(LgDays[<<city, e.date>>], LgMerged, e.anchor, e.answer)
      /\ city \in DOMAIN FatesOf(e)
  BY DEF FatesOf
<1>2. FatesOf(e)[city] = "kept"
  BY <1>1 DEF Range
<1>3. Screen(LgDays[<<city, e.date>>], LgMerged, e.anchor, e.answer) = "kept"
  BY <1>1, <1>2
<1>4. e.anchor >= LgDays[<<city, e.date>>].start /\ e.answer <= LgDays[<<city, e.date>>].end
  BY <1>3 DEF Screen
<1>5. ~Meets(LgMerged, e.anchor, e.answer)
  BY <1>3, <1>4 DEF Screen
<1>. QED BY <1>4, <1>5

\* The quote that the property reads off the tape is the one that was read.
LEMMA StoodIs ==
    ASSUME lgJob \in LgJobs, WatchedDays, NEW d \in DOMAIN lgWatched, NEW at \in Int, at <= LgDays[d].end,
           InForce(BothSides(Reads(d)), at) > 0
    PROVE  QuoteAt(lgWatched[d], d, at)
           = Mid2(BothSides(Reads(d))[InForce(BothSides(Reads(d)), at)], LgDollar)
<1>. DEFINE book == lgJob.book
            leg == lgWatched[d]
            s == BothSides(Reads(d))
            I == InView(d, leg)
            J == {i \in DOMAIN book : /\ book[i].leg = leg /\ TwoBids(book[i])
                                      /\ book[i].at >= LgDays[d].start}
            q == Among(book, J)
<1>1. /\ d \in DOMAIN LgDays /\ LgDays[d].start \in Int /\ LgDays[d].end \in Int
      /\ LgLegs[leg].city = d[1] /\ LgLegs[leg].date = d[2]
      /\ \E g : Picked(s, book, I, g)
      /\ HasMids(s)
  BY ReadsAre
<1>2. PICK g : Picked(s, book, I, g)
  BY <1>1
<1>3. /\ Len(book) \in Nat /\ DOMAIN book = 1..Len(book)
      /\ \A i \in DOMAIN book : i \in Int /\ book[i].at \in Int
      /\ \A i, k \in DOMAIN book : i < k /\ book[i].leg = book[k].leg => book[i].at <= book[k].at
  BY LeadTape
<1>4. /\ J \in SUBSET Int /\ I \in SUBSET Int
      /\ \A i \in J : book[i].at \in Int
      /\ \A i, k \in J : i < k => book[i].at <= book[k].at
  <2>. HIDE DEF book
  <2>1. J \in SUBSET DOMAIN book
    OBVIOUS
  <2>2. I \in SUBSET DOMAIN book
    BY DEF InView, book
  <2>. QED BY <1>3, <2>1, <2>2
<1>5. IsFiniteSet(J)
  <2>1. 1 \in Int /\ Len(book) \in Int
    BY <1>3
  <2>2. IsFiniteSet(1..Len(book))
    BY <2>1, FS_Interval
  <2>3. J \in SUBSET (1..Len(book))
    BY <1>3
  <2>. HIDE DEF J
  <2>. QED BY <2>2, <2>3, FS_Subset
<1>6. I \subseteq J
  BY <1>1, <1>3 DEF InView, OnDay
<1>7. ASSUME NEW j \in J, book[j].at <= LgDays[d].end PROVE j \in I
  <2>1. j \in DOMAIN book /\ book[j].leg = leg /\ TwoBids(book[j]) /\ book[j].at \in Int
    BY <1>3
  <2>2. LgDays[d].start <= book[j].at
    BY <1>1, <2>1
  <2>. QED BY <1>1, <1>7, <2>1, <2>2 DEF InView, OnDay
<1>8. QuoteAt(leg, d, at) = Mid2(q[InForce(q, at)], LgDollar)
  BY DEF QuoteAt
<1>. HIDE DEF I, J
<1>9. PICK h : Picked(q, book, J, h)
  <2>. HIDE DEF q, book
  <2>. QED BY <1>4, <1>5, AmongIs DEF q
<1>. HIDE DEF q, s, book
<1>10. Arrivals(q)
  BY <1>4, <1>9, PickedArrive
<1>11. Arrivals(s)
  BY <1>1 DEF HasMids
<1>12. InForce(s, at) > 0
  BY DEF s
<1>13. CutAt(book, I, J, LgDays[d].end)
  BY <1>6, <1>7 DEF CutAt
<1>. HIDE DEF leg
<1>14. PICK end \in Int : end = LgDays[d].end
  BY <1>1
<1>15. at <= end /\ CutAt(book, I, J, end)
  BY <1>13, <1>14
<1>16. CutOff(book, I, s, g, J, q, h, end)
  BY <1>2, <1>4, <1>9, <1>10, <1>11, <1>15 DEF CutOff
<1>17. q[InForce(q, at)] = s[InForce(s, at)]
  BY <1>12, <1>15, <1>16, SameRowInForce
<1>18. QuoteAt(leg, d, at) = Mid2(s[InForce(s, at)], LgDollar)
  BY <1>8, <1>17
<1>. QED BY <1>18 DEF leg, s

LEMMA AnswerComes ==
    ASSUME lgJob \in LgJobs, WatchedDays, NEW r, NEW e, Leads(e, r)
    PROVE  ComesAfter(e)
<1>. DEFINE book == lgJob.book
            dL == LeaderDay(e)
            dF == FollowerDay(e)
            leader == lgWatched[dL]
            follower == lgWatched[dF]
            sL == BothSides(Reads(dL))
            sF == BothSides(Reads(dF))
            stood == QuoteAt(follower, dF, e.cross)
            rows == {x \in Range(book) : x.leg = follower /\ TwoBids(x) /\ x.at >= LgDays[dF].start}
            base == InForce(sF, e.cross)
<1>1. PICK c \in Crossings(Reads(dL)) :
         /\ e = LeadOf(e.pair, r, e.date, c, e.answer)
         /\ \E i, k : FoundAt(sL, c, i, k)
         /\ c.cross \in Int /\ c.deadline \in Int /\ AnswerIs(sF, c, e.answer)
  BY LeadIs
<1>2. e.anchor = c.anchor /\ e.cross = c.cross /\ e.direction = c.direction
  BY <1>1 DEF LeadOf
<1>3. PICK i, k : FoundAt(sL, c, i, k)
  BY <1>1
<1>4. dL \in DOMAIN lgWatched /\ dF \in DOMAIN lgWatched /\ Range(FatesOf(e)) = {"kept"}
  BY DEF Leads
<1>5. PICK gL : Picked(sL, book, InView(dL, leader), gL)
  BY <1>4, ReadsAre
<1>6. PICK gF : Picked(sF, book, InView(dF, follower), gF)
  BY <1>4, ReadsAre
<1>7. /\ dF \in DOMAIN LgDays /\ LgDays[dF].start \in Int /\ LgDays[dF].end \in Int
      /\ LgLegs[follower].city = dF[1] /\ LgLegs[follower].date = dF[2]
  BY <1>4, ReadsAre
<1>8. e.answer <= LgDays[dF].end
  BY <1>4, LeadIsKept DEF FollowerDay
<1>. HIDE DEF book, leader, follower, dL, dF, sL, sF
<1>9. /\ e.anchor \in Int /\ e.cross \in Int /\ e.answer \in Int /\ LgWindow \in Int
      /\ e.anchor <= e.cross /\ e.cross < e.answer /\ e.answer <= e.anchor + LgWindow
  <2>1. c.deadline = c.anchor + LgWindow /\ c.anchor \in Int /\ c.anchor <= c.cross
    BY <1>3 DEF FoundAt
  <2>2. c.cross < e.answer /\ e.answer <= c.deadline /\ e.answer \in Int
    BY <1>1 DEF AnswerIs
  <2>. QED BY <1>1, <1>2, <2>1, <2>2, LeadAssumption
<1>10. /\ base \in 1..Len(sF)
       /\ \E n \in 1..Len(sF) : sF[n].at = e.answer /\ Away(sF, base, n, e.direction)
       /\ \A n \in 1..Len(sF) : e.cross < sF[n].at /\ sF[n].at < e.answer => ~Away(sF, base, n, e.direction)
  BY <1>1, <1>2 DEF AnswerIs
<1>11. stood = Mid2(sF[base], LgDollar)
  <2>1. e.cross <= LgDays[dF].end
    BY <1>7, <1>8, <1>9
  <2>2. InForce(sF, e.cross) > 0
    BY <1>10
  <2>. QED BY <1>4, <1>9, <2>1, <2>2, StoodIs DEF sF, follower
<1>. HIDE DEF stood, base
<1>12. /\ Len(sF) \in Nat /\ \A n \in 1..Len(sF) : sF[n] = book[gF[n]] /\ gF[n] \in InView(dF, follower)
       /\ \A m \in InView(dF, follower) : \E n \in 1..Len(sF) : gF[n] = m
  BY <1>6 DEF Picked
<1>13. \A m \in DOMAIN book : book[m] \in Range(book) /\ book[m].at \in Int
  BY LeadTape DEF Range, book
<1>14. \E x \in rows : x.at = e.answer /\ (Mid2(x, LgDollar) - stood) * e.direction >= LgBar
  <2>1. PICK n \in 1..Len(sF) : sF[n].at = e.answer /\ Away(sF, base, n, e.direction)
    BY <1>10
  <2>2. sF[n] = book[gF[n]] /\ gF[n] \in InView(dF, follower)
    BY <1>12
  <2>3. sF[n] \in rows
    BY <1>7, <1>13, <2>2 DEF InView, OnDay, book
  <2>. QED BY <1>11, <2>1, <2>3 DEF Away
<1>15. ASSUME NEW x \in rows, e.cross < x.at, x.at < e.answer
       PROVE  ~((Mid2(x, LgDollar) - stood) * e.direction >= LgBar)
  <2>1. PICK m \in DOMAIN book : x = book[m]
    BY DEF Range
  <2>2. x.at \in Int /\ x.at <= LgDays[dF].end
    BY <1>7, <1>8, <1>9, <1>13, <1>15, <2>1
  <2>3. m \in InView(dF, follower)
    BY <1>7, <2>1, <2>2 DEF InView, OnDay, book
  <2>4. PICK n \in 1..Len(sF) : gF[n] = m
    BY <1>12, <2>3
  <2>5. sF[n] = x
    BY <1>12, <2>1, <2>4
  <2>6. ~Away(sF, base, n, e.direction)
    BY <1>10, <1>15, <2>5
  <2>. QED BY <1>11, <2>5, <2>6 DEF Away
<1>16. \E a, z \in {x \in Range(book) : x.leg = leader /\ TwoBids(x)} :
          /\ a.at = e.anchor /\ z.at = e.cross
          /\ (Mid2(z, LgDollar) - Mid2(a, LgDollar)) * e.direction >= LgBar
  <2>1. /\ i \in 1..Len(sL) /\ k \in 1..Len(sL) /\ c.anchor = sL[i].at /\ c.cross = sL[k].at
        /\ (Mid2(sL[k], LgDollar) - Mid2(sL[i], LgDollar)) * c.direction >= LgBar
    BY <1>3 DEF FoundAt
  <2>2. \A n \in 1..Len(sL) : sL[n] = book[gL[n]] /\ gL[n] \in InView(dL, leader)
    BY <1>5 DEF Picked
  <2>3. \A n \in 1..Len(sL) : sL[n] \in {x \in Range(book) : x.leg = leader /\ TwoBids(x)}
    BY <1>13, <2>2 DEF InView, OnDay, book
  <2>. QED BY <1>2, <2>1, <2>3
<1>. QED
  BY <1>9, <1>14, <1>15, <1>16
  DEF ComesAfter, book, leader, follower, dL, dF, stood, LeaderDay, FollowerDay

\* Two episodes of the same cities and date are one, or of moves that are apart.
LEMMA EpisodesApart ==
    ASSUME lgJob \in LgJobs, WatchedDays, NEW r, NEW e, NEW x, Leads(e, r), Leads(x, r),
           x.leader = e.leader, x.follower = e.follower, x.date = e.date
    PROVE  x = e \/ x.cross < e.anchor \/ e.cross < x.anchor
<1>. DEFINE dL == LeaderDay(e)
            dF == FollowerDay(e)
            L == Reads(dL)
            F == Reads(dF)
<1>1. PICK c \in Crossings(L) :
         /\ e.answer \in Answered(F, c) /\ e = LeadOf(e.pair, r, e.date, c, e.answer)
         /\ c.cross \in Int /\ c.deadline \in Int
  BY LeadIs
<1>2. LeaderDay(x) = dL /\ FollowerDay(x) = dF
  BY DEF LeaderDay, FollowerDay
<1>3. PICK y \in Crossings(L) :
         x.answer \in Answered(F, y) /\ x = LeadOf(x.pair, r, x.date, y, x.answer)
  <2>. HIDE DEF dL, dF
  <2>. QED BY <1>2, LeadIs
<1>4. HasMids(BothSides(F)) /\ ApartFrom(BothSides(L), Crossings(L), 1)
  <2>1. dL \in DOMAIN lgWatched /\ dF \in DOMAIN lgWatched
    BY DEF Leads
  <2>. HIDE DEF dL, dF
  <2>. QED BY <2>1, ReadsAre
<1>. HIDE DEF L, F, dL, dF
<1>5. x.cross = y.cross /\ x.anchor = y.anchor /\ e.cross = c.cross /\ e.anchor = c.anchor
  BY <1>1, <1>3 DEF LeadOf
<1>6. c = y \/ c.cross < y.anchor \/ y.cross < c.anchor
  BY <1>4 DEF ApartFrom
<1>7. ASSUME c = y PROVE x = e
  <2>1. x.answer = e.answer
    BY <1>1, <1>3, <1>4, <1>7, AnswersAre
  <2>2. x.pair = e.pair
    <3>1. e.pair \in Pairs /\ x.pair \in Pairs
      BY DEF Leads
    <3>2. /\ e.leader = IF r = "forward" THEN e.pair.upstream ELSE e.pair.downstream
          /\ e.follower = IF r = "forward" THEN e.pair.downstream ELSE e.pair.upstream
      BY <1>1 DEF LeadOf
    <3>3. /\ x.leader = IF r = "forward" THEN x.pair.upstream ELSE x.pair.downstream
          /\ x.follower = IF r = "forward" THEN x.pair.downstream ELSE x.pair.upstream
      BY <1>3 DEF LeadOf
    <3>4. e.pair.upstream = x.pair.upstream /\ e.pair.downstream = x.pair.downstream
      BY <3>2, <3>3
    <3>. QED BY <3>1, <3>4, PairAssumption
  <2>. QED BY <1>1, <1>3, <1>7, <2>1, <2>2
<1>. QED BY <1>5, <1>6, <1>7

-----------------------------------------------------------------------------
(***************************************************************************)
(* The lead-lag study: the median and its interval                         *)
(***************************************************************************)

\* The median of leads is a number, and so is that of a leg's quotes.
LeadMedian(S) == TwiceMedianOf(S, LAMBDA e : e.lead)

LEMMA MedianOfLeads ==
    ASSUME NEW S, IsFiniteSet(S), S # {}, \A e \in S : e.lead \in Int
    PROVE  LeadMedian(S) \in Int
<1>. DEFINE n == Cardinality(S)
            f == [e \in S |-> e.lead]
            ranked(k) == (CHOOSE x \in S : /\ Cardinality({y \in S : y.lead < x.lead}) < k
                                           /\ Cardinality({y \in S : y.lead <= x.lead}) >= k).lead
<1>1. n \in Nat /\ n > 0
  BY FS_CardinalityType, FS_EmptySet
<1>2. ASSUME NEW k \in 1..n PROVE ranked(k) \in Int
  <2>1. PICK x \in S : HasRank(S, f, k, x)
    <3>1. \A x \in S : f[x] \in Int
      OBVIOUS
    <3>. HIDE DEF f
    <3>. QED BY <3>1, <1>2, RankIsMet
  <2>2. /\ {y \in S : f[y] < f[x]} = {y \in S : y.lead < x.lead}
        /\ {y \in S : f[y] <= f[x]} = {y \in S : y.lead <= x.lead}
    OBVIOUS
  <2>3. \E z \in S : /\ Cardinality({y \in S : y.lead < z.lead}) < k
                     /\ Cardinality({y \in S : y.lead <= z.lead}) >= k
    BY <2>1, <2>2 DEF HasRank
  <2>. QED BY <2>3
<1>3. LeadMedian(S) = ranked((n + 1) \div 2) + ranked(n \div 2 + 1)
  BY DEF LeadMedian, TwiceMedianOf
<1>4. (n + 1) \div 2 \in 1..n /\ n \div 2 + 1 \in 1..n
  <2>. HIDE DEF n
  <2>. QED BY <1>1, MiddleRanks
<1>. HIDE DEF ranked, n
<1>5. ranked((n + 1) \div 2) \in Int /\ ranked(n \div 2 + 1) \in Int
  BY <1>2, <1>4
<1>. QED BY <1>3, <1>5

\* A number is nearest to another, and of equally near ones the least.
Nearest(leads, mid2, c) ==
    \A x \in leads : LET off(z) == IF 2 * z < mid2 THEN mid2 - 2 * z ELSE 2 * z - mid2
                     IN  off(c) < off(x) \/ (off(c) = off(x) /\ c <= x)

LEMMA NearestExists ==
    ASSUME NEW leads, IsFiniteSet(leads), leads \in SUBSET Int, leads # {}, NEW mid2 \in Int
    PROVE  \E c \in leads : Nearest(leads, mid2, c)
<1>. DEFINE off(z) == IF 2 * z < mid2 THEN mid2 - 2 * z ELSE 2 * z - mid2
            V == {off(z) : z \in leads}
<1>1. \A z \in leads : z \in Int /\ off(z) \in Nat
  OBVIOUS
<1>2. V # {} /\ V \in SUBSET Nat
  BY <1>1
<1>. HIDE DEF off
<1>3. PICK v \in V : \A w \in V : v <= w
  <2>. HIDE DEF V
  <2>1. Min(V) \in V /\ \A w \in V : Min(V) <= w
    BY <1>2, MinTakes
  <2>. QED BY <2>1
<1>. DEFINE N == {z \in leads : off(z) = v}
<1>4. N # {} /\ N \in SUBSET leads
  OBVIOUS
<1>. HIDE DEF N
<1>5. IsFiniteSet(N) /\ N \in SUBSET Int
  BY <1>4, FS_Subset
<1>6. PICK c \in N : \A z \in N : c <= z
  BY <1>4, <1>5, MinOfFinite
<1>7. c \in leads /\ off(c) = v
  BY DEF N
<1>8. ASSUME NEW x \in leads PROVE off(c) < off(x) \/ (off(c) = off(x) /\ c <= x)
  <2>1. off(x) \in V /\ off(x) \in Nat /\ v \in Nat /\ v <= off(x)
    BY <1>1, <1>2, <1>3
  <2>2. off(x) = v => c <= x
    BY <1>6 DEF N
  <2>. QED BY <1>7, <2>1, <2>2
<1>9. Nearest(leads, mid2, c)
  BY <1>8 DEF Nearest, off
<1>. QED BY <1>7, <1>9

\* A number no farther away has no greater a square of its distance.
LEMMA SquaresFollow ==
    ASSUME NEW p \in Nat, NEW q \in Nat, p <= q
    PROVE  p * p <= q * q
<1>1. p * p <= p * q
  OBVIOUS
<1>2. p * q <= q * q
  OBVIOUS
<1>3. p * p \in Nat /\ p * q \in Nat /\ q * q \in Nat
  OBVIOUS
<1>. QED BY <1>1, <1>2, <1>3

LEMMA NearestSquares ==
    ASSUME NEW leads \in SUBSET Int, NEW mid2 \in Int, NEW c \in leads, Nearest(leads, mid2, c), NEW x \in leads
    PROVE  (2 * c - mid2) * (2 * c - mid2) <= (2 * x - mid2) * (2 * x - mid2)
<1>. DEFINE off(z) == IF 2 * z < mid2 THEN mid2 - 2 * z ELSE 2 * z - mid2
<1>1. \A z \in Int : off(z) \in Nat /\ off(z) * off(z) = (2 * z - mid2) * (2 * z - mid2)
  <2>. TAKE z \in Int
  <2>. DEFINE w == 2 * z - mid2
  <2>1. w \in Int /\ off(z) = IF w < 0 THEN -w ELSE w
    OBVIOUS
  <2>. HIDE DEF w, off
  <2>2. (-w) * (-w) = w * w
    BY <2>1
  <2>3. off(z) \in Nat /\ off(z) * off(z) = w * w
    BY <2>1, <2>2
  <2>. QED BY <2>3 DEF w
<1>2. off(c) < off(x) \/ off(c) = off(x)
  BY DEF Nearest
<1>. HIDE DEF off
<1>3. c \in Int /\ x \in Int
  OBVIOUS
<1>4. off(c) <= off(x) /\ off(c) \in Nat /\ off(x) \in Nat
  BY <1>1, <1>2, <1>3
<1>5. off(c) * off(c) <= off(x) * off(x)
  BY <1>4, SquaresFollow
<1>. QED BY <1>1, <1>3, <1>5

\* Where a walk may end: on its own side of the lead that it sets out from.
WalksFrom(S, start) ==
    /\ start \in {e.lead : e \in S} /\ Nearest({e.lead : e \in S}, LeadMedian(S), start)
    /\ \A low \in Walked(S, TRUE) : low = NOBOUND \/ (low \in {e.lead : e \in S} /\ low <= start)
    /\ \A high \in Walked(S, FALSE) : high = NOBOUND \/ (high \in {e.lead : e \in S} /\ start <= high)

LEMMA WalkedFrom ==
    ASSUME NEW S, IsFiniteSet(S), S # {}, \A e \in S : e.lead \in Int
    PROVE  \E start : WalksFrom(S, start)
<1>. DEFINE leads == {e.lead : e \in S}
            mid2 == LeadMedian(S)
            off(c) == IF 2 * c < mid2 THEN mid2 - 2 * c ELSE 2 * c - mid2
            start == CHOOSE c \in leads : \A x \in leads : off(c) < off(x) \/ (off(c) = off(x) /\ c <= x)
            upTo(down, c) == {x \in leads : IF down THEN c <= x /\ x <= start ELSE start <= x /\ x <= c}
<1>1. mid2 \in Int
  BY MedianOfLeads
<1>2. leads \in SUBSET Int /\ leads # {}
  OBVIOUS
<1>3. IsFiniteSet(leads)
  <2>. DEFINE f == [e \in S |-> e.lead]
  <2>1. leads = {f[e] : e \in S} /\ DOMAIN f = S
    OBVIOUS
  <2>. HIDE DEF leads, f
  <2>. QED BY <2>1, ImageIsFinite
<1>4. /\ Walked(S, TRUE) = {NOBOUND} \cup
             {c \in leads : start \in upTo(TRUE, c) /\ \A x \in upTo(TRUE, c) : Testable(S, x)}
      /\ Walked(S, FALSE) = {NOBOUND} \cup
             {c \in leads : start \in upTo(FALSE, c) /\ \A x \in upTo(FALSE, c) : Testable(S, x)}
  BY DEF Walked, LeadMedian
<1>5. \E c \in leads : \A x \in leads : off(c) < off(x) \/ (off(c) = off(x) /\ c <= x)
  <2>. HIDE DEF leads, mid2
  <2>1. PICK c \in leads : Nearest(leads, mid2, c)
    BY <1>1, <1>2, <1>3, NearestExists
  <2>. QED BY <2>1 DEF Nearest
<1>6. /\ start \in leads
      /\ \A x \in leads : off(start) < off(x) \/ (off(start) = off(x) /\ start <= x)
  <2>. HIDE DEF leads, off
  <2>. QED BY <1>5
<1>7. /\ \A low \in Walked(S, TRUE) : low = NOBOUND \/ (low \in leads /\ low <= start)
      /\ \A high \in Walked(S, FALSE) : high = NOBOUND \/ (high \in leads /\ start <= high)
  <2>. HIDE DEF leads, start
  <2>. QED BY <1>4
<1>. HIDE DEF start
<1>8. Nearest(leads, mid2, start)
  BY <1>6 DEF Nearest
<1>9. WalksFrom(S, start)
  BY <1>6, <1>7, <1>8 DEF WalksFrom
<1>. QED BY <1>9

\* What a readout says of the leads of a reading.
ReadsOut(x, S) ==
    x.median2 # NOBOUND =>
        x.median2 = LeadMedian(S) /\ x.low \in Walked(S, TRUE) /\ x.high \in Walked(S, FALSE)

LEMMA IntervalHolds ==
    ASSUME NEW S, IsFiniteSet(S), \A e \in S : e.lead \in Int, NEW x, ReadsOut(x, S)
    PROVE  HoldsItsMedian(x, S)
<1>. DEFINE near == {e \in S : \A f \in S : (2 * e.lead - x.median2) * (2 * e.lead - x.median2)
                                                <= (2 * f.lead - x.median2) * (2 * f.lead - x.median2)}
            leads == {e.lead : e \in S}
<1>. SUFFICES ASSUME x.median2 # NOBOUND
              PROVE  /\ x.low # NOBOUND => \E e \in near : x.low <= e.lead
                     /\ x.high # NOBOUND => \E e \in near : e.lead <= x.high
                     /\ x.low # NOBOUND /\ x.high # NOBOUND => x.low <= x.high
  BY DEF HoldsItsMedian
<1>1. x.median2 = LeadMedian(S) /\ x.low \in Walked(S, TRUE) /\ x.high \in Walked(S, FALSE)
  BY DEF ReadsOut
<1>2. CASE S = {}
  <2>1. leads = {}
    BY <1>2
  <2>2. Walked(S, TRUE) = {NOBOUND} /\ Walked(S, FALSE) = {NOBOUND}
    BY <2>1 DEF Walked
  <2>. QED BY <1>1, <2>2
<1>3. CASE S # {}
  <2>1. PICK start : WalksFrom(S, start)
    BY <1>3, WalkedFrom
  <2>2. /\ start \in leads /\ Nearest(leads, LeadMedian(S), start)
        /\ x.low = NOBOUND \/ (x.low \in leads /\ x.low <= start)
        /\ x.high = NOBOUND \/ (x.high \in leads /\ start <= x.high)
    BY <1>1, <2>1 DEF WalksFrom
  <2>3. leads \in SUBSET Int
    OBVIOUS
  <2>4. PICK e \in S : e.lead = start
    BY <2>2
  <2>5. LeadMedian(S) \in Int
    BY <1>3, MedianOfLeads
  <2>6. ASSUME NEW f \in S
        PROVE  (2 * e.lead - x.median2) * (2 * e.lead - x.median2)
                   <= (2 * f.lead - x.median2) * (2 * f.lead - x.median2)
    <3>1. f.lead \in leads /\ e.lead \in leads
      OBVIOUS
    <3>2. PICK z \in leads : z = f.lead
      BY <3>1
    <3>. HIDE DEF leads
    <3>3. (2 * start - LeadMedian(S)) * (2 * start - LeadMedian(S))
              <= (2 * z - LeadMedian(S)) * (2 * z - LeadMedian(S))
      BY <2>2, <2>3, <2>5, NearestSquares
    <3>. QED BY <1>1, <2>4, <3>2, <3>3
  <2>7. e \in near
    BY <2>6
  <2>8. start \in Int /\ x.low # NOBOUND => x.low \in Int
    BY <2>2, <2>3
  <2>9. x.high # NOBOUND => x.high \in Int
    BY <2>2, <2>3
  <2>. HIDE DEF near, leads
  <2>. QED BY <2>2, <2>3, <2>4, <2>7, <2>8, <2>9
<1>. QED BY <1>2, <1>3

-----------------------------------------------------------------------------
(***************************************************************************)
(* The lead-lag study, step by step                                        *)
(***************************************************************************)

\* What a sweep of a date watches, finds and keeps.
PickedOn(date) == UNION {Picks(d) : d \in {x \in DOMAIN LgDays : x[1] \in Paired /\ x[2] = date}}

BuiltOn(date) == {x.day[1] : x \in PickedOn(date)}

RowsOn(date, city) == (CHOOSE x \in PickedOn(date) : x.day[1] = city).rows

FoundOn(date, reading) ==
    UNION {EpisodesOfPair(p, reading, date,
               RowsOn(date, IF reading = "forward" THEN p.upstream ELSE p.downstream),
               RowsOn(date, IF reading = "forward" THEN p.downstream ELSE p.upstream)) :
           p \in {q \in Pairs : {q.upstream, q.downstream} \subseteq BuiltOn(date)}}

KeptOn(date, reading) == {e \in FoundOn(date, reading) : Range(FatesOf(e)) = {"kept"}}

EpisodesWith(date) == [r \in Readings |-> lgEpisodes[r] \cup KeptOn(date, r)]

WatchedWith(date) ==
    [d \in DOMAIN lgWatched \cup {x.day : x \in PickedOn(date)} |->
        IF d \in DOMAIN lgWatched THEN lgWatched[d] ELSE (CHOOSE x \in PickedOn(date) : x.day = d).leg]

LEMMA SweepDateIs ==
    ASSUME SweepDate
    PROVE  /\ lgPhase = "sweep" /\ lgLeft # <<>>
           /\ lgLeft' = Tail(lgLeft) /\ lgJob' = lgJob /\ lgReadouts' = lgReadouts
           /\ \/ lgEpisodes' = lgEpisodes /\ lgWatched' = lgWatched
              \/ lgEpisodes' = EpisodesWith(Head(lgLeft)) /\ lgWatched' = WatchedWith(Head(lgLeft))
<1>. DEFINE date   == Head(lgLeft)
            days   == {d \in DOMAIN LgDays : d[1] \in Paired /\ d[2] = date}
            read   == {[day |-> d, rows |-> RowsOfDay(d)] : d \in days}
            picked == UNION {WatchedLeg(r.day, r.rows) : r \in read}
            rowsOf(city) == (CHOOSE x \in picked : x.day[1] = city).rows
            built  == {x.day[1] : x \in picked}
            found(reading) ==
                UNION {EpisodesOfPair(p, reading, date,
                           rowsOf(IF reading = "forward" THEN p.upstream ELSE p.downstream),
                           rowsOf(IF reading = "forward" THEN p.downstream ELSE p.upstream)) :
                       p \in {q \in Pairs : {q.upstream, q.downstream} \subseteq built}}
            judged == [reading \in Readings |-> {[e |-> e, fates |-> FatesOf(e)] : e \in found(reading)}]
            kept   == [reading \in Readings |->
                          {j.e : j \in {x \in judged[reading] : Range(x.fates) = {"kept"}}}]
            watched == [d \in DOMAIN lgWatched \cup {x.day : x \in picked} |->
                           IF d \in DOMAIN lgWatched THEN lgWatched[d]
                           ELSE (CHOOSE x \in picked : x.day = d).leg]
<1>1. /\ lgPhase = "sweep" /\ lgLeft # <<>>
      /\ lgLeft' = Tail(lgLeft) /\ lgJob' = lgJob /\ lgReadouts' = lgReadouts
  BY Zenon DEF SweepDate
<1>2. \/ lgEpisodes' = lgEpisodes /\ lgWatched' = lgWatched
      \/ lgEpisodes' = [r \in Readings |-> lgEpisodes[r] \cup kept[r]] /\ lgWatched' = watched
  BY Zenon DEF SweepDate
<1>3. picked = PickedOn(date)
  <2>1. \A r \in read : r.day \in days /\ WatchedLeg(r.day, r.rows) = Picks(r.day)
    BY DEF Picks
  <2>2. ASSUME NEW d \in days PROVE \E r \in read : WatchedLeg(r.day, r.rows) = Picks(d)
    <3>1. [day |-> d, rows |-> RowsOfDay(d)] \in read
      OBVIOUS
    <3>. QED BY <3>1 DEF Picks
  <2>. HIDE DEF read, days
  <2>3. picked = UNION {Picks(d) : d \in days}
    BY <2>1, <2>2
  <2>. QED BY <2>3 DEF PickedOn, days
<1>. HIDE DEF picked
<1>4. watched = WatchedWith(date)
  BY <1>3 DEF WatchedWith
<1>5. \A r : found(r) = FoundOn(date, r)
  BY <1>3 DEF FoundOn, RowsOn, BuiltOn
<1>. HIDE DEF found, watched
<1>6. ASSUME NEW r \in Readings PROVE kept[r] = KeptOn(date, r)
  <2>1. judged[r] = {[e |-> e, fates |-> FatesOf(e)] : e \in FoundOn(date, r)}
    BY <1>5
  <2>. HIDE DEF judged
  <2>2. kept[r] = {j.e : j \in {x \in judged[r] : Range(x.fates) = {"kept"}}}
    OBVIOUS
  <2>3. \A j \in judged[r] : j.e \in FoundOn(date, r) /\ j.fates = FatesOf(j.e)
    BY <2>1
  <2>4. ASSUME NEW e \in FoundOn(date, r) PROVE \E j \in judged[r] : j.e = e /\ j.fates = FatesOf(e)
    <3>1. [e |-> e, fates |-> FatesOf(e)] \in judged[r]
      BY <2>1
    <3>. QED BY <3>1
  <2>. QED BY <2>2, <2>3, <2>4 DEF KeptOn
<1>. HIDE DEF kept
<1>7. [r \in Readings |-> lgEpisodes[r] \cup kept[r]] = EpisodesWith(date)
  BY <1>6 DEF EpisodesWith
<1>. QED BY <1>1, <1>2, <1>4, <1>7

\* What a sweep picks of a date is one leg of each of its days.
LEMMA PickedIs ==
    ASSUME lgJob \in LgJobs, NEW date
    PROVE  /\ \A x \in PickedOn(date) :
                 /\ x.day \in DOMAIN LgDays /\ x.day[2] = date /\ x.day = <<x.day[1], date>>
                 /\ x \in Picks(x.day) /\ x.rows = RowsWatched(x.day, x.leg)
           /\ \A x, y \in PickedOn(date) : x.day = y.day \/ x.day[1] = y.day[1] => x = y
<1>1. ASSUME NEW x \in PickedOn(date)
      PROVE  /\ x.day \in DOMAIN LgDays /\ x.day[2] = date /\ x.day = <<x.day[1], date>>
             /\ x \in Picks(x.day) /\ x.rows = RowsWatched(x.day, x.leg)
  <2>1. PICK d \in DOMAIN LgDays : d[2] = date /\ x \in Picks(d)
    BY DEF PickedOn
  <2>2. WatchedIs(d, x)
    BY <2>1, OneLegIsWatched
  <2>3. x.day = d /\ x.rows = RowsWatched(d, x.leg)
    BY <2>2 DEF WatchedIs
  <2>4. d = <<d[1], d[2]>>
    BY LeadAssumption
  <2>. QED BY <2>1, <2>3, <2>4
<1>2. ASSUME NEW x \in PickedOn(date), NEW y \in PickedOn(date), x.day = y.day \/ x.day[1] = y.day[1]
      PROVE  x = y
  <2>1. x.day = y.day
    BY <1>1, <1>2
  <2>. QED BY <1>1, <2>1, OneLegIsWatched
<1>. QED BY <1>1, <1>2

\* What was found on a date was found in the rows of two days that are watched.
LEMMA FoundIs ==
    ASSUME lgJob \in LgJobs, NEW date, NEW r, NEW e \in FoundOn(date, r)
    PROVE  /\ e.pair \in Pairs /\ e.date = date
           /\ \E x, y \in PickedOn(date) :
                 /\ x.day = LeaderDay(e) /\ y.day = FollowerDay(e)
                 /\ e \in EpisodesOfPair(e.pair, r, date, x.rows, y.rows)
<1>. DEFINE lead(p) == IF r = "forward" THEN p.upstream ELSE p.downstream
            follow(p) == IF r = "forward" THEN p.downstream ELSE p.upstream
<1>1. PICK p \in Pairs :
         /\ p.upstream \in BuiltOn(date) /\ p.downstream \in BuiltOn(date)
         /\ e \in EpisodesOfPair(p, r, date, RowsOn(date, lead(p)), RowsOn(date, follow(p)))
  BY DEF FoundOn
<1>2. PICK c, at : e = LeadOf(p, r, date, c, at)
  <2>. DEFINE L == RowsOn(date, lead(p))
              F == RowsOn(date, follow(p))
  <2>1. e \in EpisodesOfPair(p, r, date, L, F)
    BY <1>1
  <2>. HIDE DEF L, F
  <2>. QED BY <2>1, PairEpisodes
<1>3. e.pair = p /\ e.date = date /\ e.leader = lead(p) /\ e.follower = follow(p)
  BY <1>2 DEF LeadOf
<1>4. lead(p) \in BuiltOn(date) /\ follow(p) \in BuiltOn(date)
  BY <1>1
<1>. HIDE DEF lead, follow
<1>5. ASSUME NEW city \in BuiltOn(date)
      PROVE  \E x \in PickedOn(date) : x.day = <<city, date>> /\ RowsOn(date, city) = x.rows
  <2>. DEFINE x == CHOOSE y \in PickedOn(date) : y.day[1] = city
  <2>1. \E y \in PickedOn(date) : y.day[1] = city
    BY DEF BuiltOn
  <2>2. x \in PickedOn(date) /\ x.day[1] = city
    BY <2>1
  <2>3. RowsOn(date, city) = x.rows
    BY DEF RowsOn
  <2>. HIDE DEF x
  <2>4. x.day = <<city, date>>
    BY <2>2, PickedIs
  <2>. QED BY <2>2, <2>3, <2>4
<1>6. PICK x \in PickedOn(date) : x.day = <<lead(p), date>> /\ RowsOn(date, lead(p)) = x.rows
  BY <1>4, <1>5
<1>7. PICK y \in PickedOn(date) : y.day = <<follow(p), date>> /\ RowsOn(date, follow(p)) = y.rows
  BY <1>4, <1>5
<1>. QED BY <1>1, <1>3, <1>6, <1>7 DEF LeaderDay, FollowerDay

LEMMA KeptFinite ==
    ASSUME lgJob \in LgJobs, NEW date, NEW r
    PROVE  IsFiniteSet(KeptOn(date, r))
<1>. DEFINE lead(p) == IF r = "forward" THEN p.upstream ELSE p.downstream
            follow(p) == IF r = "forward" THEN p.downstream ELSE p.upstream
            P == {q \in Pairs : {q.upstream, q.downstream} \subseteq BuiltOn(date)}
            of == [p \in P |-> EpisodesOfPair(p, r, date, RowsOn(date, lead(p)), RowsOn(date, follow(p)))]
<1>1. FoundOn(date, r) = UNION {of[p] : p \in P}
  BY DEF FoundOn
<1>2. IsFiniteSet(P)
  BY PairsFinite, FS_Subset
<1>3. \A p \in P : lead(p) \in BuiltOn(date) /\ follow(p) \in BuiltOn(date)
  OBVIOUS
<1>. HIDE DEF P, lead, follow
<1>4. ASSUME NEW city \in BuiltOn(date) PROVE HasMids(BothSides(RowsOn(date, city)))
  <2>. DEFINE x == CHOOSE y \in PickedOn(date) : y.day[1] = city
  <2>1. \E y \in PickedOn(date) : y.day[1] = city
    BY DEF BuiltOn
  <2>2. x \in PickedOn(date)
    BY <2>1
  <2>3. RowsOn(date, city) = x.rows
    BY DEF RowsOn
  <2>. HIDE DEF x
  <2>4. x.day \in DOMAIN LgDays /\ x.rows = RowsWatched(x.day, x.leg)
    BY <2>2, PickedIs
  <2>. QED BY <2>3, <2>4, ViewIs
<1>5. \A p \in P : IsFiniteSet(of[p])
  BY <1>3, <1>4, EpisodesFinite
<1>6. IsFiniteSet({of[p] : p \in P})
  <2>1. DOMAIN of = P
    OBVIOUS
  <2>. HIDE DEF of
  <2>. QED BY <1>2, <2>1, ImageIsFinite
<1>. HIDE DEF of
<1>7. \A T \in {of[p] : p \in P} : IsFiniteSet(T)
  BY <1>5
<1>8. IsFiniteSet(FoundOn(date, r))
  BY <1>1, <1>6, <1>7, FS_UNION
<1>9. KeptOn(date, r) \in SUBSET FoundOn(date, r)
  BY DEF KeptOn
<1>. QED BY <1>8, <1>9, FS_Subset

LeadsFound ==
    /\ DOMAIN lgEpisodes = Readings
    /\ \A r \in Readings : IsFiniteSet(lgEpisodes[r]) /\ \A e \in lgEpisodes[r] : Leads(e, r)

LeadsRead ==
    /\ DOMAIN lgReadouts = Readings
    /\ \A r \in Readings :
          /\ DOMAIN lgReadouts[r] = {"days", "median2", "low", "high"}
          /\ ReadsOut(lgReadouts[r], lgEpisodes[r])
          /\ lgPhase = "sweep" => lgReadouts[r].median2 = NOBOUND

\* The inductive invariant: each date is swept once, a day keeps the leg that was
\* watched, every episode was found in what the days of its cities read, and a
\* readout is of the episodes that the sweeps left.
LeadInv == lgJob \in LgJobs /\ Distinct(lgLeft) /\ WatchedDays /\ LeadsFound /\ LeadsRead

LEMMA LeadsStart == LgInit => LeadInv
<1>. SUFFICES ASSUME NEW j \in LgJobs, LgStart(j) PROVE LeadInv
  BY DEF LgInit
<1>. DEFINE rank == [d \in LgDiscovery |-> d]
<1>1. /\ lgJob = j /\ lgLeft = Ordered(LgDiscovery, rank)
      /\ lgEpisodes = [r \in Readings |-> {}] /\ lgWatched = <<>>
      /\ lgReadouts = [r \in Readings |-> NoReadout]
  BY DEF LgStart
<1>2. Distinct(lgLeft)
  <2>1. /\ IsFiniteSet(LgDiscovery) /\ \A d \in LgDiscovery : rank[d] = d /\ d \in Int
    BY LeadAssumption
  <2>. HIDE DEF rank
  <2>. QED BY <1>1, <2>1, OrderedDistinct
<1>3. WatchedDays
  <2>1. DOMAIN lgWatched = {}
    BY <1>1
  <2>. QED BY <2>1 DEF WatchedDays
<1>4. LeadsFound
  BY <1>1, FS_EmptySet DEF LeadsFound
<1>5. LeadsRead
  BY <1>1 DEF LeadsRead, NoReadout, ReadsOut
<1>. QED BY <1>1, <1>2, <1>3, <1>4, <1>5 DEF LeadInv

LEMMA SweepDateKeeps ==
    ASSUME LeadInv, SweepDate
    PROVE  LeadInv'
<1>. DEFINE date == Head(lgLeft)
            days == {x.day : x \in PickedOn(date)}
<1>0. lgJob \in LgJobs /\ Distinct(lgLeft) /\ WatchedDays /\ LeadsFound /\ LeadsRead
  BY DEF LeadInv
<1>1. /\ lgPhase = "sweep" /\ lgLeft # <<>>
      /\ lgLeft' = Tail(lgLeft) /\ lgJob' = lgJob /\ lgReadouts' = lgReadouts
      /\ \/ lgEpisodes' = lgEpisodes /\ lgWatched' = lgWatched
         \/ lgEpisodes' = EpisodesWith(date) /\ lgWatched' = WatchedWith(date)
  BY SweepDateIs
<1>2. Distinct(lgLeft') /\ date \notin Range(lgLeft') /\ Range(lgLeft') \subseteq Range(lgLeft)
  BY <1>0, <1>1, DistinctTail
<1>3. \A d, l : RowsWatched(d, l)' = RowsWatched(d, l)
  BY <1>1 DEF RowsWatched, RowsOfDay
<1>4. \A d : Picks(d)' = Picks(d)
  BY <1>1 DEF Picks, RowsOfDay
<1>5. LeadsRead'
  <2>1. \A r \in Readings : lgReadouts[r].median2 = NOBOUND
    BY <1>0, <1>1 DEF LeadsRead
  <2>. QED BY <1>0, <1>1, <2>1 DEF LeadsRead, ReadsOut
<1>6. CASE lgEpisodes' = lgEpisodes /\ lgWatched' = lgWatched
  <2>1. \A d : Reads(d)' = Reads(d)
    BY <1>3, <1>6 DEF Reads
  <2>2. WatchedDays'
    BY <1>0, <1>2, <1>4, <1>6 DEF WatchedDays
  <2>3. LeadsFound'
    BY <1>0, <1>6, <2>1 DEF LeadsFound, Leads
  <2>. QED BY <1>0, <1>1, <1>2, <1>5, <2>2, <2>3 DEF LeadInv
<1>. HIDE DEF date
<1>7. CASE lgEpisodes' = EpisodesWith(date) /\ lgWatched' = WatchedWith(date)
  <2>1. /\ DOMAIN lgWatched' = DOMAIN lgWatched \cup days
        /\ \A d \in DOMAIN lgWatched : lgWatched'[d] = lgWatched[d]
    BY <1>7 DEF WatchedWith
  <2>2. \A d \in DOMAIN lgWatched : Reads(d)' = Reads(d)
    BY <1>3, <2>1 DEF Reads
  <2>3. ASSUME NEW x \in PickedOn(date)
        PROVE  /\ x.day \in DOMAIN lgWatched' /\ lgWatched'[x.day] = x.leg
               /\ x.day \in DOMAIN LgDays /\ x.day[2] = date /\ x \in Picks(x.day)
               /\ Reads(x.day)' = x.rows
    <3>1. /\ x.day \in DOMAIN LgDays /\ x.day[2] = date /\ x \in Picks(x.day)
          /\ x.rows = RowsWatched(x.day, x.leg)
      BY <1>0, PickedIs
    <3>2. x.day \in days /\ x.day \in DOMAIN lgWatched'
      BY <2>1
    <3>3. date \in Range(lgLeft)
      BY <1>0, <1>1 DEF Range, Distinct, date
    <3>4. x.day \notin DOMAIN lgWatched
      BY <1>0, <3>1, <3>3 DEF WatchedDays
    <3>5. lgWatched'[x.day] = (CHOOSE y \in PickedOn(date) : y.day = x.day).leg
      BY <1>7, <3>2, <3>4 DEF WatchedWith
    <3>6. (CHOOSE y \in PickedOn(date) : y.day = x.day) = x
      BY <1>0, PickedIs
    <3>. QED BY <1>3, <3>1, <3>2, <3>5, <3>6 DEF Reads
  <2>4. WatchedDays'
    <3>. SUFFICES ASSUME NEW d \in DOMAIN lgWatched'
                  PROVE  /\ d \in DOMAIN LgDays /\ d[2] \notin Range(lgLeft')
                         /\ \E x \in Picks(d)' : x.leg = lgWatched'[d]
      BY DEF WatchedDays
    <3>1. CASE d \in DOMAIN lgWatched
      BY <1>0, <1>2, <1>4, <2>1, <3>1 DEF WatchedDays
    <3>2. CASE d \in days
      <4>1. PICK x \in PickedOn(date) : d = x.day
        BY <3>2
      <4>. QED BY <1>2, <1>4, <2>3, <4>1
    <3>. QED BY <2>1, <3>1, <3>2
  <2>5. ASSUME NEW r \in Readings
        PROVE  IsFiniteSet(lgEpisodes'[r]) /\ \A e \in lgEpisodes'[r] : Leads(e, r)'
    <3>1. lgEpisodes'[r] = lgEpisodes[r] \cup KeptOn(date, r)
      BY <1>7 DEF EpisodesWith
    <3>2. IsFiniteSet(KeptOn(date, r))
      BY <1>0, KeptFinite
    <3>3. IsFiniteSet(lgEpisodes[r]) /\ \A e \in lgEpisodes[r] : Leads(e, r)
      BY <1>0 DEF LeadsFound
    <3>4. ASSUME NEW e \in lgEpisodes[r] PROVE Leads(e, r)'
      <4>1. Leads(e, r)
        BY <3>3
      <4>2. LeaderDay(e) \in DOMAIN lgWatched /\ FollowerDay(e) \in DOMAIN lgWatched
        BY <4>1 DEF Leads
      <4>3. LeaderDay(e) \in DOMAIN lgWatched' /\ FollowerDay(e) \in DOMAIN lgWatched'
        BY <2>1, <4>2
      <4>4. Reads(LeaderDay(e))' = Reads(LeaderDay(e)) /\ Reads(FollowerDay(e))' = Reads(FollowerDay(e))
        BY <2>2, <4>2
      <4>. QED BY <4>1, <4>3, <4>4 DEF Leads
    <3>5. ASSUME NEW e \in KeptOn(date, r) PROVE Leads(e, r)'
      <4>1. e \in FoundOn(date, r) /\ Range(FatesOf(e)) = {"kept"}
        BY DEF KeptOn
      <4>2. e.pair \in Pairs /\ e.date = date
        BY <1>0, <4>1, FoundIs
      <4>3. PICK x, y \in PickedOn(date) :
               /\ x.day = LeaderDay(e) /\ y.day = FollowerDay(e)
               /\ e \in EpisodesOfPair(e.pair, r, date, x.rows, y.rows)
        BY <1>0, <4>1, FoundIs
      <4>4. /\ LeaderDay(e) \in DOMAIN lgWatched' /\ FollowerDay(e) \in DOMAIN lgWatched'
            /\ Reads(LeaderDay(e))' = x.rows /\ Reads(FollowerDay(e))' = y.rows
        BY <2>3, <4>3
      <4>. QED BY <4>1, <4>2, <4>3, <4>4 DEF Leads
    <3>. QED BY <3>1, <3>2, <3>3, <3>4, <3>5, FS_Union
  <2>6. LeadsFound'
    <3>1. DOMAIN lgEpisodes' = Readings
      BY <1>7 DEF EpisodesWith
    <3>. QED BY <2>5, <3>1 DEF LeadsFound
  <2>. QED BY <1>0, <1>1, <1>2, <1>5, <2>4, <2>6 DEF LeadInv
<1>. QED BY <1>1, <1>6, <1>7

LEMMA ReadOutKeeps ==
    ASSUME LeadInv, ReadOut
    PROVE  LeadInv'
<1>. DEFINE S == lgEpisodes[lgPhase]
<1>0. lgJob \in LgJobs /\ Distinct(lgLeft) /\ WatchedDays /\ LeadsFound /\ LeadsRead
  BY DEF LeadInv
<1>1. /\ lgPhase \in Readings /\ lgPhase' \in {"reverse", "done"}
      /\ lgJob' = lgJob /\ lgLeft' = lgLeft /\ lgEpisodes' = lgEpisodes /\ lgWatched' = lgWatched
  BY DEF ReadOut
<1>2. \/ \E n : lgReadouts' = [lgReadouts EXCEPT ![lgPhase].days = n]
      \/ \E n : \E low \in Walked(S, TRUE), high \in Walked(S, FALSE) :
            lgReadouts' = [lgReadouts EXCEPT ![lgPhase] =
                              [days |-> n, median2 |-> LeadMedian(S), low |-> low, high |-> high]]
  BY Zenon DEF ReadOut, LeadMedian
<1>3. WatchedDays'
  BY <1>0, <1>1 DEF WatchedDays, Picks, RowsOfDay
<1>4. LeadsFound'
  <2>1. \A d : Reads(d)' = Reads(d)
    BY <1>1 DEF Reads, RowsWatched, RowsOfDay
  <2>. QED BY <1>0, <1>1, <2>1 DEF LeadsFound, Leads
<1>5. LeadsRead'
  <2>1. /\ DOMAIN lgReadouts = Readings
        /\ \A r \in Readings : /\ DOMAIN lgReadouts[r] = {"days", "median2", "low", "high"}
                               /\ ReadsOut(lgReadouts[r], lgEpisodes[r])
    BY <1>0 DEF LeadsRead
  <2>2. lgPhase' # "sweep"
    BY <1>1
  <2>3. CASE \E n : lgReadouts' = [lgReadouts EXCEPT ![lgPhase].days = n]
    <3>1. PICK n : lgReadouts' = [lgReadouts EXCEPT ![lgPhase].days = n]
      BY <2>3
    <3>2. DOMAIN lgReadouts' = Readings
      BY <2>1, <3>1
    <3>3. ASSUME NEW r \in Readings
          PROVE  /\ DOMAIN lgReadouts'[r] = {"days", "median2", "low", "high"}
                 /\ lgReadouts'[r].median2 = lgReadouts[r].median2
                 /\ lgReadouts'[r].low = lgReadouts[r].low /\ lgReadouts'[r].high = lgReadouts[r].high
      BY <1>1, <2>1, <3>1
    <3>. QED BY <1>1, <2>1, <2>2, <3>2, <3>3 DEF LeadsRead, ReadsOut
  <2>4. CASE \E n : \E low \in Walked(S, TRUE), high \in Walked(S, FALSE) :
            lgReadouts' = [lgReadouts EXCEPT ![lgPhase] =
                              [days |-> n, median2 |-> LeadMedian(S), low |-> low, high |-> high]]
    <3>1. PICK n : \E low \in Walked(S, TRUE), high \in Walked(S, FALSE) :
            lgReadouts' = [lgReadouts EXCEPT ![lgPhase] =
                              [days |-> n, median2 |-> LeadMedian(S), low |-> low, high |-> high]]
      BY <2>4
    <3>2. PICK low \in Walked(S, TRUE), high \in Walked(S, FALSE) :
            lgReadouts' = [lgReadouts EXCEPT ![lgPhase] =
                              [days |-> n, median2 |-> LeadMedian(S), low |-> low, high |-> high]]
      BY <3>1
    <3>. DEFINE x == [days |-> n, median2 |-> LeadMedian(S), low |-> low, high |-> high]
    <3>3. DOMAIN x = {"days", "median2", "low", "high"} /\ ReadsOut(x, S)
      BY DEF ReadsOut
    <3>. HIDE DEF x
    <3>4. /\ DOMAIN lgReadouts' = Readings
          /\ \A r \in Readings : lgReadouts'[r] = IF r = lgPhase THEN x ELSE lgReadouts[r]
      BY <2>1, <3>2 DEF x
    <3>. QED BY <1>1, <2>1, <2>2, <3>3, <3>4 DEF LeadsRead
  <2>. QED BY <1>2, <2>3, <2>4
<1>. QED BY <1>0, <1>1, <1>3, <1>4, <1>5 DEF LeadInv

LEMMA LeadInvHolds == LgSpec => []LeadInv
<1>1. LeadInv /\ [LgNext]_lgVars => LeadInv'
  <2>. SUFFICES ASSUME LeadInv, [LgNext]_lgVars PROVE LeadInv'
    OBVIOUS
  <2>1. CASE SweepDate
    BY <2>1, SweepDateKeeps
  <2>2. CASE ReadOut
    BY <2>2, ReadOutKeeps
  <2>3. CASE UNCHANGED lgVars
    BY <2>3 DEF lgVars, LeadInv, WatchedDays, Picks, LeadsFound, Leads, Reads, RowsWatched, RowsOfDay, LeadsRead
  <2>. QED BY <2>1, <2>2, <2>3 DEF LgNext
<1>. QED BY <1>1, LeadsStart, PTL DEF LgSpec

\* Every lead that is counted is one: an answer to a move, behind it, of a span
\* apart from the others and inside the days of both cities, whatever the tape;
\* and the interval of a readout holds the lead nearest to the median.
THEOREM LeadsMeasured == LgSpec => []LeadsAreMeasured
<1>1. LeadInv => LeadsAreMeasured
  <2>. SUFFICES ASSUME LeadInv PROVE LeadsAreMeasured
    OBVIOUS
  <2>0. lgJob \in LgJobs /\ WatchedDays /\ LeadsFound /\ LeadsRead
    BY DEF LeadInv
  <2>1. \A r \in Readings : IsFiniteSet(lgEpisodes[r]) /\ \A e \in lgEpisodes[r] : Leads(e, r)
    BY <2>0 DEF LeadsFound
  <2>2. AnswersComeAfter
    BY <2>0, <2>1, AnswerComes DEF AnswersComeAfter
  <2>3. EpisodesAreApart
    <3>. SUFFICES ASSUME NEW r \in Readings, NEW e \in lgEpisodes[r]
                  PROVE  /\ \A x \in lgEpisodes[r] :
                               x.leader = e.leader /\ x.follower = e.follower /\ x.date = e.date /\ x # e
                                   => x.cross < e.anchor \/ e.cross < x.anchor
                         /\ \A x \in LgMerged : ~(x[1] <= e.answer /\ e.anchor <= x[2])
                         /\ \A city \in {e.leader, e.follower} :
                               LgDays[<<city, e.date>>].start <= e.anchor /\ e.answer <= LgDays[<<city, e.date>>].end
      BY DEF EpisodesAreApart
    <3>1. Range(FatesOf(e)) = {"kept"}
      BY <2>1 DEF Leads
    <3>2. ~Meets(LgMerged, e.anchor, e.answer)
      BY <3>1, LeadIsKept
    <3>3. \A city \in {e.leader, e.follower} :
             LgDays[<<city, e.date>>].start <= e.anchor /\ e.answer <= LgDays[<<city, e.date>>].end
      BY <3>1, LeadIsKept
    <3>4. \A x \in lgEpisodes[r] :
             x.leader = e.leader /\ x.follower = e.follower /\ x.date = e.date /\ x # e
                 => x.cross < e.anchor \/ e.cross < x.anchor
      BY <2>0, <2>1, EpisodesApart
    <3>5. \A x \in LgMerged : ~(x[1] <= e.answer /\ e.anchor <= x[2])
      BY <3>2 DEF Meets
    <3>. QED BY <3>3, <3>4, <3>5
  <2>4. IntervalsHoldTheirMedian
    <3>. SUFFICES ASSUME NEW r \in Readings PROVE HoldsItsMedian(lgReadouts[r], lgEpisodes[r])
      BY DEF IntervalsHoldTheirMedian
    <3>1. \A e \in lgEpisodes[r] : e.lead \in Int
      <4>. TAKE e \in lgEpisodes[r]
      <4>1. Leads(e, r)
        BY <2>1
      <4>. QED BY <2>0, <4>1, LeadIsNumber
    <3>2. ReadsOut(lgReadouts[r], lgEpisodes[r])
      BY <2>0 DEF LeadsRead
    <3>. QED BY <2>1, <3>1, <3>2, IntervalHolds
  <2>. QED BY <2>2, <2>3, <2>4 DEF LeadsAreMeasured
<1>. QED BY <1>1, LeadInvHolds, PTL


-----------------------------------------------------------------------------
(***************************************************************************)
(* The forecast-source study enters on what was known                      *)
(***************************************************************************)

FcFiles == {"sample"} \cup FcClasses

\* What the freezes hold is what they were to hold, and what was entered was
\* made from them: a class is frozen after the sample, never again, and the
\* study is judged when no file of it is torn.
FcInv ==
    /\ fcJob \in FcJobs
    /\ fcDisk \in [FcFiles -> {"none", "torn", "whole"}]
    /\ fcWriting \in SUBSET FcFiles /\ \A f \in fcWriting : fcDisk[f] = "torn"
    /\ fcDisk["sample"] # "none" => fcSample = SampleOf(fcJob)
    /\ \A c \in FcClasses : fcDisk[c] # "none" => fcDisk["sample"] = "whole"
    /\ fcRecords = [c \in FcClasses |-> IF fcDisk[c] = "none" THEN {} ELSE Admitted(fcJob, fcSample, c)]
    /\ fcVerdict \in {"PASS", "CLOSED", "UNDERPOWERED"} =>
          /\ fcDisk["sample"] = "whole" /\ \A c \in FcClasses : fcDisk[c] # "torn"
          /\ \A lead \in FcLeads : fcEntries[lead] = EntriesOf(Blendable(fcSample, UNION Range(fcRecords), lead))

LEMMA FcFileNames == FcClasses = {"a", "b", "c"} /\ "sample" \notin FcClasses
  BY ForecastAssumption DEF FcClasses

LEMMA FcInitInv == FcInit => FcInv
<1>. SUFFICES ASSUME NEW j \in FcJobs, FcStart(j) PROVE FcInv
  BY DEF FcInit
<1>. QED BY FcFileNames DEF FcStart, FcInv, FcFiles

LEMMA FcNextInv == FcInv /\ [FcNext]_fcVars => FcInv'
<1>. SUFFICES ASSUME FcInv, [FcNext]_fcVars PROVE FcInv'
  OBVIOUS
<1>0. /\ fcJob \in FcJobs
      /\ fcDisk \in [FcFiles -> {"none", "torn", "whole"}]
      /\ fcWriting \in SUBSET FcFiles /\ \A f \in fcWriting : fcDisk[f] = "torn"
      /\ fcDisk["sample"] # "none" => fcSample = SampleOf(fcJob)
      /\ \A c \in FcClasses : fcDisk[c] # "none" => fcDisk["sample"] = "whole"
      /\ fcRecords = [c \in FcClasses |-> IF fcDisk[c] = "none" THEN {} ELSE Admitted(fcJob, fcSample, c)]
  BY DEF FcInv
<1>1. CASE FreezeSample
  <2>1. \A c \in FcClasses : fcDisk[c] = "none" /\ fcDisk'[c] = "none"
    BY <1>0, <1>1, FcFileNames DEF FreezeSample, FcFiles
  <2>2. fcRecords' = [c \in FcClasses |-> IF fcDisk'[c] = "none" THEN {} ELSE Admitted(fcJob', fcSample', c)]
    BY <1>0, <1>1, <2>1 DEF FreezeSample
  <2>. QED BY <1>0, <1>1, <2>1, <2>2 DEF FreezeSample, FcInv, FcFiles
<1>2. ASSUME NEW c \in FcClasses, FreezeClass(c) PROVE FcInv'
  <2>1. fcDisk["sample"] = "whole" /\ fcDisk'["sample"] = "whole"
    BY <1>0, <1>2, FcFileNames DEF FreezeClass, FcFiles
  <2>2. fcRecords' = [k \in FcClasses |-> IF fcDisk'[k] = "none" THEN {} ELSE Admitted(fcJob', fcSample', k)]
    BY <1>0, <1>2, FcFileNames DEF FreezeClass, FcFiles
  <2>. QED BY <1>0, <1>2, <2>1, <2>2 DEF FreezeClass, FcInv, FcFiles
<1>3. ASSUME NEW f \in FcFiles, Seal(f) \/ Die(f) PROVE FcInv'
  <2>1. f \in fcWriting /\ fcDisk[f] = "torn" /\ ~(fcVerdict \in {"PASS", "CLOSED", "UNDERPOWERED"})
    <3>1. f \in fcWriting /\ fcDisk[f] = "torn"
      BY <1>0, <1>3 DEF Seal, Die
    <3>. QED BY <3>1 DEF FcInv, FcFiles
  <2>2. CASE Seal(f)
    <3>1. \A g \in FcFiles : g # f => fcDisk'[g] = fcDisk[g]
      BY <1>0, <2>2 DEF Seal
    <3>2. fcDisk'[f] = "whole" /\ fcDisk' \in [FcFiles -> {"none", "torn", "whole"}]
      BY <1>0, <2>1, <2>2 DEF Seal
    <3>3. fcRecords' = [c \in FcClasses |-> IF fcDisk'[c] = "none" THEN {} ELSE Admitted(fcJob', fcSample', c)]
      <4>1. \A c \in FcClasses : fcDisk'[c] = "none" <=> fcDisk[c] = "none"
        BY <2>1, <3>1, <3>2 DEF FcFiles
      <4>. QED BY <1>0, <2>2, <4>1 DEF Seal
    <3>4. fcDisk'["sample"] # "none" => fcSample' = SampleOf(fcJob')
      BY <1>0, <2>1, <2>2, <3>1 DEF Seal, FcFiles
    <3>5. \A c \in FcClasses : fcDisk'[c] # "none" => fcDisk'["sample"] = "whole"
      BY <1>0, <2>1, <3>1, <3>2 DEF FcFiles
    <3>. QED BY <1>0, <2>1, <2>2, <3>1, <3>2, <3>3, <3>4, <3>5 DEF Seal, FcInv
  <2>3. CASE Die(f)
    BY <1>0, <2>1, <2>3 DEF Die, FcInv
  <2>. QED BY <1>3, <2>2, <2>3
<1>4. ASSUME NEW sigD \in BOOLEAN, NEW sigH \in BOOLEAN, Execute(sigD, sigH) PROVE FcInv'
  <2>1. /\ fcDisk["sample"] = "whole" /\ \A c \in FcClasses : fcDisk[c] # "torn"
        /\ UNCHANGED <<fcJob, fcDisk, fcWriting, fcSample, fcRecords>>
    BY <1>4, Zenon DEF Execute, FreezesReadable
  <2>2. \/ fcVerdict' = "raised"
        \/ fcEntries' = [lead \in FcLeads |-> EntriesOf(Blendable(fcSample, UNION Range(fcRecords), lead))]
    BY <1>4, Zenon DEF Execute
  <2>3. fcVerdict' # "raised" =>
           \A lead \in FcLeads : fcEntries'[lead] = EntriesOf(Blendable(fcSample, UNION Range(fcRecords), lead))
    BY <2>2, Zenon
  <2>4. fcVerdict' \in {"PASS", "CLOSED", "UNDERPOWERED"} =>
           \A lead \in FcLeads : fcEntries'[lead] = EntriesOf(Blendable(fcSample', UNION Range(fcRecords'), lead))
    BY <2>1, <2>3
  <2>. QED BY <1>0, <2>1, <2>4 DEF FcInv
<1>5. CASE UNCHANGED fcVars
  BY <1>5 DEF fcVars, FcInv
<1>. QED BY <1>1, <1>2, <1>3, <1>4, <1>5 DEF FcNext, FcFiles

-----------------------------------------------------------------------------
\* Holds where an issue would have been known of every leg of an event.
KnownOf(station, date, issue, lead) ==
    \A l \in FcLegs : FcMarkets[l].station = station /\ FcMarkets[l].date = date => issue <= AsOf(l, lead)

\* An event is one close, so one of its legs speaks for all.
LEMMA KnownByLeg ==
    ASSUME NEW leg \in FcLegs, NEW lead, NEW issue
    PROVE  KnownOf(FcMarkets[leg].station, FcMarkets[leg].date, issue, lead) <=> issue <= AsOf(leg, lead)
  BY FcOneClose DEF KnownOf, AsOf

LEMMA ForecastsBehind ==
    ASSUME NEW job, NEW lead
    PROVE  /\ AsKnown(job, lead).composites
                = {c \in job.composites : KnownOf(c.station, c.hour \div FcDay, c.hour - FcOffset[lead], lead)}
           /\ AsKnown(job, lead).bulletins = {b \in job.bulletins : KnownOf(b.station, b.date, b.runtime, lead)}
           /\ AsKnown(job, lead).runs = {r \in job.runs : KnownOf(r.station, r.hour \div FcDay, r.run, lead)}
  BY DEF AsKnown, KnownOf

\* The hours of a window are of its day.
LEMMA HoursAreOfTheDay ==
    ASSUME NEW class, NEW date \in Int, NEW lead, NEW h \in WindowHours(class, date, lead)
    PROVE  h \in Int /\ h \div FcDay = date
<1>2. FcDay \in Nat /\ FcHour \in Nat /\ FcHour > 0 /\ FcDay > 0 /\ FullWindow \in Int /\ FcDay = FullWindow * FcHour
  BY ForecastAssumption DEF FullWindow
<1>1. PICK k \in 0..(FullWindow - 1) : h = date * FcDay + k * FcHour
  <2>. DEFINE n == IF class = "a" /\ lead = FcGating THEN FullWindow - 2 ELSE FullWindow - 1
  <2>1. PICK k \in 0..n : h = DayStart(date) + k * FcHour
    BY DEF WindowHours
  <2>2. k \in 0..(FullWindow - 1)
    BY <1>2, <2>1
  <2>. QED BY <2>1, <2>2 DEF DayStart
<1>3. k * FcHour >= 0 /\ k * FcHour < FcDay /\ k * FcHour \in Int
  <2>1. \A i \in Nat, n, m \in Nat : i <= n - 1 /\ m > 0 => i * m >= 0 /\ i * m < n * m /\ i * m \in Int
    BY SMT
  <2>. QED BY <1>1, <1>2, <2>1
<1>4. \A d \in Int, n, r \in Nat : r < n => (d * n + r) \div n = d
  BY SMT
<1>. QED BY <1>1, <1>2, <1>3, <1>4

LastHour(date, lead) ==
    DayStart(date) + (IF lead = FcGating THEN FullWindow - 2 ELSE FullWindow - 1) * FcHour

\* The last hour of a composite.
LEMMA LastHourIs ==
    ASSUME NEW date \in Int, NEW lead
    PROVE  /\ LastHour(date, lead) \in Int
           /\ Max(WindowHours("a", date, lead)) = LastHour(date, lead)
           /\ \A h \in WindowHours("a", date, lead) : h \in Int /\ h <= LastHour(date, lead)
<1>. DEFINE n == IF lead = FcGating THEN FullWindow - 2 ELSE FullWindow - 1
            H == WindowHours("a", date, lead)
<1>1. FcDay \in Nat /\ FcHour \in Nat /\ FullWindow \in Int /\ FullWindow > 1 /\ n \in Nat
  BY ForecastAssumption DEF FullWindow
<1>2. LastHour(date, lead) = date * FcDay + n * FcHour
  BY DEF LastHour, DayStart
<1>3. H = {date * FcDay + k * FcHour : k \in 0..n}
  <2>1. (IF "a" = "a" /\ lead = FcGating THEN FullWindow - 2 ELSE FullWindow - 1) = n
    OBVIOUS
  <2>. QED BY <2>1 DEF WindowHours, DayStart
<1>. HIDE DEF n, H
<1>4. \A k \in 0..n : k \in Nat /\ k * FcHour \in Int /\ k * FcHour <= n * FcHour
  <2>1. \A i, j, m \in Nat : i <= j => i * m \in Int /\ i * m <= j * m
    BY SMT
  <2>. QED BY <1>1, <2>1
<1>5. date * FcDay \in Int /\ n * FcHour \in Int
  BY <1>1
<1>6. LastHour(date, lead) \in H /\ H \in SUBSET Int /\ \A h \in H : h \in Int /\ h <= LastHour(date, lead)
  BY <1>1, <1>2, <1>3, <1>4, <1>5
<1>7. Max(H) = LastHour(date, lead)
  BY <1>6, MaxIs
<1>. QED BY <1>2, <1>5, <1>6, <1>7 DEF H

\* What is issued by the lead is what would have been known at it.
Behind(S, leg, lead) == {r \in S : r.issue <= AsOf(leg, lead)}

LEMMA CompositesBehind ==
    ASSUME NEW job, NEW lead \in FcLeads, NEW leg \in FcLegs, NEW member
    PROVE  LET m == FcMarkets[leg]
           IN  Behind(CompositeOf(AsKnown(job, lead), m.station, m.date, lead, member), leg, lead)
                 = Behind(CompositeOf(job, m.station, m.date, lead, member), leg, lead)
<1>. DEFINE m     == FcMarkets[leg]
            known == AsKnown(job, lead)
            hours == WindowHours("a", m.date, lead)
            issue == Max(hours) - FcOffset[lead]
            found(j) == {c \in j.composites : c.station = m.station /\ c.member = member
                                               /\ c.lead = lead /\ c.hour \in hours}
            made(j) == IF {c.hour : c \in found(j)} # hours THEN {}
                       ELSE {[high |-> Highest(found(j)), issue |-> issue]}
<1>1. \A j : CompositeOf(j, m.station, m.date, lead, member) = made(j)
  BY DEF CompositeOf
<1>2. CASE ~(issue <= AsOf(leg, lead))
  <2>1. \A j : \A r \in made(j) : r.issue = issue
    OBVIOUS
  <2>. HIDE DEF made, issue
  <2>2. \A j : Behind(made(j), leg, lead) = {}
    BY <1>2, <2>1 DEF Behind
  <2>. QED BY <1>1, <2>2
<1>3. CASE issue <= AsOf(leg, lead)
  <2>1. m.date \in Int /\ m.close \in Int /\ lead \in Int /\ AsOf(leg, lead) \in Int /\ FcOffset[lead] \in Int
    BY ForecastAssumption, AgesAssumption DEF AsOf, FcLeads
  <2>2. \A h \in hours : h \in Int /\ h <= Max(hours) /\ Max(hours) \in Int /\ h \div FcDay = m.date
    BY <2>1, LastHourIs, HoursAreOfTheDay
  <2>3. \A h \in hours : h - FcOffset[lead] <= AsOf(leg, lead)
    <3>. HIDE DEF hours
    <3>. QED BY <1>3, <2>1, <2>2
  <2>4. \A c : c.station = m.station /\ c.hour \in hours
                => KnownOf(c.station, c.hour \div FcDay, c.hour - FcOffset[lead], lead)
    <3>. HIDE DEF hours
    <3>. QED BY <2>2, <2>3, KnownByLeg
  <2>5. found(known) = found(job)
    <3>. HIDE DEF hours
    <3>. QED BY <2>4, ForecastsBehind
  <2>6. made(known) = made(job)
    <3>. HIDE DEF found, hours, issue, known
    <3>. QED BY <2>5
  <2>. QED BY <1>1, <2>6
<1>. QED BY <1>2, <1>3

LEMMA BulletinsBehind ==
    ASSUME NEW job, NEW lead, NEW leg \in FcLegs
    PROVE  LET m == FcMarkets[leg]
           IN  BulletinOf(AsKnown(job, lead), m.station, m.date, AsOf(leg, lead))
                 = BulletinOf(job, m.station, m.date, AsOf(leg, lead))
<1>. DEFINE m == FcMarkets[leg]
            behind(j) == {b \in j.bulletins : b.station = m.station /\ b.date = m.date
                                               /\ b.runtime <= AsOf(leg, lead)}
<1>1. behind(AsKnown(job, lead)) = behind(job)
  BY ForecastsBehind, KnownByLeg
<1>. QED BY <1>1 DEF BulletinOf

LEMMA RunsBehind ==
    ASSUME NEW job, NEW lead \in FcLeads, NEW leg \in FcLegs
    PROVE  LET m == FcMarkets[leg]
           IN  RunOf(AsKnown(job, lead), m.station, m.date, AsOf(leg, lead))
                 = RunOf(job, m.station, m.date, AsOf(leg, lead))
<1>. DEFINE m == FcMarkets[leg]
            at == AsOf(leg, lead)
            hours == WindowHours("c", m.date, FcGating)
            found(j) == {r \in j.runs : r.station = m.station /\ r.run = ChooseRun(at) /\ r.hour \in hours}
<1>1. m.date \in Int /\ at \in Int
  BY ForecastAssumption DEF AsOf, FcLeads
<1>2. ChooseRun(at) <= at
  <2>1. \A x, q \in Int : q > 0 => (x \div q) * q <= x
    BY SMT
  <2>2. at - FcAllowance \in Int /\ at - FcAllowance <= at /\ FcDay \div 4 \in Int /\ FcDay \div 4 > 0
    BY <1>1, ForecastAssumption
  <2>3. ((at - FcAllowance) \div (FcDay \div 4)) * (FcDay \div 4) <= at - FcAllowance
    BY <2>1, <2>2
  <2>4. ((at - FcAllowance) \div (FcDay \div 4)) * (FcDay \div 4) \in Int
    <3>1. \A x, q \in Int : q > 0 => (x \div q) * q \in Int
      BY SMT
    <3>. QED BY <2>2, <3>1
  <2>. HIDE DEF at
  <2>. QED BY <1>1, <2>2, <2>3, <2>4 DEF ChooseRun
<1>3. \A h \in hours : h \div FcDay = m.date
  BY <1>1, HoursAreOfTheDay
<1>4. found(AsKnown(job, lead)) = found(job)
  <2>1. \A r : r.station = m.station /\ r.run = ChooseRun(at) /\ r.hour \in hours
                => KnownOf(r.station, r.hour \div FcDay, r.run, lead)
    <3>. HIDE DEF hours
    <3>. QED BY <1>2, <1>3, KnownByLeg
  <2>. HIDE DEF hours, at
  <2>. QED BY <2>1, ForecastsBehind
<1>. HIDE DEF found
<1>5. \A j : RunOf(j, m.station, m.date, at)
               = IF {r.hour : r \in found(j)} # hours THEN {}
                 ELSE {[high |-> Highest(found(j)), issue |-> ChooseRun(at)]}
  BY DEF RunOf, found
<1>. QED BY <1>4, <1>5

LEMMA ForecastsKnown ==
    ASSUME NEW job, NEW lead \in FcLeads, NEW leg \in FcLegs, NEW class \in FcClasses, NEW member
    PROVE  Behind(ForecastOf(AsKnown(job, lead), class, leg, lead, member), leg, lead)
             = Behind(ForecastOf(job, class, leg, lead, member), leg, lead)
<1>1. class = "a" \/ class = "b" \/ class = "c"
  BY FcFileNames
<1>2. CASE class = "a"
  BY <1>2, CompositesBehind DEF ForecastOf
<1>3. CASE class = "b"
  BY <1>3, BulletinsBehind DEF ForecastOf
<1>4. CASE class = "c"
  BY <1>4, RunsBehind DEF ForecastOf
<1>. QED BY <1>1, <1>2, <1>3, <1>4

-----------------------------------------------------------------------------
PrintsOf(prints, at) == {i \in DOMAIN prints : at - FcDepthWindow < prints[i].at /\ prints[i].at <= at}

\* What traded behind a lead, as the sum of a function.
LEMMA TrailingIs ==
    ASSUME NEW prints, NEW at
    PROVE  Trailing(prints, at) = SumFunction([i \in PrintsOf(prints, at) |-> prints[i].count])
<1>. DEFINE S == PrintsOf(prints, at)
            e(i) == prints[i].count
            f == [i \in S |-> e(i)]
            Sums(g) == [s \in SUBSET S |-> IF s = {} THEN 0 ELSE e(Pick(s)) + g[s \ {Pick(s)}]]
<1>1. \A g : (g = Sums(g)) <=> Adds(f, g, S)
  BY PickTakes DEF Added, Adds
<1>2. SumFunction(f) = (CHOOSE g : Adds(f, g, S))[S]
  BY SumIsChosen
<1>3. MapThenSumSet(LAMBDA i : e(i), S) = (CHOOSE g : g = Sums(g))[S]
  BY DEF MapThenSumSet, MapThenFoldSet, Pick
<1>4. (CHOOSE g : g = Sums(g)) = (CHOOSE g : Adds(f, g, S))
  <2>. HIDE DEF Sums, f
  <2>. QED BY <1>1
<1>5. Trailing(prints, at) = MapThenSumSet(LAMBDA i : e(i), S)
  BY DEF Trailing, PrintsOf
<1>. QED BY <1>2, <1>3, <1>4, <1>5

\* The prints behind a lead are those that the lead is priced by.
LEMMA PrintsBehind ==
    ASSUME NEW job \in FcJobs, NEW lead \in FcLeads, NEW leg \in FcLegs
    PROVE  LET all    == job.prints[leg]
               behind == AsKnown(job, lead).prints[leg]
               at     == AsOf(leg, lead)
           IN  /\ PrintAt(behind, at) = PrintAt(all, at)
               /\ \A i \in PrintAt(all, at) : behind[i] = all[i]
               /\ Trailing(behind, at) = Trailing(all, at)
<1>. DEFINE all    == job.prints[leg]
            behind == AsKnown(job, lead).prints[leg]
            at     == AsOf(leg, lead)
<1>1. behind = [i \in {j \in DOMAIN all : all[j].at <= at} |-> all[i]]
  BY DEF AsKnown
<1>2. at \in Int /\ \A i \in DOMAIN all : all[i].at \in Int
  BY ForecastAssumption DEF AsOf, FcLeads
<1>. HIDE DEF all, behind, at
<1>3. /\ DOMAIN behind = {j \in DOMAIN all : all[j].at <= at}
      /\ \A i \in DOMAIN behind : behind[i] = all[i]
  BY <1>1
<1>4. PrintAt(behind, at) = PrintAt(all, at)
  <2>1. \A i : i \in PrintAt(behind, at) <=> i \in PrintAt(all, at)
    BY <1>2, <1>3 DEF PrintAt
  <2>. QED BY <2>1 DEF PrintAt
<1>5. \A i \in PrintAt(all, at) : behind[i] = all[i]
  BY <1>3 DEF PrintAt
<1>6. Trailing(behind, at) = Trailing(all, at)
  <2>1. PrintsOf(behind, at) = PrintsOf(all, at)
    BY <1>3 DEF PrintsOf
  <2>2. \A i \in PrintsOf(all, at) : behind[i].count = all[i].count
    BY <1>3 DEF PrintsOf
  <2>3. [i \in PrintsOf(behind, at) |-> behind[i].count] = [i \in PrintsOf(all, at) |-> all[i].count]
    BY <2>1, <2>2
  <2>. QED BY <2>3, TrailingIs
<1>. QED BY <1>4, <1>5, <1>6 DEF all, behind, at

OtherResult(r) == CASE r = "yes" -> "no" [] r = "no" -> "yes" [] OTHER -> r

\* A row with its outcome turned over where its day is of the holdout.
Turned(x) ==
    IF FcMarkets[x.leg].date < FcBoundary THEN x
    ELSE [x EXCEPT !.result = OtherResult(x.result)]

\* The print a lead is priced by, and the rows of a sample, leg by leg.
EntryPrint(job, l, lead) == job.prints[l][CHOOSE i \in PrintAt(job.prints[l], AsOf(l, lead)) : TRUE]

IsSampled(job, l, lead) ==
    /\ FcMarkets[l].date \in UnreadDays /\ job.results[l] \in {"yes", "no"}
    /\ PrintAt(job.prints[l], AsOf(l, lead)) # {}
    /\ CapAt(AsOf(l, lead)) = NOCAP \/ AsOf(l, lead) - EntryPrint(job, l, lead).at <= CapAt(AsOf(l, lead))

SampleRow(job, l, lead) ==
    [leg |-> l, lead |-> lead, price |-> EntryPrint(job, l, lead).price, result |-> job.results[l],
     trailing |-> Trailing(job.prints[l], AsOf(l, lead))]

LEMMA SampleByLeg ==
    ASSUME NEW job, NEW lead
    PROVE  SampleAt(job, lead) = {SampleRow(job, l, lead) : l \in {x \in FcLegs : IsSampled(job, x, lead)}}
  BY DEF SampleAt, SampleRow, IsSampled, EntryPrint

LEMMA RowKnown ==
    ASSUME NEW job \in FcJobs, NEW lead \in FcLeads, NEW l \in FcLegs
    PROVE  /\ IsSampled(AsKnown(job, lead), l, lead) <=> IsSampled(job, l, lead)
           /\ IsSampled(job, l, lead) => SampleRow(AsKnown(job, lead), l, lead) = Turned(SampleRow(job, l, lead))
<1>. DEFINE known == AsKnown(job, lead)
            at    == AsOf(l, lead)
<1>1. known.results[l] = IF FcMarkets[l].date < FcBoundary THEN job.results[l] ELSE OtherResult(job.results[l])
  BY DEF AsKnown, OtherResult
<1>2. known.results[l] \in {"yes", "no"} <=> job.results[l] \in {"yes", "no"}
  BY <1>1 DEF OtherResult
<1>3. /\ PrintAt(known.prints[l], at) = PrintAt(job.prints[l], at)
      /\ \A i \in PrintAt(job.prints[l], at) : known.prints[l][i] = job.prints[l][i]
      /\ Trailing(known.prints[l], at) = Trailing(job.prints[l], at)
  BY PrintsBehind
<1>. HIDE DEF known
<1>4. PrintAt(job.prints[l], at) # {} => EntryPrint(known, l, lead) = EntryPrint(job, l, lead)
  <2>. DEFINE i == CHOOSE x \in PrintAt(job.prints[l], at) : TRUE
  <2>1. PrintAt(job.prints[l], at) # {} => i \in PrintAt(job.prints[l], at)
    OBVIOUS
  <2>2. EntryPrint(known, l, lead) = known.prints[l][i] /\ EntryPrint(job, l, lead) = job.prints[l][i]
    BY <1>3 DEF EntryPrint
  <2>. HIDE DEF i, at
  <2>. QED BY <1>3, <2>1, <2>2
<1>5. IsSampled(known, l, lead) <=> IsSampled(job, l, lead)
  BY <1>2, <1>3, <1>4 DEF IsSampled
<1>6. IsSampled(job, l, lead) => SampleRow(known, l, lead) = Turned(SampleRow(job, l, lead))
  BY <1>1, <1>3, <1>4 DEF IsSampled, SampleRow, Turned
<1>. QED BY <1>5, <1>6 DEF known

LEMMA SampleKnown ==
    ASSUME NEW job \in FcJobs, NEW lead \in FcLeads
    PROVE  SampleAt(AsKnown(job, lead), lead) = {Turned(x) : x \in SampleAt(job, lead)}
  BY RowKnown, SampleByLeg

\* Of the rows of a sample, those of a lead.
LEMMA SampleOfALead ==
    ASSUME NEW job, NEW lead \in FcLeads
    PROVE  {x \in SampleOf(job) : x.lead = lead} = SampleAt(job, lead)
<1>1. \A n : \A x \in SampleAt(job, n) : x.lead = n
  BY SampleByLeg DEF SampleRow
<1>. QED BY <1>1 DEF SampleOf

-----------------------------------------------------------------------------
AtLead(S, lead) == {x \in S : x.lead = lead}

\* The records of a leg that no lead refuses.
IssuedFor(job, class, leg, lead) == {e \in RecordsOf(job, class, leg, lead) : e.issue <= e.at}

LEMMA IssuedKnown ==
    ASSUME NEW job, NEW lead \in FcLeads, NEW leg \in FcLegs, NEW class \in FcClasses
    PROVE  IssuedFor(AsKnown(job, lead), class, leg, lead) = IssuedFor(job, class, leg, lead)
<1>. DEFINE made(j, member) == {RecordOf(class, leg, lead, member, r) :
                                   r \in Behind(ForecastOf(j, class, leg, lead, member), leg, lead)}
<1>1. \A member, r : /\ RecordOf(class, leg, lead, member, r).issue = r.issue
                     /\ RecordOf(class, leg, lead, member, r).at = AsOf(leg, lead)
  BY DEF RecordOf
<1>2. \A j : IssuedFor(j, class, leg, lead) = UNION {made(j, member) : member \in FcMembers[class]}
  <2>1. ASSUME NEW j, NEW e, e \in IssuedFor(j, class, leg, lead)
        PROVE  e \in UNION {made(j, member) : member \in FcMembers[class]}
    <3>1. PICK member \in FcMembers[class] :
             \E r \in ForecastOf(j, class, leg, lead, member) : e = RecordOf(class, leg, lead, member, r)
      BY <2>1 DEF IssuedFor, RecordsOf
    <3>2. e \in made(j, member)
      BY <1>1, <2>1, <3>1 DEF IssuedFor, Behind
    <3>. QED BY <3>2
  <2>2. ASSUME NEW j, NEW e, e \in UNION {made(j, member) : member \in FcMembers[class]}
        PROVE  e \in IssuedFor(j, class, leg, lead)
    <3>1. PICK member \in FcMembers[class] : e \in made(j, member)
      BY <2>2
    <3>2. PICK r \in ForecastOf(j, class, leg, lead, member) :
             e = RecordOf(class, leg, lead, member, r) /\ r.issue <= AsOf(leg, lead)
      BY <3>1 DEF Behind
    <3>3. e \in RecordsOf(j, class, leg, lead)
      BY <3>2 DEF RecordsOf
    <3>. QED BY <1>1, <3>2, <3>3 DEF IssuedFor
  <2>. QED BY <2>1, <2>2
<1>3. \A member : made(AsKnown(job, lead), member) = made(job, member)
  BY ForecastsKnown
<1>. HIDE DEF made
<1>. QED BY <1>2, <1>3

LEMMA AdmittedIs ==
    ASSUME NEW job, NEW sample, NEW class, NEW lead
    PROVE  AtLead(Admitted(job, sample, class), lead)
             = UNION {IssuedFor(job, class, l, lead) : l \in {x.leg : x \in AtLead(sample, lead)}}
<1>. DEFINE A == AtLead(Admitted(job, sample, class), lead)
            B == UNION {IssuedFor(job, class, l, lead) : l \in {x.leg : x \in AtLead(sample, lead)}}
<1>0. \A l, n : \A e \in RecordsOf(job, class, l, n) : e.lead = n
  BY DEF RecordsOf, RecordOf
<1>1. ASSUME NEW e \in A PROVE e \in B
  <2>1. e \in Retrieved(job, sample, class) /\ e.issue <= e.at /\ e.lead = lead
    BY <1>1 DEF AtLead, Admitted
  <2>2. PICK x \in sample : e \in RecordsOf(job, class, x.leg, x.lead)
    BY <2>1 DEF Retrieved
  <2>3. x.lead = lead
    BY <1>0, <2>1, <2>2
  <2>. QED BY <2>1, <2>2, <2>3 DEF AtLead, IssuedFor
<1>2. ASSUME NEW e \in B PROVE e \in A
  <2>1. PICK x \in AtLead(sample, lead) : e \in IssuedFor(job, class, x.leg, lead)
    BY <1>2
  <2>2. x \in sample /\ e \in RecordsOf(job, class, x.leg, x.lead) /\ e.issue <= e.at /\ e.lead = lead
    BY <1>0, <2>1 DEF AtLead, IssuedFor
  <2>. QED BY <2>2 DEF AtLead, Admitted, Retrieved
<1>. QED BY <1>1, <1>2

\* What was known of a lead yields its records.
LEMMA RecordsKnown ==
    ASSUME NEW job \in FcJobs, NEW lead \in FcLeads, NEW C \in SUBSET FcClasses
    PROVE  LET known == AsKnown(job, lead)
           IN  AtLead(UNION {Admitted(known, SampleOf(known), c) : c \in C}, lead)
                 = AtLead(UNION {Admitted(job, SampleOf(job), c) : c \in C}, lead)
<1>. DEFINE known == AsKnown(job, lead)
            legs(j) == {x.leg : x \in AtLead(SampleOf(j), lead)}
<1>1. \A j : AtLead(SampleOf(j), lead) = SampleAt(j, lead)
  BY SampleOfALead DEF AtLead
<1>2. \A x \in SampleAt(job, lead) : x.leg \in FcLegs /\ Turned(x).leg = x.leg
  BY SampleByLeg DEF SampleRow, Turned
<1>3. legs(known) = legs(job) /\ legs(job) \in SUBSET FcLegs
  <2>1. SampleAt(known, lead) = {Turned(x) : x \in SampleAt(job, lead)}
    BY SampleKnown
  <2>. HIDE DEF known
  <2>. QED BY <1>1, <1>2, <2>1
<1>4. ASSUME NEW c \in C
      PROVE  AtLead(Admitted(known, SampleOf(known), c), lead) = AtLead(Admitted(job, SampleOf(job), c), lead)
  <2>1. \A l \in legs(job) : IssuedFor(known, c, l, lead) = IssuedFor(job, c, l, lead)
    BY <1>3, IssuedKnown
  <2>2. /\ AtLead(Admitted(known, SampleOf(known), c), lead)
             = UNION {IssuedFor(known, c, l, lead) : l \in legs(known)}
        /\ AtLead(Admitted(job, SampleOf(job), c), lead) = UNION {IssuedFor(job, c, l, lead) : l \in legs(job)}
    BY AdmittedIs
  <2>. HIDE DEF known, legs
  <2>. QED BY <1>3, <2>1, <2>2
<1>. DEFINE admitted(j, c) == Admitted(j, SampleOf(j), c)
<1>. HIDE DEF known, legs, admitted
<1>5. \A j : AtLead(UNION {admitted(j, c) : c \in C}, lead) = UNION {AtLead(admitted(j, c), lead) : c \in C}
  BY DEF AtLead
<1>6. \A c \in C : AtLead(admitted(known, c), lead) = AtLead(admitted(job, c), lead)
  BY <1>4 DEF admitted
<1>7. AtLead(UNION {admitted(known, c) : c \in C}, lead) = AtLead(UNION {admitted(job, c) : c \in C}, lead)
  <2>1. {AtLead(admitted(known, c), lead) : c \in C} = {AtLead(admitted(job, c), lead) : c \in C}
    BY <1>6
  <2>2. /\ AtLead(UNION {admitted(known, c) : c \in C}, lead) = UNION {AtLead(admitted(known, c), lead) : c \in C}
        /\ AtLead(UNION {admitted(job, c) : c \in C}, lead) = UNION {AtLead(admitted(job, c), lead) : c \in C}
    BY <1>5
  <2>. QED BY <2>1, <2>2, Zenon
<1>. QED BY <1>7 DEF known, admitted

-----------------------------------------------------------------------------
\* Legs are priced by the records of their lead.
OwnRecords(leg, S, lead) ==
    {r \in S : r.station = FcMarkets[leg].station /\ r.date = FcMarkets[leg].date /\ r.lead = lead}

ChancesBy(own, strike) == [m \in {r.member : r \in own} |-> FcChance((CHOOSE r \in own : r.member = m).high, strike)]

LEMMA ChancesByLead ==
    ASSUME NEW R, NEW Q, NEW lead, AtLead(R, lead) = AtLead(Q, lead)
    PROVE  \A leg : ChancesOf(leg, R, lead) = ChancesOf(leg, Q, lead)
<1>1. \A leg : OwnRecords(leg, R, lead) = OwnRecords(leg, Q, lead)
  BY DEF AtLead, OwnRecords
<1>2. \A leg, S : ChancesOf(leg, S, lead) = ChancesBy(OwnRecords(leg, S, lead), FcMarkets[leg].strike)
  BY DEF ChancesOf, ChancesBy, OwnRecords
<1>. QED BY <1>1, <1>2

PricedLeg(x, R, lead) ==
    [leg |-> x.leg, price |-> x.price, result |-> x.result, chance |-> ChancesOf(x.leg, R, lead)]

LEMMA BlendableIs ==
    ASSUME NEW sample, NEW R, NEW lead
    PROVE  Blendable(sample, R, lead)
             = {PricedLeg(x, R, lead) : x \in {y \in AtLead(sample, lead) :
                   y.trailing >= FcSize /\ Blended \subseteq DOMAIN ChancesOf(y.leg, R, lead)}}
  BY DEF Blendable, PricedLeg, AtLead

\* The legs to be blended are those of what was known, but for their outcomes.
LEMMA BlendableKnown ==
    ASSUME NEW job \in FcJobs, NEW lead \in FcLeads, NEW R, NEW Q, AtLead(R, lead) = AtLead(Q, lead)
    PROVE  Blendable(SampleOf(AsKnown(job, lead)), Q, lead)
             = {Turned(x) : x \in Blendable(SampleOf(job), R, lead)}
<1>. DEFINE known == AsKnown(job, lead)
            deep(S) == {y \in S : y.trailing >= FcSize /\ Blended \subseteq DOMAIN ChancesOf(y.leg, R, lead)}
<1>1. \A leg : ChancesOf(leg, R, lead) = ChancesOf(leg, Q, lead)
  BY ChancesByLead
<1>2. \A j : AtLead(SampleOf(j), lead) = SampleAt(j, lead)
  BY SampleOfALead DEF AtLead
<1>3. SampleAt(known, lead) = {Turned(x) : x \in SampleAt(job, lead)}
  BY SampleKnown
<1>. HIDE DEF known
<1>4. Blendable(SampleOf(job), R, lead) = {PricedLeg(x, R, lead) : x \in deep(SampleAt(job, lead))}
  BY <1>2, BlendableIs
<1>5. Blendable(SampleOf(known), Q, lead) = {PricedLeg(x, R, lead) : x \in deep(SampleAt(known, lead))}
  BY <1>1, <1>2, BlendableIs DEF PricedLeg
<1>6. ASSUME NEW x \in SampleAt(job, lead)
      PROVE  /\ Turned(x).leg = x.leg /\ Turned(x).trailing = x.trailing
             /\ PricedLeg(Turned(x), R, lead) = Turned(PricedLeg(x, R, lead))
  <2>1. PICK l \in FcLegs : x = SampleRow(job, l, lead)
    BY SampleByLeg
  <2>. QED BY <2>1 DEF SampleRow, Turned, PricedLeg
<1>7. deep(SampleAt(known, lead)) = {Turned(x) : x \in deep(SampleAt(job, lead))}
  BY <1>3, <1>6
<1>. HIDE DEF deep
<1>8. deep(SampleAt(job, lead)) \subseteq SampleAt(job, lead)
  BY DEF deep
<1>. QED BY <1>4, <1>5, <1>6, <1>7, <1>8 DEF known

\* The sides entered do not depend on outcomes of the holdout.
SidesOf(legs) == {<<e.leg, e.price, e.side>> : e \in EntriesOf(legs)}

LEMMA SidesAre ==
    ASSUME NEW legs
    PROVE  LET fits == Fits(FitRows(legs))
           IN  SidesOf(legs) = IF Unfit(fits) THEN {}
                               ELSE {<<x.leg, x.price, SideOf(CHOOSE w \in fits : TRUE, x)>> : x \in legs}
<1>. DEFINE fits == Fits(FitRows(legs))
            w == CHOOSE v \in fits : TRUE
<1>1. EntriesOf(legs) = IF Unfit(fits) THEN {} ELSE {LegEntry(w, x) : x \in legs}
  BY DEF EntriesOf
<1>2. \A x : LegEntry(w, x).leg = x.leg /\ LegEntry(w, x).price = x.price /\ LegEntry(w, x).side = SideOf(w, x)
  BY DEF LegEntry
<1>3. SidesOf(legs) = IF Unfit(fits) THEN {} ELSE {<<x.leg, x.price, SideOf(w, x)>> : x \in legs}
  <2>. HIDE DEF fits, w
  <2>. QED BY <1>1, <1>2 DEF SidesOf
<1>. QED BY <1>3

LEMMA SidesKnown ==
    ASSUME NEW sample, NEW R, NEW lead
    PROVE  LET legs == Blendable(sample, R, lead)
           IN  SidesOf({Turned(x) : x \in legs}) = SidesOf(legs)
<1>. DEFINE legs == Blendable(sample, R, lead)
            turned == {Turned(x) : x \in legs}
<1>1. ASSUME NEW x \in legs
      PROVE  /\ Turned(x).leg = x.leg /\ Turned(x).price = x.price /\ Turned(x).chance = x.chance
             /\ SplitAt(FcMarkets[x.leg].date) = "discovery" => Turned(x) = x
  <2>1. PICK y : x = PricedLeg(y, R, lead)
    BY BlendableIs
  <2>2. SplitAt(FcMarkets[x.leg].date) = "discovery" <=> FcMarkets[x.leg].date < FcBoundary
    BY DEF SplitAt
  <2>. QED BY <2>1, <2>2 DEF PricedLeg, Turned
<1>. HIDE DEF legs
<1>2. FitRows(turned) = FitRows(legs)
  BY <1>1 DEF FitRows
<1>3. \A w : \A x \in legs : SideOf(w, Turned(x)) = SideOf(w, x)
  BY <1>1 DEF SideOf
<1>. DEFINE fits == Fits(FitRows(legs))
<1>4. SidesOf(turned) = IF Unfit(fits) THEN {}
                        ELSE {<<x.leg, x.price, SideOf(CHOOSE w \in fits : TRUE, x)>> : x \in turned}
  BY <1>2, SidesAre
<1>5. SidesOf(legs) = IF Unfit(fits) THEN {}
                      ELSE {<<x.leg, x.price, SideOf(CHOOSE w \in fits : TRUE, x)>> : x \in legs}
  BY SidesAre
<1>. HIDE DEF fits
<1>6. {<<x.leg, x.price, SideOf(CHOOSE w \in fits : TRUE, x)>> : x \in turned}
        = {<<x.leg, x.price, SideOf(CHOOSE w \in fits : TRUE, x)>> : x \in legs}
  BY <1>1, <1>3
<1>. QED BY <1>4, <1>5, <1>6 DEF legs

-----------------------------------------------------------------------------
\* What was entered is what the lead would have been entered on.
LEMMA EnteredKnown == FcInv => EntriesUseWhatWasKnown
<1>. SUFFICES ASSUME FcInv, fcVerdict \in {"PASS", "CLOSED", "UNDERPOWERED"}, NEW lead \in FcLeads
     PROVE  LET known   == AsKnown(fcJob, lead)
                sample  == SampleOf(known)
                records == UNION {Admitted(known, sample, c) : c \in {x \in FcClasses : fcDisk[x] = "whole"}}
            IN  {<<e.leg, e.price, e.side>> : e \in fcEntries[lead]}
                  = {<<e.leg, e.price, e.side>> : e \in EntriesOf(Blendable(sample, records, lead))}
  BY DEF EntriesUseWhatWasKnown
<1>. DEFINE known == AsKnown(fcJob, lead)
            C     == {x \in FcClasses : fcDisk[x] = "whole"}
            R     == UNION {Admitted(fcJob, SampleOf(fcJob), c) : c \in C}
            Q     == UNION {Admitted(known, SampleOf(known), c) : c \in C}
<1>1. /\ fcJob \in FcJobs /\ fcSample = SampleOf(fcJob)
      /\ \A c \in FcClasses : fcDisk[c] \in {"none", "whole"}
      /\ fcRecords = [c \in FcClasses |-> IF fcDisk[c] = "none" THEN {} ELSE Admitted(fcJob, fcSample, c)]
      /\ fcEntries[lead] = EntriesOf(Blendable(fcSample, UNION Range(fcRecords), lead))
  BY DEF FcInv, FcFiles
<1>2. UNION Range(fcRecords) = R
  <2>. DEFINE admitted(c) == Admitted(fcJob, SampleOf(fcJob), c)
  <2>1. fcRecords = [c \in FcClasses |-> IF fcDisk[c] = "none" THEN {} ELSE admitted(c)]
    BY <1>1
  <2>. HIDE DEF admitted
  <2>2. \A e : e \in UNION Range(fcRecords) <=> \E c \in C : e \in admitted(c)
    <3>1. \A c \in FcClasses : fcRecords[c] = IF c \in C THEN admitted(c) ELSE {}
      BY <1>1, <2>1
    <3>2. DOMAIN fcRecords = FcClasses /\ C \subseteq FcClasses
      BY <2>1
    <3>. HIDE DEF C
    <3>. QED BY <3>1, <3>2 DEF Range
  <2>3. UNION Range(fcRecords) = UNION {admitted(c) : c \in C}
    BY <2>2
  <2>. QED BY <2>3 DEF admitted
<1>3. AtLead(R, lead) = AtLead(Q, lead)
  BY <1>1, RecordsKnown
<1>. HIDE DEF R, Q, C
<1>4. Blendable(SampleOf(known), Q, lead) = {Turned(x) : x \in Blendable(SampleOf(fcJob), R, lead)}
  BY <1>1, <1>3, BlendableKnown
<1>5. SidesOf(Blendable(SampleOf(known), Q, lead)) = SidesOf(Blendable(SampleOf(fcJob), R, lead))
  BY <1>4, SidesKnown
<1>6. fcEntries[lead] = EntriesOf(Blendable(SampleOf(fcJob), R, lead))
  BY <1>1, <1>2
<1>. QED BY <1>5, <1>6 DEF SidesOf, Q, C

\* A composite that covers its day was issued by the lead.
LEMMA CoveredKept == FcInv => CoveredAreKept
<1>. SUFFICES ASSUME FcInv, fcDisk["a"] = "whole", NEW r \in Retrieved(fcJob, fcSample, "a"),
                     r.at + r.lead >= DayStart(r.date + 1) - FcHour - 1
     PROVE  r \in fcRecords["a"]
  BY DEF CoveredAreKept
<1>1. "a" \in FcClasses /\ fcDisk["sample"] = "whole" /\ fcSample = SampleOf(fcJob)
      /\ fcRecords["a"] = Admitted(fcJob, fcSample, "a")
  BY FcFileNames DEF FcInv
<1>2. PICK x \in fcSample : r \in RecordsOf(fcJob, "a", x.leg, x.lead)
  BY DEF Retrieved
<1>3. x.leg \in FcLegs /\ x.lead \in FcLeads
  BY <1>1, SampleByLeg DEF SampleOf, SampleRow
<1>. DEFINE m == FcMarkets[x.leg]
            hours == WindowHours("a", m.date, x.lead)
<1>4. PICK member \in FcMembers["a"] :
         \E f \in ForecastOf(fcJob, "a", x.leg, x.lead, member) : r = RecordOf("a", x.leg, x.lead, member, f)
  BY <1>2 DEF RecordsOf
<1>5. PICK f \in CompositeOf(fcJob, m.station, m.date, x.lead, member) : r = RecordOf("a", x.leg, x.lead, member, f)
  BY <1>4 DEF ForecastOf
<1>6. f.issue = Max(hours) - FcOffset[x.lead]
  BY <1>5 DEF CompositeOf
<1>. DEFINE last == LastHour(m.date, x.lead)
<1>7. /\ r.date = m.date /\ r.lead = x.lead /\ r.at = m.close - x.lead
      /\ r.issue = last - FcOffset[x.lead]
  <2>1. m.date \in Int
    BY <1>3, ForecastAssumption
  <2>2. Max(hours) = last
    BY <2>1, LastHourIs
  <2>. HIDE DEF last, hours
  <2>. QED BY <1>5, <1>6, <2>2 DEF RecordOf, AsOf
<1>8. r.issue <= r.at
  <2>1. /\ m.date \in Int /\ m.close \in Int /\ x.lead \in Int /\ FcOffset[x.lead] \in Int
        /\ FcDay \in Int /\ FcHour \in Int /\ FullWindow \in Int /\ FcDay = FullWindow * FcHour
    BY <1>3, ForecastAssumption, AgesAssumption DEF FcLeads, FullWindow
  <2>2. last = m.date * FcDay + FcDay - (IF x.lead = FcGating THEN 2 * FcHour ELSE FcHour)
    BY <2>1 DEF LastHour, DayStart
  <2>3. m.close >= m.date * FcDay + FcDay - FcHour - 1
    <3>1. (m.date + 1) * FcDay = m.date * FcDay + FcDay
      BY <2>1
    <3>2. r.at + r.lead = m.close
      BY <1>7, <2>1
    <3>. QED BY <1>7, <2>1, <3>1, <3>2 DEF DayStart
  <2>4. IF x.lead = FcGating THEN x.lead < FcOffset[x.lead] + FcHour ELSE x.lead < FcOffset[x.lead]
    BY <1>3, AgesAssumption DEF FcLeads
  <2>5. m.date * FcDay \in Int
    BY <2>1
  <2>. DEFINE day == m.date * FcDay
  <2>. HIDE DEF day, last, m
  <2>6. last - FcOffset[x.lead] <= m.close - x.lead
    BY <2>1, <2>2, <2>3, <2>4, <2>5 DEF day
  <2>. QED BY <1>7, <2>6
<1>. QED BY <1>1, <1>8 DEF Admitted

\* The study of forecast sources enters, at each lead, on what it could have
\* entered on then: prints and forecasts of later and the outcomes of holdout
\* days have no part in it, and a composite that covers its day is not lost
\* (bot/lag/forecast_sample.py, forecast_classes.py, forecast_class_run.py).
THEOREM ForecastHonest == FcSpec => []ForecastIsHonest
<1>1. FcInv => ForecastIsHonest
  BY EnteredKnown, CoveredKept DEF ForecastIsHonest
<1>. QED BY <1>1, FcInitInv, FcNextInv, PTL DEF FcSpec

-----------------------------------------------------------------------------
(***************************************************************************)
(* The ladder study                                                        *)
(***************************************************************************)

\* What the states of a view are.
RealStates(S) ==
    /\ IsFiniteSet(S)
    /\ \A s \in S : s.i \in Nat /\ s.excess \in Int
    /\ \A s, q \in S : s.i = q.i => s = q

\* From its first state to the one that closes it, an episode holds, for no
\* less than its excess.
Spans(e, S, first, close) ==
    /\ first \in S /\ close \in S /\ first.i < close.i
    /\ e.start = first.at /\ e.end = close.at /\ e.excess \in Int
    /\ \A q \in S : first.i <= q.i /\ q.i < close.i => q.holds /\ e.excess <= q.excess

\* A set of states has a first.
LEMMA FirstState ==
    ASSUME NEW S, NEW R \in SUBSET S, RealStates(S), R # {}
    PROVE  \E s \in R : \A q \in R : s.i <= q.i
<1>1. {s.i : s \in R} \in SUBSET Nat /\ {s.i : s \in R} # {}
  BY DEF RealStates
<1>2. PICK n \in {s.i : s \in R} : \A m \in {s.i : s \in R} : n <= m
  BY <1>1, LeastNatural
<1>. QED BY <1>2

LEMMA WorstStateIs ==
    ASSUME NEW S, NEW R \in SUBSET S, RealStates(S), R # {}
    PROVE  WorstState(R) \in R /\ \A q \in R : WorstState(R).excess <= q.excess
<1>. DEFINE f == [s \in R |-> s.excess]
            V == {f[s] : s \in R}
            least == {s \in R : s.excess = Min(V)}
            ok(s) == \A q \in R : s.excess < q.excess \/ (s.excess = q.excess /\ s.i <= q.i)
<1>1. \A s \in R : f[s] = s.excess /\ f[s] \in Int
  BY DEF RealStates
<1>2. IsFiniteSet(V) /\ V # {} /\ V \in SUBSET Int
  <2>1. DOMAIN f = R /\ IsFiniteSet(R)
    BY FS_Subset DEF RealStates
  <2>2. IsFiniteSet(V)
    BY <2>1, ImageIsFinite
  <2>. HIDE DEF f
  <2>. QED BY <2>2, <1>1
<1>3. Min(V) \in V /\ \A x \in V : Min(V) <= x
  BY <1>2, MinOfFinite
<1>4. PICK s \in least : \A q \in least : s.i <= q.i
  <2>1. least # {} /\ least \in SUBSET S
    BY <1>1, <1>3
  <2>. HIDE DEF least
  <2>. QED BY <2>1, FirstState
<1>5. \A q \in R : Min(V) <= q.excess /\ Min(V) \in Int /\ q.excess \in Int
  BY <1>1, <1>2, <1>3
<1>6. s \in R /\ s.excess = Min(V)
  OBVIOUS
<1>7. ok(s)
  <2>. SUFFICES ASSUME NEW q \in R, ~(s.excess < q.excess) PROVE s.excess = q.excess /\ s.i <= q.i
    OBVIOUS
  <2>1. q.excess = Min(V)
    BY <1>5, <1>6
  <2>2. q \in least
    BY <2>1
  <2>. QED BY <1>4, <1>6, <2>1, <2>2
<1>. DEFINE w == WorstState(R)
<1>8. w = CHOOSE x \in R : ok(x)
  BY DEF WorstState
<1>9. w \in R /\ ok(w)
  <2>. HIDE DEF ok, w
  <2>. QED BY <1>6, <1>7, <1>8
<1>10. \A q \in R : w.excess <= q.excess
  <2>1. \A q \in R : w.excess \in Int /\ q.excess \in Int
    BY <1>9, <1>5
  <2>. HIDE DEF w
  <2>. QED BY <2>1, <1>9
<1>. QED BY <1>9, <1>10 DEF w

\* What an episode says of its own.
Episode(e, view) ==
    /\ e.stream = view.stream /\ e.day = view.day
    /\ e.tradeable => e.end - e.start >= LdPersist /\ e.excess > 0

LEMMA EpisodeSpans ==
    ASSUME NEW view, RealStates(view.states), NEW e \in EpisodesOf(view).found
    PROVE  Episode(e, view) /\ \E first, close : Spans(e, view.states, first, close)
<1>. DEFINE S        == view.states
            holding  == {s \in S : s.holds}
            firsts   == {s \in holding : ~\E q \in holding : q.i = s.i - 1}
            after(s) == {q \in S : q.i > s.i /\ ~q.holds}
            close(s) == CHOOSE q \in after(s) : \A r \in after(s) : q.i <= r.i
            run(s)   == [states |-> {q \in holding : s.i <= q.i /\ q.i < close(s).i}, close |-> close(s)]
            runs     == {run(s) : s \in {x \in firsts : after(x) # {}}}
<1>1. EpisodesOf(view).found = {EpisodeOf(view.stream, view.day, r) : r \in runs}
  BY DEF EpisodesOf
<1>2. PICK x \in {y \in firsts : after(y) # {}} : e = EpisodeOf(view.stream, view.day, run(x))
  <2>. HIDE DEF firsts, after, run
  <2>. QED BY <1>1
<1>. DEFINE R == {q \in holding : x.i <= q.i /\ q.i < close(x).i}
            b == close(x)
            w == WorstState(R)
            a == CHOOSE s \in R : \A q \in R : s.i <= q.i
<1>3. b \in after(x) /\ \A r \in after(x) : b.i <= r.i
  <2>1. after(x) # {} /\ after(x) \in SUBSET S
    BY <1>2
  <2>. HIDE DEF after
  <2>2. \E s \in after(x) : \A q \in after(x) : s.i <= q.i
    BY <2>1, FirstState
  <2>. QED BY <2>2
<1>4. run(x).states = R /\ run(x).close = b
  OBVIOUS
<1>5. /\ e.start = a.at /\ e.end = b.at /\ e.excess = w.excess
      /\ e.stream = view.stream /\ e.day = view.day
      /\ e.tradeable <=> b.at - a.at >= LdPersist /\ w.excess > 0 /\ w.depth >= LdDepthMin
  <2>. HIDE DEF R, b, run
  <2>. QED BY <1>2, <1>4 DEF EpisodeOf
<1>6. x \in S /\ b \in S /\ x.holds /\ x.i \in Nat /\ b.i \in Nat /\ x.i < b.i
  <2>1. x \in S /\ b \in S /\ x.holds /\ b.i > x.i
    BY <1>3
  <2>. HIDE DEF S, b, firsts, after
  <2>. QED BY <2>1 DEF RealStates, S
<1>7. x \in R /\ R \in SUBSET S /\ \A q \in R : x.i <= q.i
  BY <1>6
<1>8. a \in R /\ \A q \in R : a.i <= q.i
  <2>. HIDE DEF R
  <2>. QED BY <1>7
<1>9. a = x
  <2>1. a.i = x.i
    <3>1. a.i \in Nat /\ x.i \in Nat /\ a.i <= x.i /\ x.i <= a.i
      <4>. HIDE DEF R, a
      <4>. QED BY <1>7, <1>8 DEF RealStates
    <3>. HIDE DEF a, R
    <3>. QED BY <3>1
  <2>. HIDE DEF R, a
  <2>. QED BY <2>1, <1>7, <1>8 DEF RealStates
<1>10. w \in R /\ \A q \in R : w.excess <= q.excess
  <2>. HIDE DEF R
  <2>1. R # {} /\ R \in SUBSET view.states
    BY <1>7
  <2>. QED BY <2>1, WorstStateIs
<1>11. ASSUME NEW q \in S, x.i <= q.i, q.i < b.i PROVE q.holds /\ w.excess <= q.excess
  <2>0. q.i \in Nat
    BY DEF RealStates
  <2>1. q.holds
    <3>. SUFFICES ASSUME ~q.holds PROVE FALSE
      OBVIOUS
    <3>1. q.i # x.i
      <4>. HIDE DEF S
      <4>. QED BY <1>6 DEF RealStates, S
    <3>2. q \in after(x)
      <4>. HIDE DEF firsts, b
      <4>. QED BY <3>1, <1>11, <2>0, <1>6
    <3>3. b.i <= q.i
      BY <3>2, <1>3
    <3>. HIDE DEF b
    <3>. QED BY <3>3, <1>11, <2>0, <1>6
  <2>2. q \in R
    BY <2>1, <1>11
  <2>. HIDE DEF w, R
  <2>. QED BY <2>1, <2>2, <1>10
<1>. HIDE DEF a, b, w, S, R
<1>12. Spans(e, view.states, x, b)
  <2>1. w.excess \in Int
    BY <1>7, <1>10 DEF RealStates, S
  <2>. QED BY <1>5, <1>6, <1>9, <1>11, <2>1 DEF Spans, S
<1>13. Episode(e, view)
  BY <1>5 DEF Episode
<1>. QED BY <1>12, <1>13

-----------------------------------------------------------------------------
\* The rows of a book of the job, as the assumption has them.
BookFile(book) ==
    /\ Len(book) \in Nat /\ DOMAIN book = 1..Len(book)
    /\ \A i \in 1..Len(book) : /\ book[i].leg \in LkNames /\ book[i].id \in Int /\ book[i].at \in Int
                               /\ book[i].bid \in Int /\ book[i].ask \in Int
                               /\ book[i].bidDepth \in Nat /\ book[i].askDepth \in Nat
    /\ \A i, k \in 1..Len(book) :
          i < k /\ book[i].at > book[k].at /\ DayOfLeg(book[i].leg) = DayOfLeg(book[k].leg) =>
              book[i].at \div LkDayLength = book[k].at \div LkDayLength /\ book[i].id > book[k].id

\* What a count of a row divides, and what it is charged.
Depths(book) ==
    \A i, k \in 1..Len(book) :
        /\ book[i].askDepth > 0 => LdUnit % book[i].askDepth = 0
        /\ book[i].bidDepth > 0 => LdUnit % book[i].bidDepth = 0
        /\ LdFee(book[i].askDepth, book[k].ask) \in Int /\ LdFee(book[i].bidDepth, book[k].bid) \in Int

LEMMA BooksAreFiles == ASSUME NEW j \in LdJobs PROVE BookFile(j.book) /\ Depths(j.book)
<1>. DEFINE book == j.book
<1>1. /\ Len(book) \in Nat /\ DOMAIN book = 1..Len(book)
      /\ \A i \in DOMAIN book :
            /\ book[i].leg \in LkNames /\ {book[i].id, book[i].at, book[i].bid, book[i].ask} \subseteq Int
            /\ \A n \in {book[i].bidDepth, book[i].askDepth} : n \in Nat /\ (n > 0 => LdUnit % n = 0)
      /\ \A i, k \in DOMAIN book :
            /\ LdFee(book[i].askDepth, book[k].ask) \in Int /\ LdFee(book[i].bidDepth, book[k].bid) \in Int
            /\ i < k /\ book[i].at > book[k].at /\ DayOfLeg(book[i].leg) = DayOfLeg(book[k].leg) =>
                   book[i].at \div LkDayLength = book[k].at \div LkDayLength /\ book[i].id > book[k].id
  BY LadderBookAssumption, Zenon
<1>. HIDE DEF book
<1>2. \A i \in 1..Len(book) : /\ book[i].leg \in LkNames /\ book[i].id \in Int /\ book[i].at \in Int
                              /\ book[i].bid \in Int /\ book[i].ask \in Int
                              /\ book[i].bidDepth \in Nat /\ book[i].askDepth \in Nat
                              /\ book[i].askDepth > 0 => LdUnit % book[i].askDepth = 0
                              /\ book[i].bidDepth > 0 => LdUnit % book[i].bidDepth = 0
  BY <1>1
<1>3. BookFile(book)
  BY <1>1, <1>2 DEF BookFile
<1>4. Depths(book)
  BY <1>1, <1>2 DEF Depths
<1>. QED BY <1>3, <1>4 DEF book

\* The last row of a leg that has arrived by an instant.
LastBy(book, l, u, m) ==
    /\ m \in 1..Len(book) /\ book[m].leg = l
    /\ \A i \in 1..Len(book) : book[i].leg = l => (book[i].at <= u <=> i <= m)

LEMMA BookAtIs ==
    ASSUME ldJob \in LdJobs, NEW l, NEW u \in Int, NEW m, LastBy(ldJob.book, l, u, m)
    PROVE  BookAt(l, u) = ldJob.book[m] /\ InForce(OfLeg(ldJob.book, l), u) > 0
<1>. DEFINE book == ldJob.book
            J == {i \in DOMAIN book : book[i].leg = l}
            q == Among(book, J)
<1>1. BookFile(book)
  BY BooksAreFiles
<1>. HIDE DEF book
<1>2. Len(book) \in Nat /\ DOMAIN book = 1..Len(book)
  BY <1>1 DEF BookFile
<1>3. IsFiniteSet(J) /\ J \in SUBSET Int
  <2>1. IsFiniteSet(1..Len(book))
    BY <1>2, FS_Interval
  <2>. QED BY <1>2, <2>1, FS_Subset
<1>4. PICK h : Picked(q, book, J, h)
  BY <1>3, AmongIs
<1>5. LastBy(book, l, u, m)
  BY DEF book
<1>6. m \in J /\ \A i \in J : book[i].at <= u <=> i <= m
  BY <1>2, <1>5 DEF LastBy
<1>. HIDE DEF J, q
<1>7. /\ Len(q) \in Nat /\ DOMAIN q = 1..Len(q) /\ h \in [1..Len(q) -> J]
      /\ \A i \in J : \E n \in 1..Len(q) : h[n] = i
      /\ \A k, n \in 1..Len(q) : k < n => h[k] < h[n]
      /\ \A n \in 1..Len(q) : q[n] = book[h[n]]
  BY <1>4 DEF Picked
<1>8. PICK p \in 1..Len(q) : h[p] = m
  BY <1>6, <1>7
<1>9. \A k \in 1..Len(q) : q[k].at <= u <=> k <= p
  <2>. SUFFICES ASSUME NEW k \in 1..Len(q) PROVE q[k].at <= u <=> k <= p
    OBVIOUS
  <2>1. q[k].at <= u <=> h[k] <= m
    BY <1>6, <1>7
  <2>2. h[k] \in Int /\ m \in Int /\ k \in Int /\ p \in Int
    <3>1. h[k] \in J /\ J \in SUBSET Int
      BY <1>3, <1>7
    <3>2. h[k] \in Int /\ m \in Int
      BY <3>1, <1>6
    <3>. QED BY <3>2
  <2>3. (k < p => h[k] < m) /\ (p < k => m < h[k]) /\ (k = p => h[k] = m)
    BY <1>7, <1>8
  <2>. QED BY <2>1, <2>2, <2>3
<1>10. {k \in DOMAIN q : q[k].at <= u} = 1..p
  BY <1>7, <1>9
<1>11. InForce(q, u) = p
  <2>1. Cardinality(1..p) = p
    <3>1. p \in Nat /\ 1 <= p
      BY <1>7
    <3>. QED BY <3>1, FS_Interval
  <2>. QED BY <1>10, <2>1 DEF InForce
<1>12. q = OfLeg(ldJob.book, l)
  BY DEF q, J, book, OfLeg
<1>13. BookAt(l, u) = q[p]
  BY <1>11, <1>12 DEF BookAt
<1>. QED BY <1>7, <1>8, <1>11, <1>12, <1>13 DEF book

\* Rows without a descent from one to the next are in order.
LEMMA NoDescent ==
    ASSUME NEW rows, Len(rows) \in Nat, \A k \in 1..Len(rows) : rows[k].id \in Int, ~OutOfOrder(rows)
    PROVE  \A m, n \in 1..Len(rows) : m < n => rows[m].id <= rows[n].id
<1>. SUFFICES ASSUME NEW m \in 1..Len(rows), NEW n \in 1..Len(rows), m < n, rows[m].id > rows[n].id
              PROVE  FALSE
  OBVIOUS
<1>. DEFINE T == {k \in 1..n : m <= k /\ rows[m].id <= rows[k].id}
<1>1. n \in Nat /\ T \in SUBSET (0..n) /\ m \in T
  OBVIOUS
<1>2. PICK k \in T : \A x \in T : x <= k
  <2>. HIDE DEF T
  <2>. QED BY <1>1, LargestOf
<1>3. k \in 1..n /\ m <= k /\ rows[m].id <= rows[k].id
  OBVIOUS
<1>4. k # n
  BY <1>3
<1>5. k + 1 \in 1..n /\ k \in 1..(Len(rows) - 1)
  BY <1>3, <1>4
<1>6. rows[k].id <= rows[k + 1].id
  <2>1. ~(rows[k].id > rows[k + 1].id)
    BY <1>5 DEF OutOfOrder
  <2>. QED BY <2>1, <1>5, <1>3
<1>7. k + 1 \in T
  BY <1>3, <1>5, <1>6
<1>. QED BY <1>2, <1>3, <1>7

\* The rows of a ladder, each by its place in the book.
TapeIndex(day, legs) ==
    {i \in DOMAIN ldJob.book : /\ ldJob.book[i].leg \in legs
                               /\ ldJob.book[i].at \div LkDayLength \in DatesOf(day)}

TapeOf(day, legs, rows, g) ==
    /\ Picked(rows, ldJob.book, TapeIndex(day, legs), g)
    /\ \A m, n \in 1..Len(rows) : m < n => rows[m].at <= rows[n].at
    /\ \A n \in 1..Len(rows) : g[n] \in 1..Len(ldJob.book) /\ rows[n] = ldJob.book[g[n]] /\ rows[n].leg \in legs

LEMMA TapeIs ==
    ASSUME ldJob \in LdJobs, NEW day, NEW legs, \A l \in legs : DayOfLeg(l) = day,
           ~OutOfOrder(RowsOfLadder(day, legs))
    PROVE  \E g : TapeOf(day, legs, RowsOfLadder(day, legs), g)
<1>. DEFINE book == ldJob.book
            I == TapeIndex(day, legs)
            rows == RowsOfLadder(day, legs)
<1>1. BookFile(book)
  BY BooksAreFiles
<1>2. rows = Among(book, I)
  BY DEF RowsOfLadder, TapeIndex
<1>3. \A i \in I : i \in DOMAIN book /\ book[i].leg \in legs
  BY DEF TapeIndex
<1>4. I \in SUBSET DOMAIN book
  BY DEF TapeIndex
<1>. HIDE DEF book, I, rows
<1>5. Len(book) \in Nat /\ DOMAIN book = 1..Len(book)
  BY <1>1 DEF BookFile
<1>6. IsFiniteSet(I) /\ I \in SUBSET Int
  <2>1. IsFiniteSet(1..Len(book))
    BY <1>5, FS_Interval
  <2>. QED BY <1>4, <1>5, <2>1, FS_Subset
<1>7. PICK g : Picked(rows, book, I, g)
  BY <1>2, <1>6, AmongIs
<1>8. /\ Len(rows) \in Nat /\ g \in [1..Len(rows) -> I]
      /\ \A m, n \in 1..Len(rows) : m < n => g[m] < g[n]
      /\ \A n \in 1..Len(rows) : rows[n] = book[g[n]]
  BY <1>7 DEF Picked
<1>9. \A n \in 1..Len(rows) : g[n] \in 1..Len(book) /\ rows[n].leg \in legs
  <2>1. \A n \in 1..Len(rows) : g[n] \in I
    BY <1>8
  <2>. QED BY <2>1, <1>3, <1>5, <1>8
<1>10. \A n \in 1..Len(rows) : rows[n].id \in Int /\ rows[n].at \in Int
  BY <1>1, <1>8, <1>9 DEF BookFile
<1>11. \A m, n \in 1..Len(rows) : m < n => rows[m].id <= rows[n].id
  <2>1. ~OutOfOrder(rows)
    BY DEF rows
  <2>. QED BY <2>1, <1>8, <1>10, NoDescent
<1>12. ASSUME NEW m \in 1..Len(rows), NEW n \in 1..Len(rows), m < n PROVE rows[m].at <= rows[n].at
  <2>1. ~(rows[m].id > rows[n].id)
    BY <1>10, <1>11, <1>12
  <2>2. g[m] < g[n] /\ DayOfLeg(rows[m].leg) = DayOfLeg(rows[n].leg)
    BY <1>8, <1>9, <1>12
  <2>3. ~(rows[m].at > rows[n].at)
    BY <1>1, <1>8, <1>9, <2>1, <2>2 DEF BookFile
  <2>. QED BY <2>3, <1>10
<1>13. TapeOf(day, legs, rows, g)
  BY <1>7, <1>8, <1>9, <1>12 DEF TapeOf, book, I
<1>. QED BY <1>13 DEF rows

\* The n-th row is the last of a tape that has arrived by an instant.
RowBy(rows, n, u) ==
    /\ n \in 1..Len(rows) /\ rows[n].at <= u
    /\ \A k \in 1..Len(rows) : n < k => u < rows[k].at

\* What a tape carries of a leg is its last row in the whole book.
LEMMA RowCarried ==
    ASSUME ldJob \in LdJobs, NEW day \in DOMAIN LkDays, NEW legs, \A l \in legs : DayOfLeg(l) = day,
           NEW rows, NEW g, TapeOf(day, legs, rows, g), NEW u \in Int, NEW n, RowBy(rows, n, u),
           u \div LkDayLength \in DatesOf(day), NEW l \in legs, \E j \in 1..n : rows[j].leg = l
    PROVE  \E m : LastBy(ldJob.book, l, u, m) /\ CarriedRow(rows, l, n) = ldJob.book[m]
<1>. DEFINE book == ldJob.book
            D == LkDayLength
            I == TapeIndex(day, legs)
            J == {j \in 1..n : rows[j].leg = l}
            c == Max(J)
            lo == LkDays[day].start \div D
            hi == LkDays[day].end \div D
<1>1. BookFile(book)
  BY BooksAreFiles
<1>2. D \in Nat \ {0} /\ lo \in Int /\ hi \in Int /\ DatesOf(day) = lo..hi
  BY LadderAssumption, LockAssumption DEF DatesOf, WindowDates
<1>3. /\ Len(rows) \in Nat /\ n \in 1..Len(rows)
      /\ g \in [1..Len(rows) -> I]
      /\ \A i \in I : \E k \in 1..Len(rows) : g[k] = i
      /\ \A k, p \in 1..Len(rows) : k < p => g[k] < g[p]
      /\ \A k, p \in 1..Len(rows) : k < p => rows[k].at <= rows[p].at
      /\ \A k \in 1..Len(rows) : g[k] \in 1..Len(book) /\ rows[k] = book[g[k]]
  BY DEF TapeOf, Picked, RowBy
<1>4. \A i : i \in I <=> i \in 1..Len(book) /\ book[i].leg \in legs /\ book[i].at \div D \in lo..hi
  BY <1>1, <1>2 DEF TapeIndex, BookFile
<1>5. /\ \A i \in 1..Len(book) : book[i].id \in Int /\ book[i].at \in Int
      /\ \A i, k \in 1..Len(book) :
            i < k /\ book[i].at > book[k].at /\ DayOfLeg(book[i].leg) = DayOfLeg(book[k].leg) =>
                book[i].at \div D = book[k].at \div D /\ book[i].id > book[k].id
      /\ Len(book) \in Nat
  BY <1>1 DEF BookFile
<1>6. c \in J /\ \A x \in J : x <= c
  <2>1. n \in Nat
    BY <1>3
  <2>2. \A j \in J : j \in 0..n
    BY <2>1
  <2>3. J # {}
    OBVIOUS
  <2>. HIDE DEF J
  <2>. QED BY <2>1, <2>2, <2>3, MaxTakes
<1>7. c \in 1..n /\ c \in 1..Len(rows) /\ rows[c].leg = l /\ c \in Int /\ n \in Int
  BY <1>3, <1>6
<1>8. ASSUME NEW k \in 1..Len(rows), rows[k].leg = l, c < k PROVE n < k
  <2>1. k \notin J
    BY <1>6, <1>7, <1>8
  <2>. QED BY <2>1, <1>3, <1>7, <1>8
<1>9. CarriedRow(rows, l, n) = rows[c]
  BY DEF CarriedRow
<1>. DEFINE m == g[c]
<1>. HIDE DEF book, I, J, c, lo, hi
<1>10. m \in 1..Len(book) /\ m \in I /\ book[m] = rows[c] /\ book[m].leg = l /\ book[m].at \div D \in lo..hi
  BY <1>3, <1>4, <1>7
<1>11. book[m].at <= u /\ book[m].at \in Int
  <2>1. rows[n].at <= u /\ rows[n].at \in Int
    BY <1>3, <1>5 DEF RowBy
  <2>2. rows[c].at <= rows[n].at
    BY <1>3, <1>7, <2>1
  <2>. QED BY <1>3, <1>5, <1>10, <2>1, <2>2
<1>12. u \div D \in lo..hi
  BY <1>2
<1>. HIDE DEF m, D
\* A row of the leg that arrived in another day than those of the tape.
<1>13. ASSUME NEW i \in 1..Len(book), book[i].leg = l, i \notin I
       PROVE  book[i].at <= u <=> i <= m
  <2>1. book[i].at \in Int /\ ~(book[i].at \div D \in lo..hi)
    BY <1>4, <1>5, <1>13
  <2>. DEFINE di == book[i].at \div D
              dm == book[m].at \div D
              du == u \div D
  <2>2. di \in Int /\ dm \in Int /\ du \in Int
    BY <2>1, <1>2, <1>11
  <2>3. /\ book[i].at <= u => di <= du
        /\ book[i].at <= book[m].at => di <= dm
        /\ book[m].at <= book[i].at => dm <= di
        /\ u <= book[i].at => du <= di
    BY <2>1, <1>2, <1>11, DaysMount
  <2>4. di < lo \/ hi < di
    BY <2>1, <2>2, <1>2
  <2>5. lo <= dm /\ dm <= hi /\ lo <= du /\ du <= hi
    BY <1>2, <1>10, <1>12
  <2>6. i < m /\ book[i].at > book[m].at => di = dm
    BY <1>5, <1>10, <1>13
  <2>7. m < i /\ book[m].at > book[i].at => dm = di
    BY <1>5, <1>10, <1>13
  <2>8. i # m /\ i \in Int /\ m \in Int
    BY <1>10, <1>13
  <2>. HIDE DEF di, dm, du
  <2>9. CASE di < lo
    <3>1. book[i].at < u /\ book[i].at < book[m].at
      BY <2>1, <2>2, <2>3, <2>5, <2>9, <1>2, <1>11
    <3>2. ~(m < i)
      BY <3>1, <2>2, <2>5, <2>7, <2>9, <1>2, <2>1, <1>11
    <3>. QED BY <3>1, <3>2, <2>1, <2>8, <1>11
  <2>10. CASE hi < di
    <3>1. u < book[i].at /\ book[m].at < book[i].at
      BY <2>1, <2>2, <2>3, <2>5, <2>10, <1>2, <1>11
    <3>2. ~(i < m)
      BY <3>1, <2>2, <2>5, <2>6, <2>10, <1>2, <2>1, <1>11
    <3>. QED BY <3>1, <3>2, <2>1, <2>8, <1>11
  <2>. QED BY <2>4, <2>9, <2>10
<1>14. ASSUME NEW i \in I, book[i].leg = l PROVE book[i].at <= u <=> i <= m
  <2>1. PICK k \in 1..Len(rows) : g[k] = i
    BY <1>3
  <2>2. rows[k] = book[i] /\ i \in Int /\ k \in Int /\ book[i].at \in Int
    BY <2>1, <1>3, <1>4, <1>5
  <2>3. CASE c < k
    <3>1. n < k /\ m < i
      BY <1>3, <1>7, <1>8, <1>14, <2>1, <2>2, <2>3 DEF m
    <3>2. u < book[i].at
      BY <3>1, <2>2 DEF RowBy
    <3>. QED BY <3>1, <3>2, <2>2, <1>10
  <2>4. CASE k <= c
    <3>0. k = c \/ k < c
      BY <2>2, <2>4, <1>7
    <3>1. i <= m
      <4>1. i = m \/ i < m
        BY <3>0, <1>3, <1>7, <2>1 DEF m
      <4>. QED BY <4>1, <2>2, <1>10
    <3>2. book[i].at <= book[m].at
      <4>1. rows[k].at = rows[c].at \/ rows[k].at <= rows[c].at
        BY <3>0, <1>3, <1>7
      <4>. QED BY <4>1, <2>2, <1>10, <1>11
    <3>. QED BY <3>1, <3>2, <2>2, <1>11
  <2>. QED BY <2>2, <2>3, <2>4, <1>7
<1>15. LastBy(book, l, u, m)
  BY <1>10, <1>13, <1>14 DEF LastBy
<1>. QED BY <1>9, <1>10, <1>15 DEF book

-----------------------------------------------------------------------------
\* What a package is charged, as sums of functions.
LEMMA TotalIs ==
    ASSUME NEW stream, NEW book
    PROVE  LadderTotal(stream, book) = SumFunction([l \in DOMAIN book |-> LadderPrice(stream, book[l])])
<1>. DEFINE S == DOMAIN book
            e(l) == LadderPrice(stream, book[l])
            f == [l \in S |-> e(l)]
            Sums(g) == [s \in SUBSET S |-> IF s = {} THEN 0 ELSE e(Pick(s)) + g[s \ {Pick(s)}]]
<1>1. \A g : (g = Sums(g)) <=> Adds(f, g, S)
  BY PickTakes DEF Added, Adds
<1>2. SumFunction(f) = (CHOOSE g : Adds(f, g, S))[S]
  BY SumIsChosen
<1>3. MapThenSumSet(LAMBDA l : e(l), S) = (CHOOSE g : g = Sums(g))[S]
  BY DEF MapThenSumSet, MapThenFoldSet, Pick
<1>4. (CHOOSE g : g = Sums(g)) = (CHOOSE g : Adds(f, g, S))
  <2>. HIDE DEF Sums, f
  <2>. QED BY <1>1
<1>5. LadderTotal(stream, book) = MapThenSumSet(LAMBDA l : e(l), S)
  BY DEF LadderTotal
<1>. QED BY <1>2, <1>3, <1>4, <1>5

LEMMA FeesAre ==
    ASSUME NEW stream, NEW book, NEW n
    PROVE  LadderFees(stream, book, n) = SumFunction([l \in DOMAIN book |-> LdFee(n, LadderPrice(stream, book[l]))])
<1>. DEFINE S == DOMAIN book
            e(l) == LdFee(n, LadderPrice(stream, book[l]))
            f == [l \in S |-> e(l)]
            Sums(g) == [s \in SUBSET S |-> IF s = {} THEN 0 ELSE e(Pick(s)) + g[s \ {Pick(s)}]]
<1>1. \A g : (g = Sums(g)) <=> Adds(f, g, S)
  BY PickTakes DEF Added, Adds
<1>2. SumFunction(f) = (CHOOSE g : Adds(f, g, S))[S]
  BY SumIsChosen
<1>3. MapThenSumSet(LAMBDA l : e(l), S) = (CHOOSE g : g = Sums(g))[S]
  BY DEF MapThenSumSet, MapThenFoldSet, Pick
<1>4. (CHOOSE g : g = Sums(g)) = (CHOOSE g : Adds(f, g, S))
  <2>. HIDE DEF Sums, f
  <2>. QED BY <1>1
<1>5. LadderFees(stream, book, n) = MapThenSumSet(LAMBDA l : e(l), S)
  BY DEF LadderFees
<1>. QED BY <1>2, <1>3, <1>4, <1>5

\* A package of rows of the job.
Package(book) ==
    /\ IsFiniteSet(DOMAIN book) /\ DOMAIN book # {}
    /\ \A l \in DOMAIN book : \E m \in 1..Len(ldJob.book) : book[l] = ldJob.book[m]

\* Its depth is that of one of its rows, and what it costs at that depth a number.
LEMMA PackageIs ==
    ASSUME ldJob \in LdJobs, NEW stream, NEW book, Package(book)
    PROVE  /\ LadderDepth(stream, book) \in Nat
           /\ LadderDepth(stream, book) > 0 => LdUnit % LadderDepth(stream, book) = 0
           /\ LadderTotal(stream, book) \in Int
           /\ LadderFees(stream, book, LadderDepth(stream, book)) \in Int
<1>. DEFINE S == DOMAIN book
            file == ldJob.book
            f == [l \in S |-> LadderSize(stream, book[l])]
            V == {f[l] : l \in S}
            n == LadderDepth(stream, book)
            p == [l \in S |-> LadderPrice(stream, book[l])]
            q == [l \in S |-> LdFee(n, LadderPrice(stream, book[l]))]
<1>1. BookFile(file) /\ Depths(file)
  BY BooksAreFiles
<1>2. IsFiniteSet(S) /\ S # {} /\ \A l \in S : \E m \in 1..Len(file) : book[l] = file[m]
  BY DEF Package
<1>. HIDE DEF file
<1>3. \A l \in S : f[l] \in Nat /\ LadderPrice(stream, book[l]) \in Int
  BY <1>1, <1>2 DEF BookFile, LadderSize, LadderPrice
<1>4. n = Min(V)
  BY DEF LadderSize, LadderDepth
<1>5. n \in V
  <2>1. V \in SUBSET Nat /\ V # {}
    <3>. HIDE DEF f
    <3>. QED BY <1>2, <1>3
  <2>. HIDE DEF V, n
  <2>. QED BY <1>4, <2>1, MinTakes
<1>6. PICK k \in S : n = f[k]
  <2>. HIDE DEF f, n
  <2>. QED BY <1>5
<1>7. n = LadderSize(stream, book[k])
  BY <1>6
<1>8. PICK i \in 1..Len(file) : book[k] = file[i]
  BY <1>2
<1>. HIDE DEF n
<1>9. n \in Nat /\ (n > 0 => LdUnit % n = 0)
  BY <1>1, <1>7, <1>8 DEF BookFile, Depths, LadderSize
<1>10. \A l \in S : LdFee(n, LadderPrice(stream, book[l])) \in Int
  <2>. SUFFICES ASSUME NEW l \in S PROVE LdFee(n, LadderPrice(stream, book[l])) \in Int
    OBVIOUS
  <2>1. PICK m \in 1..Len(file) : book[l] = file[m]
    BY <1>2
  <2>2. /\ LdFee(file[i].askDepth, file[m].ask) \in Int
        /\ LdFee(file[i].bidDepth, file[m].bid) \in Int
    BY <1>1 DEF Depths
  <2>3. CASE stream = "sum_buy"
    BY <1>7, <1>8, <2>1, <2>2, <2>3 DEF LadderSize, LadderPrice
  <2>4. CASE stream # "sum_buy"
    BY <1>7, <1>8, <2>1, <2>2, <2>4 DEF LadderSize, LadderPrice
  <2>. QED BY <2>3, <2>4
<1>11. p \in [S -> Int] /\ q \in [S -> Int]
  BY <1>3, <1>10
<1>12. SumFunction(p) \in Int /\ SumFunction(q) \in Int
  <2>. HIDE DEF p, q, S
  <2>. QED BY <1>2, <1>11, SumType
<1>13. LadderTotal(stream, book) \in Int /\ LadderFees(stream, book, n) \in Int
  BY <1>12, TotalIs, FeesAre
<1>. QED BY <1>9, <1>13 DEF n

\* The package of the legs that the venue lists for a day: all of them, or
\* those that are no brackets.
Listed(stream, day) == {l \in LadderOf(day) : stream # "monotonicity" \/ LkLegs[l].listed # "bracket"}

LEMMA PackageListed ==
    ASSUME NEW stream, NEW day
    PROVE  PackageOf(stream, LadderOf(day)) = Listed(stream, day)
<1>. DEFINE legs == LadderOf(day)
<1>1. \A l \in legs : /\ LkLegs[l].kind \in {"bracket", "above", "below"}
                      /\ LkLegs[l].kind = "bracket" <=> LkLegs[l].listed = "bracket"
  BY LadderAssumption DEF LadderOf
<1>. HIDE DEF legs
<1>2. ASSUME NEW l \in legs
      PROVE  KindIn(l, legs) \in {"below", "above"} <=> LkLegs[l].listed # "bracket"
  <2>1. KindIn(l, legs) = LkLegs[l].kind \/ (KindIn(l, legs) = "below" /\ LkLegs[l].kind = "above")
    BY DEF KindIn
  <2>. QED BY <1>1, <2>1
<1>3. TailsOf(legs, "below") \cup TailsOf(legs, "above") = {l \in legs : LkLegs[l].listed # "bracket"}
  BY <1>2 DEF TailsOf
<1>. QED BY <1>3 DEF PackageOf, Listed, legs

\* However a day settles, one leg of a whole ladder is paid, and no more than
\* one of a part of it.
Paid(S, temp) == {l \in S : SettlesYes(l, LkLegs[l].listed, temp)}

LEMMA OneIsPaid ==
    ASSUME NEW day \in DOMAIN LkDays, Cardinality(LadderOf(day)) = LdLegs, NEW temp \in LdTemps, NEW stream
    PROVE  /\ Cardinality(Paid(Listed(stream, day), temp)) \in 0..1
           /\ stream # "monotonicity" => Cardinality(Paid(Listed(stream, day), temp)) = 1
<1>. DEFINE P == Paid(LadderOf(day), temp)
            Q == Paid(Listed(stream, day), temp)
<1>1. Cardinality(P) = 1
  BY LadderAssumption DEF Paid
<1>2. IsFiniteSet(P) /\ Q \in SUBSET P
  <2>1. P \in SUBSET LkNames
    BY DEF Paid, LadderOf
  <2>2. IsFiniteSet(LkNames)
    BY LadderAssumption
  <2>3. Q \in SUBSET P
    BY DEF Paid, Listed
  <2>. HIDE DEF P
  <2>. QED BY <2>1, <2>2, <2>3, FS_Subset
<1>3. stream # "monotonicity" => Q = P
  BY DEF Paid, Listed
<1>. HIDE DEF P, Q
<1>4. Cardinality(Q) \in Nat /\ Cardinality(Q) <= Cardinality(P)
  BY <1>2, FS_Subset, FS_CardinalityType
<1>5. Cardinality(Q) \in 0..1 /\ (stream # "monotonicity" => Cardinality(Q) = 1)
  BY <1>1, <1>3, <1>4
<1>. QED BY <1>5 DEF Q

\* What is left of a multiple of a depth after the fees, put back to the depth.
LEMMA ExcessScales ==
    ASSUME NEW unit \in Nat \ {0}, NEW depth \in Nat \ {0}, unit % depth = 0,
           NEW net \in Int, NEW fees \in Int, unit * net - (unit * fees) \div depth > 0
    PROVE  depth * net - fees > 0
<1>. DEFINE k == unit \div depth
<1>1. k \in Nat /\ unit = depth * k
  <2>1. unit = depth * (unit \div depth) + (unit % depth)
    OBVIOUS
  <2>. QED BY <2>1
<1>. HIDE DEF k
<1>2. k > 0
  <2>1. k = 0 => depth * k = 0
    BY <1>1
  <2>. QED BY <1>1, <2>1
<1>3. (unit * fees) \div depth = k * fees
  <2>1. unit * fees = depth * (k * fees)
    BY <1>1
  <2>2. k * fees \in Int
    BY <1>1
  <2>3. \A x \in Int : (depth * x) \div depth = x
    BY SMT
  <2>. QED BY <2>1, <2>2, <2>3
<1>4. k * (depth * net - fees) > 0
  <2>1. unit * net = k * (depth * net)
    BY <1>1
  <2>2. k * (depth * net - fees) = k * (depth * net) - k * fees
    <3>1. depth * net \in Int
      OBVIOUS
    <3>2. \A x \in Int : k * (x - fees) = k * x - k * fees
      BY <1>1, SMT
    <3>. QED BY <3>1, <3>2
  <2>. QED BY <1>3, <2>1, <2>2
<1>5. depth * net - fees \in Int
  OBVIOUS
<1>6. \A x \in Int : k * x > 0 => x > 0
  BY <1>1, <1>2, SMT
<1>. QED BY <1>4, <1>5, <1>6

\* The rows that a tape carries of a package are its book at the instant.
CarriedBook(rows, package, n) == [l \in package |-> CarriedRow(rows, l, n)]
LadderBook(package, u) == [l \in package |-> BookAt(l, u)]

\* A tape of a day's whole ladder, and the row in force on it at an instant.
ReadAt(day, stream, rows, g, n, u) ==
    /\ IsLadder(LadderOf(day)) /\ TapeOf(day, LadderOf(day), rows, g)
    /\ u \in Int /\ RowBy(rows, n, u) /\ u \div LkDayLength \in DatesOf(day)
    /\ \A l \in Listed(stream, day) : \E j \in 1..n : rows[j].leg = l

LEMMA CarriedIsBook ==
    ASSUME ldJob \in LdJobs, NEW day \in DOMAIN LkDays, NEW stream, NEW rows, NEW g, NEW n, NEW u,
           ReadAt(day, stream, rows, g, n, u)
    PROVE  /\ CarriedBook(rows, Listed(stream, day), n) = LadderBook(Listed(stream, day), u)
           /\ \A l \in Listed(stream, day) : /\ InForce(OfLeg(ldJob.book, l), u) > 0
                                             /\ \E m \in 1..Len(ldJob.book) : BookAt(l, u) = ldJob.book[m]
<1>1. ASSUME NEW l \in Listed(stream, day)
      PROVE  /\ CarriedRow(rows, l, n) = BookAt(l, u) /\ InForce(OfLeg(ldJob.book, l), u) > 0
             /\ \E m \in 1..Len(ldJob.book) : BookAt(l, u) = ldJob.book[m]
  <2>1. /\ TapeOf(day, LadderOf(day), rows, g) /\ u \in Int /\ RowBy(rows, n, u)
        /\ u \div LkDayLength \in DatesOf(day) /\ \E j \in 1..n : rows[j].leg = l
    BY DEF ReadAt
  <2>2. l \in LadderOf(day) /\ \A k \in LadderOf(day) : DayOfLeg(k) = day
    BY DEF Listed, LadderOf
  <2>3. PICK m : LastBy(ldJob.book, l, u, m) /\ CarriedRow(rows, l, n) = ldJob.book[m]
    <3>. DEFINE legs == LadderOf(day)
    <3>1. /\ TapeOf(day, legs, rows, g) /\ u \in Int /\ RowBy(rows, n, u)
          /\ u \div LkDayLength \in DatesOf(day) /\ \E j \in 1..n : rows[j].leg = l
          /\ l \in legs /\ \A k \in legs : DayOfLeg(k) = day
      BY <2>1, <2>2
    <3>. HIDE DEF legs
    <3>. QED BY <3>1, RowCarried
  <2>4. m \in 1..Len(ldJob.book)
    BY <2>3 DEF LastBy
  <2>. QED BY <2>1, <2>3, <2>4, BookAtIs
<1>. QED BY <1>1 DEF CarriedBook, LadderBook

LEMMA StatePays ==
    ASSUME ldJob \in LdJobs, NEW day \in DOMAIN LkDays, NEW stream \in Streams, NEW rows, NEW g,
           NEW n, NEW u, ReadAt(day, stream, rows, g, n, u),
           NEW s, s = StateOf(stream, rows, Listed(stream, day), n), s.holds, s.excess > 0,
           NEW temp \in LdTemps
    PROVE  LeavesAt(stream, day, u, temp) > 0
<1>. DEFINE L     == Listed(stream, day)
            book  == LadderBook(L, u)
            total == LadderTotal(stream, book)
            depth == LadderDepth(stream, book)
            fees  == LadderFees(stream, book, depth)
            c     == Cardinality(L)
            p     == Cardinality(Paid(L, temp))
            over  == IF stream = "sum_buy" THEN LkDollar - total ELSE total - LkDollar
            holds == over > 0 /\ depth > 0
<1>1. book = CarriedBook(rows, L, n)
  BY CarriedIsBook
<1>2. /\ s.holds = holds
      /\ s.excess = IF holds THEN LdUnit * (over - LdTick * c) - (LdUnit * fees) \div depth ELSE 0
  <2>1. CarriedBook(rows, L, n) = [l \in L |-> CarriedRow(rows, l, n)]
    BY DEF CarriedBook
  <2>2. L = Listed(stream, day)
    OBVIOUS
  <2>3. s = StateOf(stream, rows, L, n)
    OBVIOUS
  <2>4. book = [l \in L |-> CarriedRow(rows, l, n)]
    BY <1>1, <2>1
  <2>. HIDE DEF L, book
  <2>. QED BY <2>3, <2>4 DEF StateOf
<1>3. Package(book)
  <2>1. DOMAIN book = L /\ \A l \in L : book[l] = BookAt(l, u)
    BY DEF LadderBook
  <2>2. IsFiniteSet(L)
    <3>1. L \in SUBSET LkNames
      BY DEF Listed, LadderOf
    <3>. QED BY <3>1, LadderAssumption, FS_Subset
  <2>3. L # {}
    <3>1. IsLadder(LadderOf(day))
      BY DEF ReadAt
    <3>2. Cardinality(TailsOf(LadderOf(day), "below")) = 1
      BY <3>1 DEF IsLadder
    <3>3. TailsOf(LadderOf(day), "below") # {}
      BY <3>2, FS_EmptySet
    <3>4. TailsOf(LadderOf(day), "below") \subseteq PackageOf(stream, LadderOf(day))
      BY DEF PackageOf, TailsOf
    <3>. QED BY <3>3, <3>4, PackageListed
  <2>4. \A l \in L : \E m \in 1..Len(ldJob.book) : BookAt(l, u) = ldJob.book[m]
    BY CarriedIsBook
  <2>. HIDE DEF L, book
  <2>. QED BY <2>1, <2>2, <2>3, <2>4 DEF Package
<1>4. depth \in Nat /\ (depth > 0 => LdUnit % depth = 0) /\ total \in Int /\ fees \in Int
  <2>. HIDE DEF book
  <2>. QED BY <1>3, PackageIs
<1>5. c \in Nat
  <2>1. DOMAIN book = L
    BY DEF LadderBook
  <2>. HIDE DEF book
  <2>. QED BY <1>3, <2>1, FS_CardinalityType DEF Package
<1>6. p \in 0..1 /\ (stream # "monotonicity" => p = 1)
  <2>1. Cardinality(LadderOf(day)) = LdLegs
    BY DEF ReadAt, IsLadder
  <2>. QED BY <2>1, OneIsPaid
<1>7. LdUnit \in Nat \ {0} /\ LdTick \in Int /\ LkDollar \in Nat
  BY LadderAssumption, LadderBookAssumption
<1>8. LeavesAt(stream, day, u, temp)
        = depth * ((IF stream = "sum_buy" THEN LkDollar * p - total ELSE total - LkDollar * p) - LdTick * c) - fees
  <2>1. L = {l \in LadderOf(day) : stream # "monotonicity" \/ LkLegs[l].listed # "bracket"}
    BY DEF Listed
  <2>2. book = [l \in L |-> BookAt(l, u)]
    BY DEF LadderBook
  <2>3. Paid(L, temp) = {l \in L : SettlesYes(l, LkLegs[l].listed, temp)}
    BY DEF Paid
  <2>. HIDE DEF L, book
  <2>. QED BY <2>1, <2>2, <2>3 DEF LeavesAt
<1>. HIDE DEF L, book, total, depth, fees, c, p
<1>9. over > 0 /\ depth > 0 /\ LdUnit * (over - LdTick * c) - (LdUnit * fees) \div depth > 0
  BY <1>2
<1>10. over \in Int /\ LdTick * c \in Int
  BY <1>4, <1>5, <1>7
<1>. HIDE DEF over
<1>11. depth * (over - LdTick * c) - fees > 0
  <2>1. depth \in Nat \ {0} /\ LdUnit % depth = 0 /\ over - LdTick * c \in Int
    BY <1>4, <1>9, <1>10
  <2>. QED BY <2>1, <1>4, <1>7, <1>9, ExcessScales
<1>. DEFINE gain == IF stream = "sum_buy" THEN LkDollar * p - total ELSE total - LkDollar * p
<1>12. gain \in Int /\ over <= gain
  <2>1. p = 0 \/ p = 1
    BY <1>6
  <2>2. LkDollar * p = 0 \/ LkDollar * p = LkDollar
    BY <2>1, <1>7
  <2>3. stream = "sum_buy" => LkDollar * p = LkDollar
    BY <1>6, <1>7
  <2>. QED BY <2>2, <2>3, <1>4, <1>7 DEF over
<1>13. LeavesAt(stream, day, u, temp) = depth * (gain - LdTick * c) - fees
  BY <1>8
<1>. HIDE DEF gain
<1>14. \A x, y, d \in Int : d > 0 /\ x <= y => d * x <= d * y
  BY SMT
<1>15. depth * (over - LdTick * c) <= depth * (gain - LdTick * c)
  BY <1>4, <1>9, <1>10, <1>12, <1>14
<1>16. depth * (over - LdTick * c) \in Int /\ depth * (gain - LdTick * c) \in Int
  BY <1>4, <1>10, <1>12
<1>. QED BY <1>4, <1>11, <1>13, <1>15, <1>16

-----------------------------------------------------------------------------
\* A ladder on tape is all that the venue lists for the day.
LEMMA WholeLadder ==
    ASSUME ldJob \in LdJobs, NEW day \in DOMAIN LkDays, IsLadder(OnTape(day))
    PROVE  OnTape(day) = LadderOf(day)
<1>. DEFINE S == OnTape(day)
            T == LadderOf(day)
<1>1. S \in SUBSET T
  <2>. SUFFICES ASSUME NEW l \in S PROVE l \in T
    OBVIOUS
  <2>1. PICK r \in Range(ldJob.book) : DayOfLeg(r.leg) = day /\ l = r.leg
    BY DEF OnTape
  <2>2. r.leg \in LkNames
    BY <2>1, BooksAreFiles DEF BookFile, Range
  <2>. QED BY <2>1, <2>2 DEF LadderOf
<1>2. IsFiniteSet(T)
  <2>1. T \in SUBSET LkNames
    BY DEF LadderOf
  <2>. QED BY <2>1, LadderAssumption, FS_Subset
<1>3. Cardinality(S) = LdLegs /\ Cardinality(T) <= LdLegs
  BY LadderAssumption DEF IsLadder
<1>. HIDE DEF S, T
<1>4. Cardinality(S) \in Nat /\ Cardinality(T) \in Nat /\ Cardinality(S) <= Cardinality(T)
      /\ (Cardinality(S) = Cardinality(T) => S = T)
  BY <1>1, <1>2, FS_Subset, FS_CardinalityType
<1>5. S = T
  BY <1>3, <1>4, LadderBookAssumption
<1>. QED BY <1>5 DEF S, T

\* The rows of a tape from which every leg of a package is live.
LiveRows(rows, package) == {i \in DOMAIN rows : \A l \in package : \E j \in 1..i : rows[j].leg = l}

LEMMA LiveStays ==
    ASSUME NEW rows, Len(rows) \in Nat, DOMAIN rows = 1..Len(rows), NEW package,
           NEW i \in LiveRows(rows, package), NEW k \in 1..Len(rows), i <= k
    PROVE  k \in LiveRows(rows, package)
<1>1. i \in 1..Len(rows) /\ \A l \in package : \E j \in 1..i : rows[j].leg = l
  BY DEF LiveRows
<1>2. 1..i \subseteq 1..k
  BY <1>1
<1>3. \A l \in package : \E j \in 1..k : rows[j].leg = l
  BY <1>1, <1>2
<1>. QED BY <1>3 DEF LiveRows

LEMMA StateIsReal ==
    ASSUME ldJob \in LdJobs, NEW day, NEW legs, NEW rows, NEW g, TapeOf(day, legs, rows, g),
           NEW stream, NEW package, IsFiniteSet(package), package # {},
           NEW i \in LiveRows(rows, package)
    PROVE  /\ StateOf(stream, rows, package, i).i = i /\ StateOf(stream, rows, package, i).at = rows[i].at
           /\ StateOf(stream, rows, package, i).excess \in Int
<1>. DEFINE book  == CarriedBook(rows, package, i)
            total == LadderTotal(stream, book)
            depth == LadderDepth(stream, book)
            fees  == LadderFees(stream, book, depth)
            c     == Cardinality(package)
            over  == IF stream = "sum_buy" THEN LkDollar - total ELSE total - LkDollar
            s     == StateOf(stream, rows, package, i)
<1>1. book = [l \in package |-> CarriedRow(rows, l, i)]
  BY DEF CarriedBook
<1>. HIDE DEF book
<1>2. /\ s.i = i /\ s.at = rows[i].at
      /\ s.excess = IF over > 0 /\ depth > 0
                    THEN LdUnit * (over - LdTick * c) - (LdUnit * fees) \div depth ELSE 0
  BY <1>1 DEF StateOf
<1>3. /\ Len(rows) \in Nat /\ DOMAIN rows = 1..Len(rows)
      /\ \A n \in 1..Len(rows) : g[n] \in 1..Len(ldJob.book) /\ rows[n] = ldJob.book[g[n]]
  BY DEF TapeOf, Picked
<1>4. i \in 1..Len(rows) /\ \A l \in package : \E j \in 1..i : rows[j].leg = l
  BY <1>3 DEF LiveRows
<1>5. ASSUME NEW l \in package PROVE \E m \in 1..Len(ldJob.book) : CarriedRow(rows, l, i) = ldJob.book[m]
  <2>. DEFINE J == {j \in 1..i : rows[j].leg = l}
  <2>1. i \in Nat
    BY <1>3, <1>4
  <2>2. J # {} /\ \A j \in J : j \in 0..i
    BY <1>4, <2>1
  <2>3. Max(J) \in J
    <3>. HIDE DEF J
    <3>. QED BY <2>1, <2>2, MaxTakes
  <2>4. Max(J) \in 1..Len(rows)
    BY <2>3, <1>3, <1>4
  <2>5. CarriedRow(rows, l, i) = rows[Max(J)]
    BY DEF CarriedRow
  <2>. HIDE DEF J
  <2>. QED BY <2>4, <2>5, <1>3
<1>6. Package(book)
  <2>1. DOMAIN book = package /\ \A l \in package : book[l] = CarriedRow(rows, l, i)
    BY <1>1
  <2>. QED BY <2>1, <1>5 DEF Package
<1>7. depth \in Nat /\ total \in Int /\ fees \in Int
  BY <1>6, PackageIs
<1>8. c \in Nat /\ LdUnit \in Nat \ {0} /\ LdTick \in Int /\ LkDollar \in Nat
  BY FS_CardinalityType, LadderAssumption, LadderBookAssumption
<1>. HIDE DEF total, depth, fees, c, s
<1>9. over \in Int /\ LdTick * c \in Int
  BY <1>7, <1>8
<1>. HIDE DEF over
<1>10. LdUnit * (over - LdTick * c) \in Int /\ LdUnit * fees \in Int
  BY <1>7, <1>8, <1>9
<1>11. depth > 0 => (LdUnit * fees) \div depth \in Int
  BY <1>7, <1>10
<1>12. s.excess \in Int
  BY <1>2, <1>10, <1>11, <1>7
<1>. QED BY <1>2, <1>12 DEF s

\* A ladder whose rows are in order, as it is read.
ReadLadder(day) ==
    /\ day \in DOMAIN LkDays /\ IsLadder(OnTape(day)) /\ ~OutOfOrder(TapeOfLadder(day).rows)

\* What a view of it is.
ViewOfDay(day, stream, rows, g) ==
    LET S == ViewOf(stream, TapeOfLadder(day)).states
        L == Listed(stream, day)
    IN  /\ TapeOf(day, LadderOf(day), rows, g) /\ IsLadder(LadderOf(day))
        /\ S = {StateOf(stream, rows, L, i) : i \in LiveRows(rows, L)}
        /\ \A i \in LiveRows(rows, L) : /\ StateOf(stream, rows, L, i).i = i
                                        /\ StateOf(stream, rows, L, i).at = rows[i].at
        /\ RealStates(S)

LEMMA ViewIsRead ==
    ASSUME ldJob \in LdJobs, NEW day, ReadLadder(day), NEW stream \in Streams
    PROVE  \E g : ViewOfDay(day, stream, TapeOfLadder(day).rows, g)
<1>. DEFINE legs == LadderOf(day)
            rows == TapeOfLadder(day).rows
            L == Listed(stream, day)
            I == LiveRows(rows, L)
            f == [i \in I |-> StateOf(stream, rows, L, i)]
            S == {f[i] : i \in I}
<1>1. day \in DOMAIN LkDays /\ OnTape(day) = legs /\ IsLadder(legs)
  BY WholeLadder DEF ReadLadder
<1>2. rows = RowsOfLadder(day, legs) /\ TapeOfLadder(day).legs = legs /\ TapeOfLadder(day).day = day
  BY <1>1 DEF TapeOfLadder
<1>3. PICK g : TapeOf(day, legs, rows, g)
  <2>1. ~OutOfOrder(RowsOfLadder(day, legs))
    BY <1>2 DEF ReadLadder
  <2>2. \A l \in legs : DayOfLeg(l) = day
    BY DEF LadderOf
  <2>. HIDE DEF legs, rows
  <2>. QED BY <1>2, <2>1, <2>2, TapeIs
<1>4. PackageOf(stream, legs) = L
  BY PackageListed
<1>5. ViewOf(stream, TapeOfLadder(day)).states = S
  <2>. DEFINE tape == TapeOfLadder(day)
  <2>1. ViewOf(stream, tape).states = {StateOf(stream, tape.rows, PackageOf(stream, tape.legs), i) :
            i \in LiveRows(tape.rows, PackageOf(stream, tape.legs))}
    <3>. HIDE DEF tape
    <3>. QED BY DEF ViewOf, LiveRows
  <2>2. PackageOf(stream, tape.legs) = L /\ tape.rows = rows
    BY <1>2, <1>4
  <2>. HIDE DEF tape, rows, L
  <2>3. ViewOf(stream, tape).states = {StateOf(stream, rows, L, i) : i \in LiveRows(rows, L)}
    BY <2>1, <2>2
  <2>. QED BY <2>3 DEF tape
<1>6. IsFiniteSet(L) /\ L # {}
  <2>1. L \in SUBSET LkNames
    BY DEF Listed, LadderOf
  <2>2. TailsOf(legs, "below") # {}
    <3>1. Cardinality(TailsOf(legs, "below")) = 1
      BY <1>1 DEF IsLadder
    <3>. QED BY <3>1, FS_EmptySet
  <2>3. TailsOf(legs, "below") \subseteq PackageOf(stream, legs)
    BY DEF PackageOf, TailsOf
  <2>. QED BY <2>1, <2>2, <2>3, <1>4, LadderAssumption, FS_Subset
<1>7. Len(rows) \in Nat /\ DOMAIN rows = 1..Len(rows)
  BY <1>3 DEF TapeOf, Picked
<1>. HIDE DEF rows, L, legs
<1>8. \A i \in I : f[i].i = i /\ f[i].at = rows[i].at /\ f[i].excess \in Int /\ f[i] = StateOf(stream, rows, L, i)
  BY <1>3, <1>6, StateIsReal
<1>9. I \in SUBSET (1..Len(rows))
  BY <1>7 DEF LiveRows
<1>10. RealStates(S)
  <2>1. IsFiniteSet(I)
    <3>1. IsFiniteSet(1..Len(rows))
      BY <1>7, FS_Interval
    <3>. HIDE DEF I
    <3>. QED BY <3>1, <1>9, FS_Subset
  <2>2. IsFiniteSet(S)
    <3>1. DOMAIN f = I
      OBVIOUS
    <3>. HIDE DEF f, I
    <3>. QED BY <2>1, <3>1, ImageIsFinite
  <2>3. \A i \in I : i \in Nat
    BY <1>7, <1>9
  <2>. HIDE DEF f, I
  <2>. QED BY <1>8, <2>2, <2>3 DEF RealStates
<1>11. S = {StateOf(stream, rows, L, i) : i \in I}
  BY <1>8
<1>. HIDE DEF f, S
<1>12. ViewOfDay(day, stream, rows, g)
  BY <1>1, <1>3, <1>5, <1>8, <1>10, <1>11 DEF ViewOfDay, L, legs
<1>. QED BY <1>12 DEF rows

\* The episode is one that the study of its ladder finds, offers and keeps.
LadderAdmitted(e) ==
    /\ ReadLadder(e.day) /\ e.stream \in Streams
    /\ e \in EpisodesOf(ViewOf(e.stream, TapeOfLadder(e.day))).found
    /\ e.tradeable /\ FateOf(e) = "kept"

\* It can be taken at every instant of its span.
Pays(e) ==
    \A u \in e.start..(e.end - 1) :
        /\ \A l \in PackageOf(e.stream, LadderOf(e.day)) : InForce(OfLeg(ldJob.book, l), u) > 0
        /\ \A temp \in LdTemps : LeavesAt(e.stream, e.day, u, temp) > 0

LEMMA AdmittedPays ==
    ASSUME ldJob \in LdJobs, NEW e, LadderAdmitted(e)
    PROVE  Pays(e) /\ e.start \in Int /\ e.end \in Int /\ e.end - e.start >= LdPersist
<1>. DEFINE day == e.day
            stream == e.stream
            view == ViewOf(stream, TapeOfLadder(day))
            S == view.states
            rows == TapeOfLadder(day).rows
            L == Listed(stream, day)
            at(i) == StateOf(stream, rows, L, i)
            D == LkDayLength
            lo == LkDays[day].start \div D
            hi == LkDays[day].end \div D
<1>1. ReadLadder(day) /\ stream \in Streams /\ e \in EpisodesOf(view).found /\ e.tradeable
  BY DEF LadderAdmitted
<1>2. PICK g : ViewOfDay(day, stream, rows, g)
  BY <1>1, ViewIsRead
<1>3. /\ TapeOf(day, LadderOf(day), rows, g) /\ IsLadder(LadderOf(day)) /\ RealStates(S)
      /\ S = {at(i) : i \in LiveRows(rows, L)}
      /\ \A i \in LiveRows(rows, L) : at(i).i = i /\ at(i).at = rows[i].at
  BY <1>2 DEF ViewOfDay
<1>4. Episode(e, view) /\ \E first, close : Spans(e, S, first, close)
  <2>. HIDE DEF view
  <2>. QED BY <1>1, <1>3, EpisodeSpans
<1>5. PICK first, close : Spans(e, S, first, close)
  BY <1>4
<1>6. e.end - e.start >= LdPersist /\ e.excess > 0
  BY <1>1, <1>4 DEF Episode
<1>. HIDE DEF S, rows, L, view, day, stream
<1>7. /\ Len(rows) \in Nat /\ DOMAIN rows = 1..Len(rows)
      /\ \A k, n \in 1..Len(rows) : k < n => rows[k].at <= rows[n].at
      /\ \A n \in 1..Len(rows) : rows[n].at \in Int /\ rows[n].at \div D \in DatesOf(day)
  <2>1. /\ Len(rows) \in Nat /\ DOMAIN rows = 1..Len(rows)
        /\ \A k, n \in 1..Len(rows) : k < n => rows[k].at <= rows[n].at
        /\ \A n \in 1..Len(rows) : g[n] \in 1..Len(ldJob.book) /\ rows[n] = ldJob.book[g[n]]
        /\ \A n \in 1..Len(rows) : g[n] \in TapeIndex(day, LadderOf(day))
    BY <1>3 DEF TapeOf, Picked
  <2>2. \A n \in 1..Len(ldJob.book) : ldJob.book[n].at \in Int
    BY BooksAreFiles DEF BookFile
  <2>3. \A i \in TapeIndex(day, LadderOf(day)) : ldJob.book[i].at \div D \in DatesOf(day)
    BY DEF TapeIndex
  <2>. QED BY <2>1, <2>2, <2>3
<1>8. PICK a \in LiveRows(rows, L), b \in LiveRows(rows, L) : first = at(a) /\ close = at(b)
  <2>1. first \in S /\ close \in S
    BY <1>5 DEF Spans
  <2>. HIDE DEF at
  <2>. QED BY <2>1, <1>3
<1>9. a < b /\ e.start = rows[a].at /\ e.end = rows[b].at
  <2>1. first.i < close.i /\ e.start = first.at /\ e.end = close.at
    BY <1>5 DEF Spans
  <2>. HIDE DEF at
  <2>. QED BY <2>1, <1>3, <1>8
<1>10. a \in 1..Len(rows) /\ b \in 1..Len(rows)
  BY <1>7 DEF LiveRows
<1>11. e.start \in Int /\ e.end \in Int
  BY <1>7, <1>9, <1>10
<1>12. ASSUME NEW n \in 1..Len(rows), a <= n, n < b
       PROVE  n \in LiveRows(rows, L) /\ at(n).holds /\ at(n).excess > 0
  <2>1. n \in LiveRows(rows, L)
    BY <1>7, <1>12, LiveStays
  <2>2. at(n) \in S /\ at(n).i = n /\ first.i = a /\ close.i = b
    <3>. HIDE DEF at
    <3>. QED BY <2>1, <1>3, <1>8
  <2>3. at(n).holds /\ e.excess <= at(n).excess
    <3>. HIDE DEF at
    <3>. QED BY <2>2, <1>5, <1>12 DEF Spans
  <2>4. at(n).excess \in Int
    <3>. HIDE DEF at
    <3>. QED BY <2>2, <1>3 DEF RealStates
  <2>5. e.excess > 0 /\ e.excess \in Int
    BY <1>5, <1>6 DEF Spans
  <2>. HIDE DEF at
  <2>. QED BY <2>1, <2>3, <2>4, <2>5
<1>13. ASSUME NEW u \in e.start..(e.end - 1)
       PROVE  /\ \A l \in L : InForce(OfLeg(ldJob.book, l), u) > 0
              /\ \A temp \in LdTemps : LeavesAt(stream, day, u, temp) > 0
  <2>. DEFINE N == {k \in 1..Len(rows) : a <= k /\ k < b /\ rows[k].at <= u}
  <2>1. u \in Int /\ rows[a].at <= u /\ u < rows[b].at
    BY <1>9, <1>11
  <2>2. a \in N /\ N \in SUBSET (0..Len(rows))
    BY <2>1, <1>9, <1>10
  <2>3. PICK n \in N : \A k \in N : k <= n
    <3>. HIDE DEF N
    <3>. QED BY <2>2, <1>7, LargestOf
  <2>4. n \in 1..Len(rows) /\ a <= n /\ n < b /\ rows[n].at <= u
    OBVIOUS
  <2>5. ASSUME NEW k \in 1..Len(rows), n < k PROVE u < rows[k].at
    <3>1. k \notin N
      <4>. HIDE DEF N
      <4>. QED BY <2>3, <2>4, <2>5
    <3>2. CASE k < b
      <4>1. a <= k
        BY <2>4, <2>5, <1>10
      <4>2. ~(rows[k].at <= u)
        BY <3>1, <3>2, <4>1
      <4>. QED BY <4>2, <2>1, <1>7
    <3>3. CASE k = b
      BY <3>3, <2>1
    <3>4. CASE b < k
      <4>1. rows[b].at <= rows[k].at /\ rows[b].at \in Int /\ rows[k].at \in Int
        BY <3>4, <1>7, <1>10
      <4>. QED BY <4>1, <2>1
    <3>. QED BY <3>2, <3>3, <3>4, <1>10
  <2>. HIDE DEF N
  <2>6. RowBy(rows, n, u)
    BY <2>4, <2>5 DEF RowBy
  <2>7. u \div D \in DatesOf(day)
    <3>1. D \in Nat \ {0} /\ DatesOf(day) = lo..hi /\ lo \in Int /\ hi \in Int
      <4>1. day \in DOMAIN LkDays
        BY <1>1 DEF ReadLadder
      <4>. QED BY <4>1, LadderAssumption, LockAssumption DEF DatesOf, WindowDates
    <3>. HIDE DEF lo, hi, D
    <3>2. rows[a].at \in Int /\ rows[b].at \in Int /\ rows[a].at \div D \in lo..hi /\ rows[b].at \div D \in lo..hi
      BY <3>1, <1>7, <1>10
    <3>3. rows[a].at \div D <= u \div D /\ u \div D <= rows[b].at \div D
      <4>1. rows[a].at <= u /\ u <= rows[b].at /\ u \in Int
        BY <3>2, <2>1
      <4>2. rows[a].at \div D <= u \div D
        BY <3>1, <3>2, <4>1, DaysMount
      <4>3. u \div D <= rows[b].at \div D
        BY <3>1, <3>2, <4>1, DaysMount
      <4>. QED BY <4>2, <4>3
    <3>4. u \div D \in Int
      BY <3>1, <2>1
    <3>. QED BY <3>1, <3>2, <3>3, <3>4
  <2>8. n \in LiveRows(rows, L) /\ at(n).holds /\ at(n).excess > 0
    BY <2>4, <1>12
  <2>9. ReadAt(day, stream, rows, g, n, u)
    <3>1. \A l \in L : \E j \in 1..n : rows[j].leg = l
      BY <2>8 DEF LiveRows
    <3>. QED BY <3>1, <1>3, <2>1, <2>6, <2>7 DEF ReadAt, L
  <2>10. day \in DOMAIN LkDays /\ stream \in Streams /\ at(n) = StateOf(stream, rows, Listed(stream, day), n)
    BY <1>1 DEF ReadLadder, L
  <2>11. \A temp \in LdTemps : LeavesAt(stream, day, u, temp) > 0
    <3>. HIDE DEF at
    <3>. QED BY <2>8, <2>9, <2>10, StatePays
  <2>12. \A l \in L : InForce(OfLeg(ldJob.book, l), u) > 0
    BY <2>9, <2>10, CarriedIsBook DEF L
  <2>. QED BY <2>11, <2>12
<1>14. PackageOf(stream, LadderOf(day)) = L
  BY PackageListed DEF L
<1>15. Pays(e)
  BY <1>13, <1>14 DEF Pays, day, stream
<1>. QED BY <1>6, <1>11, <1>15

-----------------------------------------------------------------------------
\* What is found of the ladders of a series, offered and kept.
LadderFound(series)     == UNION {x.found : x \in EpisodesOn(series)}
LadderOffered(series) == {e \in LadderFound(series) : e.tradeable}
LadderKept(series)    == {e \in LadderOffered(series) : FateOf(e) = "kept"}

ReadInOrder(series) == \A d \in CompleteDays(series) : ~OutOfOrder(TapeOfLadder(d).rows)

LEMMA FoundIsFinite ==
    ASSUME NEW view, IsFiniteSet(view.states)
    PROVE  IsFiniteSet(EpisodesOf(view).found)
<1>. DEFINE S        == view.states
            holding  == {s \in S : s.holds}
            firsts   == {s \in holding : ~\E q \in holding : q.i = s.i - 1}
            after(s) == {q \in S : q.i > s.i /\ ~q.holds}
            close(s) == CHOOSE q \in after(s) : \A r \in after(s) : q.i <= r.i
            run(s)   == [states |-> {q \in holding : s.i <= q.i /\ q.i < close(s).i}, close |-> close(s)]
            X        == {x \in firsts : after(x) # {}}
            f        == [x \in X |-> EpisodeOf(view.stream, view.day, run(x))]
<1>1. EpisodesOf(view).found = {EpisodeOf(view.stream, view.day, r) : r \in {run(s) : s \in X}}
  BY DEF EpisodesOf
<1>2. IsFiniteSet(X)
  <2>1. X \in SUBSET S
    OBVIOUS
  <2>. HIDE DEF X
  <2>. QED BY <2>1, FS_Subset
<1>3. IsFiniteSet({f[x] : x \in X})
  <2>1. DOMAIN f = X
    OBVIOUS
  <2>. HIDE DEF X, f
  <2>. QED BY <1>2, <2>1, ImageIsFinite
<1>4. {f[x] : x \in X} = {EpisodeOf(view.stream, view.day, r) : r \in {run(s) : s \in X}}
  <2>1. \A x \in X : f[x] = EpisodeOf(view.stream, view.day, run(x))
    OBVIOUS
  <2>. HIDE DEF X, f, run
  <2>. QED BY <2>1
<1>. QED BY <1>1, <1>3, <1>4

\* What is found is of the series, and of a ladder that has been read.
LEMMA FoundOfSeries ==
    ASSUME ldJob \in LdJobs, NEW series, ReadInOrder(series)
    PROVE  /\ IsFiniteSet(LadderFound(series))
           /\ \A e \in LadderFound(series) :
                 /\ ReadLadder(e.day) /\ e.stream \in Streams /\ e.day[1] = series
                 /\ e \in EpisodesOf(ViewOf(e.stream, TapeOfLadder(e.day))).found
<1>. DEFINE on(s, d) == ViewOf(s, TapeOfLadder(d))
<1>1. ASSUME NEW d \in CompleteDays(series)
      PROVE  ReadLadder(d) /\ d[1] = series
  BY DEF CompleteDays, DaysOfSeries, ReadLadder, ReadInOrder
<1>2. ASSUME NEW s, NEW d PROVE on(s, d).stream = s /\ on(s, d).day = d
  BY DEF ViewOf, TapeOfLadder
<1>3. ASSUME NEW d \in CompleteDays(series), NEW s \in Streams
      PROVE  RealStates(on(s, d).states)
  <2>1. PICK g : ViewOfDay(d, s, TapeOfLadder(d).rows, g)
    BY <1>1, ViewIsRead
  <2>. QED BY <2>1 DEF ViewOfDay
<1>4. ASSUME NEW d \in CompleteDays(series), NEW s \in Streams, NEW e \in EpisodesOf(on(s, d)).found
      PROVE  e.stream = s /\ e.day = d
  <2>1. Episode(e, on(s, d))
    <3>. HIDE DEF on
    <3>. QED BY <1>3, EpisodeSpans
  <2>. QED BY <2>1, <1>2 DEF Episode
<1>. HIDE DEF on
<1>5. ASSUME NEW e \in LadderFound(series)
      PROVE  \E d \in CompleteDays(series), s \in Streams : e \in EpisodesOf(on(s, d)).found
  <2>1. PICK x \in EpisodesOn(series) : e \in x.found
    BY DEF LadderFound
  <2>2. PICK d \in CompleteDays(series) : x \in StreamsOn(d)
    BY <2>1 DEF EpisodesOn
  <2>3. PICK s \in Streams : x = EpisodesOf(on(s, d))
    BY <2>2 DEF StreamsOn, on
  <2>. QED BY <2>1, <2>3
<1>6. ASSUME NEW e \in LadderFound(series)
      PROVE  /\ ReadLadder(e.day) /\ e.stream \in Streams /\ e.day[1] = series
             /\ e \in EpisodesOf(on(e.stream, e.day)).found
  <2>1. PICK d \in CompleteDays(series), s \in Streams : e \in EpisodesOf(on(s, d)).found
    BY <1>5
  <2>2. e.stream = s /\ e.day = d
    BY <1>4, <2>1
  <2>. QED BY <1>1, <2>1, <2>2
<1>7. IsFiniteSet(LadderFound(series))
  <2>1. IsFiniteSet(CompleteDays(series))
    <3>1. CompleteDays(series) \in SUBSET DOMAIN LkDays
      BY DEF CompleteDays, DaysOfSeries
    <3>. QED BY <3>1, LockAssumption, FS_Subset
  <2>2. IsFiniteSet(Streams)
    <3>1. IsFiniteSet({"sum_buy"}) /\ IsFiniteSet({"sum_sell"}) /\ IsFiniteSet({"monotonicity"})
      BY FS_Singleton
    <3>2. Streams = {"sum_buy"} \cup ({"sum_sell"} \cup {"monotonicity"})
      BY DEF Streams
    <3>3. IsFiniteSet({"sum_sell"} \cup {"monotonicity"})
      BY <3>1, FS_Union
    <3>. QED BY <3>1, <3>2, <3>3, FS_Union
  <2>3. \A d \in CompleteDays(series) : IsFiniteSet(StreamsOn(d))
    <3>. SUFFICES ASSUME NEW d \in CompleteDays(series) PROVE IsFiniteSet(StreamsOn(d))
      OBVIOUS
    <3>. DEFINE f == [s \in Streams |-> EpisodesOf(on(s, d))]
    <3>1. DOMAIN f = Streams /\ StreamsOn(d) = {f[s] : s \in Streams}
      BY DEF StreamsOn, on
    <3>. HIDE DEF f
    <3>. QED BY <2>2, <3>1, ImageIsFinite
  <2>4. IsFiniteSet(EpisodesOn(series))
    <3>. DEFINE f == [d \in CompleteDays(series) |-> StreamsOn(d)]
                F == {f[d] : d \in CompleteDays(series)}
    <3>1. IsFiniteSet(F)
      <4>1. DOMAIN f = CompleteDays(series)
        OBVIOUS
      <4>. HIDE DEF f
      <4>. QED BY <2>1, <4>1, ImageIsFinite
    <3>2. \A x \in F : IsFiniteSet(x)
      BY <2>3
    <3>3. EpisodesOn(series) = UNION F
      BY DEF EpisodesOn
    <3>. HIDE DEF F
    <3>. QED BY <3>1, <3>2, <3>3, FS_UNION
  <2>5. \A x \in EpisodesOn(series) : IsFiniteSet(x.found)
    <3>. SUFFICES ASSUME NEW x \in EpisodesOn(series) PROVE IsFiniteSet(x.found)
      OBVIOUS
    <3>1. PICK d \in CompleteDays(series) : x \in StreamsOn(d)
      BY DEF EpisodesOn
    <3>2. PICK s \in Streams : x = EpisodesOf(on(s, d))
      BY <3>1 DEF StreamsOn, on
    <3>3. IsFiniteSet(on(s, d).states)
      BY <1>3 DEF RealStates
    <3>. QED BY <3>2, <3>3, FoundIsFinite
  <2>. DEFINE f == [x \in EpisodesOn(series) |-> x.found]
              F == {f[x] : x \in EpisodesOn(series)}
  <2>6. IsFiniteSet(F)
    <3>1. DOMAIN f = EpisodesOn(series)
      OBVIOUS
    <3>. HIDE DEF f
    <3>. QED BY <2>4, <3>1, ImageIsFinite
  <2>7. \A x \in F : IsFiniteSet(x)
    BY <2>5
  <2>8. LadderFound(series) = UNION F
    BY DEF LadderFound
  <2>. HIDE DEF F
  <2>. QED BY <2>6, <2>7, <2>8, FS_UNION
<1>. QED BY <1>6, <1>7 DEF on

-----------------------------------------------------------------------------
\* The counts of the three streams.
OfThree(c) == ldCounts["sum_buy"][c] + ldCounts["sum_sell"][c] + ldCounts["monotonicity"][c]

\* The sum of a function over the streams.
LEMMA SumOfStreams ==
    ASSUME NEW f \in [Streams -> Int]
    PROVE  SumFunction(f) = f["sum_buy"] + f["sum_sell"] + f["monotonicity"]
<1>. DEFINE A == {"sum_buy"}
            B == {"sum_buy", "sum_sell"}
            fA == [s \in A |-> f[s]]
            fB == [s \in B |-> f[s]]
<1>1. IsFiniteSet(A) /\ IsFiniteSet(B) /\ B = A \cup {"sum_sell"} /\ Streams = B \cup {"monotonicity"}
  <2>1. B = A \cup {"sum_sell"}
    OBVIOUS
  <2>2. IsFiniteSet(A)
    BY FS_Singleton
  <2>3. IsFiniteSet(B)
    BY <2>1, <2>2, FS_AddElement
  <2>. QED BY <2>1, <2>2, <2>3 DEF Streams
<1>2. fA \in [A -> Int] /\ fB \in [B -> Int]
  BY DEF Streams
<1>3. SumFunction(fA) = f["sum_buy"]
  <2>1. fA["sum_buy"] = f["sum_buy"]
    OBVIOUS
  <2>. HIDE DEF fA
  <2>. QED BY <1>2, <2>1, SumOverOne
<1>4. SumFunction(fB) = SumFunction([s \in A |-> fB[s]]) + fB["sum_sell"]
  <2>1. "sum_sell" \notin A /\ fB \in [A \cup {"sum_sell"} -> Int]
    BY <1>1, <1>2
  <2>. HIDE DEF fB, A
  <2>. QED BY <1>1, <2>1, SumAddsElement
<1>5. [s \in A |-> fB[s]] = fA /\ fB["sum_sell"] = f["sum_sell"]
  OBVIOUS
<1>6. SumFunction(f) = SumFunction(fB) + f["monotonicity"]
  <2>1. "monotonicity" \notin B /\ f \in [B \cup {"monotonicity"} -> Int]
    BY <1>1
  <2>2. SumFunction(f) = SumFunction([s \in B |-> f[s]]) + f["monotonicity"]
    <3>. HIDE DEF B, fB
    <3>. QED BY <1>1, <2>1, SumAddsElement
  <2>. QED BY <2>2
<1>7. f["sum_buy"] \in Int /\ f["sum_sell"] \in Int /\ f["monotonicity"] \in Int
  BY DEF Streams
<1>. HIDE DEF fA, fB
<1>. QED BY <1>3, <1>4, <1>5, <1>6, <1>7

LEMMA CountedIs ==
    ASSUME NEW c, \A s \in Streams : ldCounts[s][c] \in Int
    PROVE  Counted(c) = OfThree(c)
<1>. DEFINE S == Streams
            e(s) == ldCounts[s][c]
            f == [s \in S |-> e(s)]
            Sums(g) == [t \in SUBSET S |-> IF t = {} THEN 0 ELSE e(Pick(t)) + g[t \ {Pick(t)}]]
<1>1. \A g : (g = Sums(g)) <=> Adds(f, g, S)
  BY PickTakes DEF Added, Adds
<1>2. SumFunction(f) = (CHOOSE g : Adds(f, g, S))[S]
  BY SumIsChosen
<1>3. MapThenSumSet(LAMBDA s : e(s), S) = (CHOOSE g : g = Sums(g))[S]
  BY DEF MapThenSumSet, MapThenFoldSet, Pick
<1>4. (CHOOSE g : g = Sums(g)) = (CHOOSE g : Adds(f, g, S))
  <2>. HIDE DEF Sums, f
  <2>. QED BY <1>1
<1>5. Counted(c) = MapThenSumSet(LAMBDA s : e(s), S)
  BY DEF Counted
<1>6. Counted(c) = SumFunction(f)
  BY <1>2, <1>3, <1>4, <1>5
<1>7. f \in [Streams -> Int] /\ \A s \in Streams : f[s] = ldCounts[s][c]
  OBVIOUS
<1>8. SumFunction(f) = f["sum_buy"] + f["sum_sell"] + f["monotonicity"]
  <2>. HIDE DEF f
  <2>. QED BY <1>7, SumOfStreams
<1>. QED BY <1>6, <1>7, <1>8 DEF OfThree, Streams

\* The sizes of what is of each stream add up.
LEMMA StreamsAdd ==
    ASSUME NEW F, IsFiniteSet(F), \A e \in F : e.stream \in Streams
    PROVE  /\ \A s \in Streams : OfStream(F, s) \in Nat
           /\ Cardinality(F) = OfStream(F, "sum_buy") + OfStream(F, "sum_sell") + OfStream(F, "monotonicity")
<1>. DEFINE of(s) == {e \in F : e.stream = s}
            rest  == of("sum_sell") \cup of("monotonicity")
<1>1. Parts(F, of("sum_buy"), rest) /\ Parts(rest, of("sum_sell"), of("monotonicity"))
  BY DEF Parts, Streams
<1>2. \A s : OfStream(F, s) = Cardinality(of(s))
  BY DEF OfStream
<1>. HIDE DEF of, rest
<1>3. /\ IsFiniteSet(rest) /\ Cardinality(of("sum_buy")) \in Nat
      /\ Cardinality(F) = Cardinality(of("sum_buy")) + Cardinality(rest)
  BY <1>1, PartsAdd
<1>4. /\ Cardinality(of("sum_sell")) \in Nat /\ Cardinality(of("monotonicity")) \in Nat
      /\ Cardinality(rest) = Cardinality(of("sum_sell")) + Cardinality(of("monotonicity"))
  BY <1>1, <1>3, PartsAdd
<1>. QED BY <1>2, <1>3, <1>4 DEF Streams

\* What is offered is kept or screened.
LEMMA OfferedAdds ==
    ASSUME NEW F, IsFiniteSet(F)
    PROVE  /\ IsFiniteSet({e \in F : FateOf(e) = "kept"})
           /\ \A w \in {"kept", "excluded", "out_of_window"} : Cardinality({e \in F : FateOf(e) = w}) \in Nat
           /\ Cardinality(F) = Cardinality({e \in F : FateOf(e) = "kept"})
                 + Cardinality({e \in F : FateOf(e) = "excluded"})
                 + Cardinality({e \in F : FateOf(e) = "out_of_window"})
<1>. DEFINE of(w) == {e \in F : FateOf(e) = w}
            rest  == of("excluded") \cup of("out_of_window")
<1>0. \A e : FateOf(e) \in {"kept", "excluded", "out_of_window"}
  BY DEF FateOf, Screen
<1>1. Parts(F, of("kept"), rest) /\ Parts(rest, of("excluded"), of("out_of_window"))
  BY <1>0 DEF Parts
<1>. HIDE DEF of, rest
<1>3. /\ IsFiniteSet(rest) /\ IsFiniteSet(of("kept")) /\ Cardinality(of("kept")) \in Nat
      /\ Cardinality(F) = Cardinality(of("kept")) + Cardinality(rest)
  BY <1>1, PartsAdd
<1>4. /\ Cardinality(of("excluded")) \in Nat /\ Cardinality(of("out_of_window")) \in Nat
      /\ Cardinality(rest) = Cardinality(of("excluded")) + Cardinality(of("out_of_window"))
  BY <1>1, <1>3, PartsAdd
<1>5. \A w \in {"kept", "excluded", "out_of_window"} : Cardinality(of(w)) \in Nat
  BY <1>3, <1>4
<1>6. Cardinality(F) = Cardinality(of("kept")) + Cardinality(of("excluded")) + Cardinality(of("out_of_window"))
  BY <1>3, <1>4
<1>. QED BY <1>3, <1>5, <1>6 DEF of

-----------------------------------------------------------------------------
LadderCounts ==
    /\ \A s \in Streams : ldCounts[s].tradeable \in Int /\ ldCounts[s].kept \in Int
    /\ ldScreened.candidates \in Int /\ ldScreened.excluded \in Int /\ ldScreened.outside \in Int
    /\ ldScreened.candidates = OfThree("tradeable")
    /\ OfThree("tradeable") = OfThree("kept") + ldScreened.excluded + ldScreened.outside
    /\ OfThree("kept") = Cardinality(ldKept)

\* The inductive invariant: what is kept was admitted on a ladder of a series
\* that has been swept, and the counts add up.
LdInv ==
    /\ ldJob \in LdJobs /\ Distinct(ldLeft) /\ IsFiniteSet(ldKept)
    /\ \A e \in ldKept : LadderAdmitted(e) /\ e.day[1] \notin Range(ldLeft)
    /\ LadderCounts

LEMMA LdInvTakeable == LdInv => LadderIsTakeable
<1>. SUFFICES ASSUME LdInv PROVE LadderIsTakeable
  OBVIOUS
<1>1. ldJob \in LdJobs /\ \A e \in ldKept : LadderAdmitted(e)
  BY DEF LdInv
<1>2. ASSUME NEW e \in ldKept
      PROVE  /\ e.end - e.start >= LdPersist
             /\ LkDays[e.day].start <= e.start /\ e.end <= LkDays[e.day].end
             /\ \A x \in LkMerged : \A u \in e.start..e.end : ~(x[1] <= u /\ u <= x[2])
             /\ Pays(e)
  <2>1. Pays(e) /\ e.start \in Int /\ e.end \in Int /\ e.end - e.start >= LdPersist
    BY <1>1, AdmittedPays
  <2>2. Screen(LkDays[e.day], LkMerged, e.start, e.end) = "kept" /\ e.day \in DOMAIN LkDays
    BY <1>1 DEF LadderAdmitted, FateOf, ReadLadder
  <2>3. /\ e.start >= LkDays[e.day].start /\ e.end <= LkDays[e.day].end
        /\ ~Meets(LkMerged, e.start, e.end)
    BY <2>2 DEF Screen
  <2>4. LkDays[e.day].start \in Int /\ LkDays[e.day].end \in Int
    BY <2>2, LockAssumption
  <2>5. ASSUME NEW x \in LkMerged, NEW u \in e.start..e.end, x[1] <= u, u <= x[2] PROVE FALSE
    <3>1. ~(x[1] <= e.end /\ x[2] >= e.start)
      BY <2>3 DEF Meets
    <3>2. x[1] \in Int /\ x[2] \in Int
      BY LockAssumption
    <3>. QED BY <3>1, <3>2, <2>1, <2>5
  <2>. QED BY <2>1, <2>3, <2>4, <2>5
<1>3. EpisodesPayThroughout
  BY <1>2 DEF EpisodesPayThroughout, Pays
<1>4. CandidatesAddUp
  <2>1. LadderCounts
    BY DEF LdInv
  <2>2. Counted("tradeable") = OfThree("tradeable") /\ Counted("kept") = OfThree("kept")
    BY <2>1, CountedIs DEF LadderCounts
  <2>. QED BY <2>1, <2>2 DEF LadderCounts, CandidatesAddUp
<1>. QED BY <1>3, <1>4 DEF LadderIsTakeable

LEMMA LdInvHoldsFirst == LdInit => LdInv
<1>. SUFFICES ASSUME NEW j \in LdJobs, LdStart(j) PROVE LdInv
  BY DEF LdInit
<1>1. /\ ldJob = j /\ ldLeft = Ordered({d[1] : d \in DOMAIN LkDays}, LkSeriesOrder)
      /\ ldCounts = [s \in Streams |-> NoEpisodes] /\ ldScreened = NoCandidates /\ ldKept = {}
  BY DEF LdStart
<1>2. Distinct(ldLeft)
  <2>. DEFINE f == [d \in DOMAIN LkDays |-> d[1]]
              S == {f[d] : d \in DOMAIN LkDays}
  <2>1. S = {d[1] : d \in DOMAIN LkDays}
    OBVIOUS
  <2>2. IsFiniteSet(S)
    <3>1. DOMAIN f = DOMAIN LkDays
      OBVIOUS
    <3>. HIDE DEF f
    <3>. QED BY <3>1, LockAssumption, ImageIsFinite
  <2>3. /\ \A x \in S : LkSeriesOrder[x] \in Int
        /\ \A x, y \in S : LkSeriesOrder[x] = LkSeriesOrder[y] => x = y
    BY LockAssumption
  <2>. HIDE DEF S
  <2>4. Distinct(Ordered(S, LkSeriesOrder))
    BY <2>2, <2>3, OrderedDistinct
  <2>. QED BY <1>1, <2>1, <2>4
<1>3. IsFiniteSet(ldKept) /\ Cardinality(ldKept) = 0
  BY <1>1, FS_EmptySet
<1>4. \A s \in Streams : ldCounts[s].tradeable = 0 /\ ldCounts[s].kept = 0
  BY <1>1 DEF NoEpisodes
<1>5. ldScreened.candidates = 0 /\ ldScreened.excluded = 0 /\ ldScreened.outside = 0
  BY <1>1 DEF NoCandidates
<1>6. LadderCounts
  BY <1>3, <1>4, <1>5 DEF LadderCounts, OfThree, Streams
<1>. QED BY <1>1, <1>2, <1>3, <1>6 DEF LdInv

\* The two ways a sweep of a series may end.
SweptSeries(series) ==
    /\ ReadInOrder(series)
    /\ ldKept' = ldKept \cup LadderKept(series)
    /\ ldScreened' = ScreenedWith(ldScreened, LadderOffered(series))
    /\ ldCounts' = Tally(ldCounts, EpisodesOn(series), LadderFound(series), LadderOffered(series), LadderKept(series))

LEMMA SweepSeriesIs ==
    ASSUME SweepSeries
    PROVE  /\ ldLeft # <<>> /\ ldLeft' = Tail(ldLeft) /\ ldJob' = ldJob
           /\ SweptSeries(Head(ldLeft)) \/ UNCHANGED <<ldKept, ldScreened, ldCounts>>
<1>. DEFINE series == Head(ldLeft)
            bad == \/ ldJob.recorded # {d[1] : d \in DOMAIN LkDays}
                   \/ \E d \in CompleteDays(series) : OutOfOrder(TapeOfLadder(d).rows)
<1>1. /\ ldLeft # <<>> /\ ldLeft' = Tail(ldLeft) /\ ldJob' = ldJob
      /\ \/ bad /\ UNCHANGED <<ldKept, ldScreened, ldCounts>>
         \/ ~bad /\ \E read \in {EpisodesOn(series)} :
                LET found   == UNION {x.found : x \in read}
                    offered == {e \in found : e.tradeable}
                    kept    == {e \in offered : FateOf(e) = "kept"}
                IN  /\ ldKept' = ldKept \cup kept
                    /\ ldScreened' = ScreenedWith(ldScreened, offered)
                    /\ ldCounts' = Tally(ldCounts, read, found, offered, kept)
  BY Zenon DEF SweepSeries
<1>2. ASSUME ~bad PROVE ReadInOrder(series)
  BY <1>2 DEF ReadInOrder
<1>3. ASSUME ~bad, \E read \in {EpisodesOn(series)} :
                LET found   == UNION {x.found : x \in read}
                    offered == {e \in found : e.tradeable}
                    kept    == {e \in offered : FateOf(e) = "kept"}
                IN  /\ ldKept' = ldKept \cup kept
                    /\ ldScreened' = ScreenedWith(ldScreened, offered)
                    /\ ldCounts' = Tally(ldCounts, read, found, offered, kept)
      PROVE  SweptSeries(series)
  BY <1>2, <1>3, Zenon DEF SweptSeries, LadderKept, LadderOffered, LadderFound
<1>. QED BY <1>1, <1>3

LEMMA AdmittedStays == ASSUME ldJob' = ldJob, NEW e, LadderAdmitted(e) PROVE LadderAdmitted(e)'
<1>1. \A d : (OnTape(d))' = OnTape(d)
  BY DEF OnTape
<1>2. \A d, legs : (RowsOfLadder(d, legs))' = RowsOfLadder(d, legs)
  BY DEF RowsOfLadder
<1>3. \A d : (TapeOfLadder(d))' = TapeOfLadder(d)
  BY <1>1, <1>2 DEF TapeOfLadder
<1>. QED BY <1>1, <1>3 DEF LadderAdmitted, ReadLadder

LEMMA LdSame ==
    ASSUME LdInv, ldJob' = ldJob, ldKept' = ldKept, ldScreened' = ldScreened, ldCounts' = ldCounts,
           Distinct(ldLeft'), Range(ldLeft') \subseteq Range(ldLeft)
    PROVE  LdInv'
<1>1. \A e \in ldKept : LadderAdmitted(e)' /\ e.day[1] \notin Range(ldLeft')
  BY AdmittedStays DEF LdInv
<1>2. LadderCounts'
  <2>1. LadderCounts
    BY DEF LdInv
  <2>2. OfThree("tradeable")' = OfThree("tradeable") /\ OfThree("kept")' = OfThree("kept")
    BY DEF OfThree
  <2>. QED BY <2>1, <2>2 DEF LadderCounts
<1>3. ldJob' \in LdJobs /\ Distinct(ldLeft)' /\ IsFiniteSet(ldKept')
  BY DEF LdInv, Distinct, Range
<1>4. \A e \in ldKept' : LadderAdmitted(e)' /\ e.day[1] \notin Range(ldLeft)'
  BY <1>1 DEF Range
<1>. QED BY <1>2, <1>3, <1>4 DEF LdInv

LEMMA SweptKeepsLdInv ==
    ASSUME LdInv, ldLeft # <<>>, ldLeft' = Tail(ldLeft), ldJob' = ldJob, SweptSeries(Head(ldLeft))
    PROVE  LdInv'
<1>. DEFINE series  == Head(ldLeft)
            found   == LadderFound(series)
            offered == LadderOffered(series)
            kept    == LadderKept(series)
            t(s)    == OfStream(offered, s)
            k(s)    == OfStream(kept, s)
            x       == Cardinality({e \in offered : FateOf(e) = "excluded"})
            o       == Cardinality({e \in offered : FateOf(e) = "out_of_window"})
<1>1. /\ ldJob \in LdJobs /\ Distinct(ldLeft) /\ IsFiniteSet(ldKept) /\ LadderCounts
      /\ \A e \in ldKept : LadderAdmitted(e) /\ e.day[1] \notin Range(ldLeft)
  BY DEF LdInv
<1>2. Distinct(Tail(ldLeft)) /\ series \notin Range(Tail(ldLeft)) /\ Range(Tail(ldLeft)) \subseteq Range(ldLeft)
  BY <1>1, DistinctTail
<1>3. series \in Range(ldLeft)
  <2>1. ldLeft \in Seq(Range(ldLeft))
    BY <1>1 DEF Distinct
  <2>2. Len(ldLeft) \in Nat /\ Len(ldLeft) # 0 /\ DOMAIN ldLeft = 1..Len(ldLeft) /\ Head(ldLeft) = ldLeft[1]
    BY <2>1
  <2>3. 1 \in DOMAIN ldLeft
    BY <2>2
  <2>. QED BY <2>2, <2>3 DEF Range
<1>4. /\ ReadInOrder(series) /\ ldKept' = ldKept \cup kept
      /\ ldScreened' = ScreenedWith(ldScreened, offered)
      /\ ldCounts' = Tally(ldCounts, EpisodesOn(series), found, offered, kept)
  BY DEF SweptSeries
<1>5. /\ IsFiniteSet(found)
      /\ \A e \in found : /\ ReadLadder(e.day) /\ e.stream \in Streams /\ e.day[1] = series
                          /\ e \in EpisodesOf(ViewOf(e.stream, TapeOfLadder(e.day))).found
  BY <1>1, <1>4, FoundOfSeries
<1>6. offered \in SUBSET found /\ kept \in SUBSET offered /\ kept = {e \in offered : FateOf(e) = "kept"}
      /\ \A e \in kept : e.tradeable /\ FateOf(e) = "kept"
  BY DEF LadderOffered, LadderKept
<1>. HIDE DEF series, found, offered, kept
<1>7. IsFiniteSet(offered) /\ IsFiniteSet(kept) /\ \A e \in offered : e.stream \in Streams
  <2>1. IsFiniteSet(offered)
    BY <1>5, <1>6, FS_Subset
  <2>. QED BY <2>1, <1>5, <1>6, FS_Subset
<1>8. \A e \in kept : LadderAdmitted(e) /\ e.day[1] = series
  BY <1>5, <1>6 DEF LadderAdmitted
<1>9. \A e \in ldKept' : LadderAdmitted(e)' /\ e.day[1] \notin Range(ldLeft')
  <2>. SUFFICES ASSUME NEW e \in ldKept \cup kept PROVE LadderAdmitted(e)' /\ e.day[1] \notin Range(Tail(ldLeft))
    BY <1>4
  <2>1. LadderAdmitted(e)
    BY <1>1, <1>8
  <2>2. e.day[1] \notin Range(Tail(ldLeft))
    BY <1>1, <1>2, <1>8
  <2>. QED BY <2>1, <2>2, AdmittedStays
<1>10. /\ IsFiniteSet(ldKept') /\ Cardinality(ldKept') = Cardinality(ldKept) + Cardinality(kept)
       /\ Cardinality(ldKept) \in Nat /\ Cardinality(kept) \in Nat
  <2>1. ldKept \cap kept = {}
    BY <1>1, <1>3, <1>8
  <2>2. IsFiniteSet(ldKept \cup kept)
    BY <1>1, <1>7, FS_Union
  <2>3. Parts(ldKept \cup kept, ldKept, kept)
    BY <2>1 DEF Parts
  <2>. QED BY <2>2, <2>3, <1>4, PartsAdd
<1>11. \A s \in Streams : /\ ldCounts'[s].tradeable = ldCounts[s].tradeable + t(s)
                          /\ ldCounts'[s].kept = ldCounts[s].kept + k(s)
  BY <1>4 DEF Tally
<1>12. /\ \A s \in Streams : t(s) \in Nat
       /\ Cardinality(offered) = t("sum_buy") + t("sum_sell") + t("monotonicity")
  BY <1>7, StreamsAdd
<1>13. /\ \A s \in Streams : k(s) \in Nat
       /\ Cardinality(kept) = k("sum_buy") + k("sum_sell") + k("monotonicity")
  <2>1. \A e \in kept : e.stream \in Streams
    BY <1>6, <1>7
  <2>. QED BY <2>1, <1>7, StreamsAdd
<1>14. x \in Nat /\ o \in Nat /\ Cardinality(offered) = Cardinality(kept) + x + o
  BY <1>6, <1>7, OfferedAdds
<1>15. /\ ldScreened'.candidates = ldScreened.candidates + Cardinality(offered)
       /\ ldScreened'.excluded = ldScreened.excluded + x
       /\ ldScreened'.outside = ldScreened.outside + o
  BY <1>4 DEF ScreenedWith
<1>. HIDE DEF t, k, x, o
<1>. DEFINE nt(s) == ldCounts'[s].tradeable
            nk(s) == ldCounts'[s].kept
            ot(s) == ldCounts[s].tradeable
            ok(s) == ldCounts[s].kept
<1>16. /\ \A s \in Streams : ot(s) \in Int /\ ok(s) \in Int
       /\ ldScreened.candidates \in Int /\ ldScreened.excluded \in Int /\ ldScreened.outside \in Int
       /\ ldScreened.candidates = ot("sum_buy") + ot("sum_sell") + ot("monotonicity")
       /\ ot("sum_buy") + ot("sum_sell") + ot("monotonicity")
             = ok("sum_buy") + ok("sum_sell") + ok("monotonicity") + ldScreened.excluded + ldScreened.outside
       /\ ok("sum_buy") + ok("sum_sell") + ok("monotonicity") = Cardinality(ldKept)
  BY <1>1 DEF LadderCounts, OfThree
<1>17. \A s \in Streams : nt(s) = ot(s) + t(s) /\ nk(s) = ok(s) + k(s) /\ nt(s) \in Int /\ nk(s) \in Int
  BY <1>11, <1>12, <1>13, <1>16
<1>18. "sum_buy" \in Streams /\ "sum_sell" \in Streams /\ "monotonicity" \in Streams
  BY DEF Streams
<1>. DEFINE T == nt("sum_buy") + nt("sum_sell") + nt("monotonicity")
            K == nk("sum_buy") + nk("sum_sell") + nk("monotonicity")
<1>19. OfThree("tradeable")' = T /\ OfThree("kept")' = K
  BY DEF OfThree
<1>. HIDE DEF nt, nk, ot, ok
<1>20. ASSUME NEW s \in Streams
       PROVE  /\ nt(s) = ot(s) + t(s) /\ nk(s) = ok(s) + k(s)
              /\ ot(s) \in Int /\ ok(s) \in Int /\ t(s) \in Int /\ k(s) \in Int
  BY <1>12, <1>13, <1>16, <1>17
<1>. DEFINE A == ldScreened.candidates
            n == Cardinality(offered)
            m == Cardinality(kept)
<1>21. T = A + n /\ T \in Int
  <2>1. /\ nt("sum_buy") = ot("sum_buy") + t("sum_buy")
        /\ nt("sum_sell") = ot("sum_sell") + t("sum_sell")
        /\ nt("monotonicity") = ot("monotonicity") + t("monotonicity")
    BY <1>18, <1>20
  <2>2. /\ ot("sum_buy") \in Int /\ ot("sum_sell") \in Int /\ ot("monotonicity") \in Int
        /\ t("sum_buy") \in Int /\ t("sum_sell") \in Int /\ t("monotonicity") \in Int
    BY <1>18, <1>20
  <2>3. A = ot("sum_buy") + ot("sum_sell") + ot("monotonicity")
    BY <1>16
  <2>4. n = t("sum_buy") + t("sum_sell") + t("monotonicity")
    BY <1>12
  <2>. HIDE DEF A, n
  <2>. QED BY <2>1, <2>2, <2>3, <2>4
<1>22. K = Cardinality(ldKept) + m /\ K \in Int
  <2>1. /\ nk("sum_buy") = ok("sum_buy") + k("sum_buy")
        /\ nk("sum_sell") = ok("sum_sell") + k("sum_sell")
        /\ nk("monotonicity") = ok("monotonicity") + k("monotonicity")
    BY <1>18, <1>20
  <2>2. /\ ok("sum_buy") \in Int /\ ok("sum_sell") \in Int /\ ok("monotonicity") \in Int
        /\ k("sum_buy") \in Int /\ k("sum_sell") \in Int /\ k("monotonicity") \in Int
    BY <1>18, <1>20
  <2>3. Cardinality(ldKept) = ok("sum_buy") + ok("sum_sell") + ok("monotonicity")
    BY <1>16
  <2>4. m = k("sum_buy") + k("sum_sell") + k("monotonicity")
    BY <1>13
  <2>. HIDE DEF m
  <2>. QED BY <2>1, <2>2, <2>3, <2>4
<1>23. A = Cardinality(ldKept) + ldScreened.excluded + ldScreened.outside /\ A \in Int
       /\ ldScreened.excluded \in Int /\ ldScreened.outside \in Int
  BY <1>16
<1>. HIDE DEF T, K, A
<1>24. /\ ldScreened'.candidates = T /\ ldScreened'.candidates \in Int /\ K = Cardinality(ldKept')
       /\ ldScreened'.excluded \in Int /\ ldScreened'.outside \in Int
  <2>1. ldScreened'.candidates = A + n
    BY <1>15 DEF A
  <2>2. ldScreened'.excluded = ldScreened.excluded + x /\ ldScreened'.outside = ldScreened.outside + o
    BY <1>15
  <2>. HIDE DEF n, m
  <2>3. ldScreened'.excluded \in Int /\ ldScreened'.outside \in Int
    BY <2>2, <1>14, <1>23
  <2>4. K = Cardinality(ldKept')
    BY <1>10, <1>22 DEF m
  <2>. QED BY <2>1, <2>3, <2>4, <1>21
<1>25. T = K + ldScreened'.excluded + ldScreened'.outside
  <2>1. ldScreened'.excluded = ldScreened.excluded + x /\ ldScreened'.outside = ldScreened.outside + o
    BY <1>15
  <2>. DEFINE held == Cardinality(ldKept)
              out  == ldScreened.excluded
              past == ldScreened.outside
  <2>2. n = m + x + o /\ {n, m, x, o, held, out, past} \subseteq Int
    BY <1>10, <1>14, <1>23
  <2>3. T = A + n /\ K = held + m /\ A = held + out + past
    BY <1>21, <1>22, <1>23
  <2>4. ldScreened'.excluded = out + x /\ ldScreened'.outside = past + o
    BY <2>1
  <2>. HIDE DEF n, m, held, out, past
  <2>5. n \in Int /\ m \in Int /\ x \in Int /\ o \in Int /\ held \in Int /\ out \in Int /\ past \in Int
    BY <2>2
  <2>. QED BY <2>2, <2>3, <2>4, <2>5
<1>26. LadderCounts'
  <2>1. \A s \in Streams : ldCounts'[s].tradeable \in Int /\ ldCounts'[s].kept \in Int
    BY <1>17 DEF nt, nk
  <2>. QED BY <2>1, <1>19, <1>24, <1>25 DEF LadderCounts
<1>27. ldJob' \in LdJobs /\ Distinct(ldLeft')
  BY <1>1, <1>2
<1>. QED BY <1>9, <1>10, <1>26, <1>27 DEF LdInv, Distinct, Range

LEMMA SweepKeepsLdInv == ASSUME LdInv, SweepSeries PROVE LdInv'
<1>1. /\ ldLeft # <<>> /\ ldLeft' = Tail(ldLeft) /\ ldJob' = ldJob
      /\ SweptSeries(Head(ldLeft)) \/ UNCHANGED <<ldKept, ldScreened, ldCounts>>
  BY SweepSeriesIs
<1>2. CASE SweptSeries(Head(ldLeft))
  BY <1>1, <1>2, SweptKeepsLdInv
<1>3. CASE UNCHANGED <<ldKept, ldScreened, ldCounts>>
  <2>1. Distinct(ldLeft)
    BY DEF LdInv
  <2>2. Distinct(ldLeft') /\ Range(ldLeft') \subseteq Range(ldLeft)
    BY <1>1, <2>1, DistinctTail
  <2>. QED BY <1>1, <1>3, <2>2, LdSame
<1>. QED BY <1>1, <1>2, <1>3

\* Every package that the study admits could be taken at each instant of its
\* span for more than it cost, however the day then settled, on rows that are
\* the last of each leg in the whole book; and what it counts adds up
\* (ladder_episodes and sweep_ladders).
THEOREM LadderTakeable == LdSpec => []LadderIsTakeable
<1>1. LdInit => LdInv
  BY LdInvHoldsFirst
<1>2. LdInv /\ [LdNext]_ldVars => LdInv'
  <2>. SUFFICES ASSUME LdInv, [LdNext]_ldVars PROVE LdInv'
    OBVIOUS
  <2>1. CASE SweepSeries
    BY <2>1, SweepKeepsLdInv
  <2>2. Distinct(ldLeft) /\ Range(ldLeft) \subseteq Range(ldLeft)
    BY DEF LdInv
  <2>3. CASE DecideLadder
    <3>1. UNCHANGED <<ldJob, ldLeft, ldCounts, ldScreened, ldKept>>
      BY <2>3, Zenon DEF DecideLadder
    <3>. QED BY <3>1, <2>2, LdSame
  <2>4. CASE UNCHANGED ldVars
    <3>1. UNCHANGED <<ldJob, ldLeft, ldCounts, ldScreened, ldKept>>
      BY <2>4 DEF ldVars
    <3>. QED BY <3>1, <2>2, LdSame
  <2>. QED BY <2>1, <2>3, <2>4 DEF LdNext
<1>. QED BY <1>1, <1>2, LdInvTakeable, PTL DEF LdSpec
=============================================================================
