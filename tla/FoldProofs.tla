------------------------------ MODULE FoldProofs ------------------------------
(***************************************************************************)
(* Induction, recursion and sums, as the proofs of the other modules need  *)
(* them.  Induction is by a least counterexample: a set of naturals, or of *)
(* subsets of a finite set, has a least element.  A recursive function is  *)
(* the one that CHOOSE finds, so the lemmas show that there is one to be   *)
(* found, and SumFunction of the module Functions is such a function.      *)
(***************************************************************************)
EXTENDS Integers, Sequences, FiniteSets, FiniteSetsExt, Functions, SequencesExt,
        WellFoundedInduction, FiniteSetTheorems, SequenceTheorems, TLAPS

\* A set of naturals has a least element.
LEMMA LeastNatural ==
    ASSUME NEW T \in SUBSET Nat, T # {}
    PROVE  \E n \in T : \A m \in T : n <= m
<1>. DEFINE R == {p \in Nat \X Nat : p[1] < p[2]}
<1>1. IsWellFoundedOn(R, Nat)
    BY NatLessThanWellFounded DEF OpToRel
<1>. HIDE DEF R
<1>2. PICK n \in T : \A m \in T : <<m, n>> \notin R
    BY <1>1, WFMin
<1>3. \A m \in T : ~(m < n)
    BY <1>2 DEF R
<1>. QED BY <1>3

\* Induction over 0..n.
LEMMA CountInduction ==
    ASSUME NEW n \in Nat, NEW D, 0 \in D, \A i \in 1..n : i - 1 \in D => i \in D
    PROVE  \A i \in 0..n : i \in D
<1>. DEFINE Bad == {i \in 0..n : i \notin D}
<1>1. Bad \in SUBSET Nat
  OBVIOUS
<1>2. ASSUME Bad # {} PROVE FALSE
  <2>. HIDE DEF Bad
  <2>1. PICK i \in Bad : \A j \in Bad : i <= j
    BY <1>1, <1>2, LeastNatural
  <2>2. i \in 0..n /\ i \notin D
    BY <2>1 DEF Bad
  <2>3. i \in 1..n /\ i - 1 \in 0..n /\ ~(i <= i - 1)
    BY <2>2
  <2>4. i - 1 \in D
    BY <2>1, <2>3 DEF Bad
  <2>. QED BY <2>2, <2>3, <2>4
<1>. QED BY <1>2

\* A set of subsets of a finite set has a minimal element.
LEMMA LeastSet ==
    ASSUME NEW S, IsFiniteSet(S), NEW T \in SUBSET SUBSET S, T # {}
    PROVE  \E s \in T : \A r \in T : r \subseteq s => r = s
<1>1. IsWellFoundedOn(StrictSubsetOrdering(S), SUBSET S)
    BY FS_StrictSubsetOrderingWellFounded, FS_FiniteSubsetsOfFinite
<1>2. PICK s \in T : \A r \in T : <<r, s>> \notin StrictSubsetOrdering(S)
    BY <1>1, WFMin
<1>. QED BY <1>2 DEF StrictSubsetOrdering

-----------------------------------------------------------------------------
(***************************************************************************)
(* Recursion over 0..n.  step[i] is what the i-th step makes of a value.   *)
(***************************************************************************)
Unrolls(g, first, step, n) ==
    g[0] = first /\ \A i \in 1..n : g[i] = step[i][g[i - 1]]

\* There is a function that unrolls n steps.
LEMMA UnrollsExists ==
    ASSUME NEW n \in Nat, NEW X, NEW first \in X, NEW step \in [1..n -> [X -> X]]
    PROVE  \E g \in [0..n -> X] : Unrolls(g, first, step, n)
<1>. DEFINE Bad == {m \in 0..n : ~ \E g \in [0..m -> X] : Unrolls(g, first, step, m)}
<1>1. Bad = {}
  <2>. SUFFICES ASSUME Bad # {} PROVE FALSE
    OBVIOUS
  <2>0. Bad \in SUBSET Nat
    OBVIOUS
  <2>1. PICK m \in Bad : \A k \in Bad : m <= k
    BY <2>0, LeastNatural
  <2>2. CASE m = 0
    <3>. DEFINE g == [i \in 0..0 |-> first]
    <3>1. g \in [0..m -> X] /\ Unrolls(g, first, step, m)
      BY <2>2 DEF Unrolls
    <3>. QED BY <3>1
  <2>3. CASE m # 0
    <3>1. m - 1 \in 0..n /\ m - 1 \notin Bad /\ m \in 1..n
      BY <2>1, <2>3
    <3>2. PICK h \in [0..(m - 1) -> X] : Unrolls(h, first, step, m - 1)
      BY <3>1
    <3>. DEFINE g == [i \in 0..m |-> IF i = m THEN step[m][h[m - 1]] ELSE h[i]]
    <3>3. step[m] \in [X -> X] /\ h[m - 1] \in X
      BY <3>1
    <3>4. g \in [0..m -> X]
      BY <3>1, <3>3
    <3>5. Unrolls(g, first, step, m)
      BY <3>1, <3>2 DEF Unrolls
    <3>. QED BY <3>4, <3>5
  <2>. QED BY <2>2, <2>3
<1>. QED BY <1>1

-----------------------------------------------------------------------------
(***************************************************************************)
(* Sums.  SumFunction(f) adds up the values of f in the order in which     *)
(* Pick takes the elements of its domain.                                  *)
(***************************************************************************)
Pick(s) == CHOOSE x \in s : TRUE

\* The sum over s, from the sum over what Pick leaves of s.
Added(f, g, s) == IF s = {} THEN 0 ELSE f[Pick(s)] + g[s \ {Pick(s)}]

\* g has the sum over every subset of S.
Adds(f, g, S) == g = [s \in SUBSET S |-> Added(f, g, s)]

\* Pick takes an element.
LEMMA PickTakes == ASSUME NEW s, s # {} PROVE Pick(s) \in s
BY DEF Pick

\* SumFunction is the value of such a function.
LEMMA SumIsChosen ==
    \A f : SumFunction(f) = (CHOOSE g : Adds(f, g, DOMAIN f))[DOMAIN f]
BY DEF SumFunction, SumFunctionOnSet, FoldFunctionOnSet, MapThenFoldSet, Adds, Added, Pick

\* Two such functions agree where both are defined.
LEMMA AddsAgree ==
    ASSUME NEW f, NEW S, IsFiniteSet(S), NEW T, NEW g, NEW h, Adds(f, g, S), Adds(f, h, T),
           NEW u \in SUBSET S, u \subseteq T
    PROVE  g[u] = h[u]
<1>. DEFINE Bad == {v \in SUBSET S : v \subseteq T /\ g[v] # h[v]}
<1>1. Bad = {}
  <2>. SUFFICES ASSUME Bad # {} PROVE FALSE
    OBVIOUS
  <2>0. Bad \in SUBSET SUBSET S /\ Bad # {}
    OBVIOUS
  <2>. HIDE DEF Bad
  <2>1. PICK v \in Bad : \A w \in Bad : w \subseteq v => w = v
    BY <2>0, LeastSet
  <2>2. v \in SUBSET S /\ v \subseteq T /\ g[v] # h[v]
    BY <2>1 DEF Bad
  <2>3. g[v] = Added(f, g, v) /\ h[v] = Added(f, h, v)
    BY <2>2 DEF Adds
  <2>4. v # {}
    BY <2>2, <2>3 DEF Added
  <2>5. v \ {Pick(v)} \notin Bad
    BY <2>1, <2>4, PickTakes
  <2>6. g[v \ {Pick(v)}] = h[v \ {Pick(v)}]
    BY <2>2, <2>5 DEF Bad
  <2>. QED BY <2>2, <2>3, <2>6 DEF Added
<1>. QED BY <1>1

\* Over a finite set there is such a function.
LEMMA AddsExists ==
    ASSUME NEW f, NEW S, IsFiniteSet(S)
    PROVE  \E g : Adds(f, g, S)
<1>. DEFINE Bad == {s \in SUBSET S : ~ \E g : Adds(f, g, s)}
<1>1. Bad = {}
  <2>. SUFFICES ASSUME Bad # {} PROVE FALSE
    OBVIOUS
  <2>0. Bad \in SUBSET SUBSET S /\ Bad # {}
    OBVIOUS
  <2>. HIDE DEF Bad
  <2>1. PICK s \in Bad : \A r \in Bad : r \subseteq s => r = s
    BY <2>0, LeastSet
  <2>. DEFINE G(r) == CHOOSE g : Adds(f, g, r)
              V(r) == IF r = s THEN Added(f, G(s \ {Pick(s)}), s) ELSE G(r)[r]
              h    == [r \in SUBSET s |-> V(r)]
  <2>2. ASSUME NEW r \in SUBSET s, r # s PROVE Adds(f, G(r), r)
    <3>1. r \notin Bad /\ r \in SUBSET S
      BY <2>0, <2>1, <2>2
    <3>2. \E g : Adds(f, g, r)
      BY <3>1 DEF Bad
    <3>. QED BY <3>2
  <2>. HIDE DEF G
  <2>3. ASSUME NEW r \in SUBSET s PROVE V(r) = Added(f, h, r)
    <3>1. CASE r = {}
      <4>1. CASE r = s
        BY <3>1, <4>1 DEF Added
      <4>2. CASE r # s
        BY <2>2, <3>1, <4>2 DEF Added, Adds
      <4>. QED BY <4>1, <4>2
    <3>2. CASE r # {}
      <4>. DEFINE q == r \ {Pick(r)}
      <4>1. q \in SUBSET s /\ q # s /\ q # r
        BY <3>2, PickTakes
      <4>2. h[q] = G(q)[q]
        BY <4>1
      <4>3. CASE r = s
        BY <3>2, <4>2, <4>3 DEF Added
      <4>4. CASE r # s
        <5>. HIDE DEF q
        <5>1. Adds(f, G(r), r) /\ Adds(f, G(q), q)
          BY <2>2, <4>1, <4>4
        <5>2. G(q)[q] = G(r)[q]
          <6>1. s \in SUBSET S
            BY <2>1 DEF Bad
          <6>2. IsFiniteSet(q) /\ q \subseteq q /\ q \subseteq r
            BY <4>1, <6>1, FS_Subset DEF q
          <6>. QED BY <5>1, <6>2, AddsAgree
        <5>3. G(r)[r] = Added(f, G(r), r)
          BY <5>1 DEF Adds
        <5>. QED BY <3>2, <4>2, <4>4, <5>2, <5>3 DEF Added, q
      <4>. QED BY <4>3, <4>4
    <3>. QED BY <3>1, <3>2
  <2>4. Adds(f, h, s)
    BY <2>3 DEF Adds
  <2>. QED BY <2>1, <2>4 DEF Bad
<1>. QED BY <1>1

\* So the sum of f is the last value of a function that adds it up.
LEMMA SumAdds ==
    ASSUME NEW f, IsFiniteSet(DOMAIN f)
    PROVE  \E g : Adds(f, g, DOMAIN f) /\ SumFunction(f) = g[DOMAIN f]
<1>. DEFINE g == CHOOSE g : Adds(f, g, DOMAIN f)
<1>1. Adds(f, g, DOMAIN f)
    BY AddsExists
<1>2. SumFunction(f) = g[DOMAIN f]
    BY SumIsChosen
<1>. QED BY <1>1, <1>2

\* A property of the sums over all subsets, from each to the next: D is
\* the sets whose sums satisfy it.
LEMMA SubsetInduction ==
    ASSUME NEW S, IsFiniteSet(S), NEW D \in SUBSET SUBSET S, {} \in D,
           \A s \in SUBSET S : s # {} /\ s \ {Pick(s)} \in D => s \in D
    PROVE  S \in D
<1>. DEFINE Bad == {s \in SUBSET S : s \notin D}
<1>1. Bad = {}
  <2>. SUFFICES ASSUME Bad # {} PROVE FALSE
    OBVIOUS
  <2>0. Bad \in SUBSET SUBSET S /\ Bad # {}
    OBVIOUS
  <2>. HIDE DEF Bad
  <2>1. PICK s \in Bad : \A r \in Bad : r \subseteq s => r = s
    BY <2>0, LeastSet
  <2>2. s \in SUBSET S /\ s \notin D
    BY <2>1 DEF Bad
  <2>3. s # {}
    BY <2>2
  <2>4. s \ {Pick(s)} \notin Bad
    BY <2>1, <2>3, PickTakes
  <2>5. s \ {Pick(s)} \in D
    BY <2>2, <2>4 DEF Bad
  <2>. QED BY <2>2, <2>3, <2>5
<1>. QED BY <1>1

\* What such a function is at the empty set, and from each set to the next.
LEMMA AddsNothing ==
    ASSUME NEW f, NEW g, NEW S, Adds(f, g, S)
    PROVE  {} \in SUBSET S /\ g[{}] = 0
BY DEF Adds, Added

\* One more element adds its value.
LEMMA AddsOne ==
    ASSUME NEW f, NEW g, NEW S, Adds(f, g, S), NEW s \in SUBSET S, s # {}
    PROVE  /\ Pick(s) \in s /\ Pick(s) \in S /\ s \ {Pick(s)} \in SUBSET S
           /\ g[s] = f[Pick(s)] + g[s \ {Pick(s)}]
BY PickTakes DEF Adds, Added

\* A sum of integers is one.
LEMMA SumType ==
    ASSUME NEW S, IsFiniteSet(S), NEW f \in [S -> Int]
    PROVE  SumFunction(f) \in Int
<1>1. PICK g : Adds(f, g, S) /\ SumFunction(f) = g[S]
    BY SumAdds
<1>. DEFINE D == {s \in SUBSET S : g[s] \in Int}
<1>2. {} \in D
    BY <1>1, AddsNothing
<1>3. ASSUME NEW s \in SUBSET S, s # {}, s \ {Pick(s)} \in D PROVE s \in D
  <2>1. Pick(s) \in S /\ s \ {Pick(s)} \in SUBSET S /\ g[s] = f[Pick(s)] + g[s \ {Pick(s)}]
    BY <1>1, <1>3, AddsOne
  <2>2. f[Pick(s)] \in Int
    BY <2>1
  <2>. QED BY <1>3, <2>1, <2>2
<1>4. D \in SUBSET SUBSET S
    OBVIOUS
<1>. HIDE DEF D
<1>5. S \in D
    BY <1>2, <1>3, <1>4, SubsetInduction
<1>. QED BY <1>1, <1>5 DEF D

\* When one value changes, the sum changes by as much.
LEMMA SumChanges ==
    ASSUME NEW S, IsFiniteSet(S), NEW f \in [S -> Int], NEW g \in [S -> Int], NEW x \in S,
           \A y \in S \ {x} : g[y] = f[y]
    PROVE  SumFunction(g) = SumFunction(f) + (g[x] - f[x])
<1>1. PICK F : Adds(f, F, S) /\ SumFunction(f) = F[S]
    BY SumAdds
<1>2. PICK G : Adds(g, G, S) /\ SumFunction(g) = G[S]
    BY SumAdds
<1>. DEFINE D == {s \in SUBSET S :
                    /\ F[s] \in Int /\ G[s] \in Int
                    /\ G[s] = F[s] + (IF x \in s THEN g[x] - f[x] ELSE 0)}
<1>3. {} \in D
    BY <1>1, <1>2, AddsNothing
<1>4. ASSUME NEW s \in SUBSET S, s # {}, s \ {Pick(s)} \in D PROVE s \in D
  <2>1. /\ F[s] = f[Pick(s)] + F[s \ {Pick(s)}]
        /\ G[s] = g[Pick(s)] + G[s \ {Pick(s)}]
    BY <1>1, <1>2, <1>4, AddsOne
  <2>2. Pick(s) \in s /\ Pick(s) \in S /\ s \ {Pick(s)} \in SUBSET S
    BY <1>1, <1>4, AddsOne
  <2>3. CASE Pick(s) = x
    BY <1>4, <2>1, <2>2, <2>3
  <2>4. CASE Pick(s) # x
    <3>1. (x \in s) <=> (x \in s \ {Pick(s)})
      BY <2>4
    <3>2. g[Pick(s)] = f[Pick(s)]
      BY <2>2, <2>4
    <3>. QED BY <1>4, <2>1, <2>2, <3>1, <3>2
  <2>. QED BY <2>3, <2>4
<1>5. D \in SUBSET SUBSET S
    OBVIOUS
<1>. HIDE DEF D
<1>6. S \in D
    BY <1>3, <1>4, <1>5, SubsetInduction
<1>. QED BY <1>1, <1>2, <1>6 DEF D

\* Smaller values have a smaller sum.
LEMMA SumGrows ==
    ASSUME NEW S, IsFiniteSet(S), NEW f \in [S -> Int], NEW g \in [S -> Int],
           \A y \in S : f[y] <= g[y]
    PROVE  SumFunction(f) <= SumFunction(g)
<1>1. PICK F : Adds(f, F, S) /\ SumFunction(f) = F[S]
    BY SumAdds
<1>2. PICK G : Adds(g, G, S) /\ SumFunction(g) = G[S]
    BY SumAdds
<1>. DEFINE D == {s \in SUBSET S : F[s] \in Int /\ G[s] \in Int /\ F[s] <= G[s]}
<1>3. {} \in D
    BY <1>1, <1>2, AddsNothing
<1>4. ASSUME NEW s \in SUBSET S, s # {}, s \ {Pick(s)} \in D PROVE s \in D
  <2>1. /\ F[s] = f[Pick(s)] + F[s \ {Pick(s)}]
        /\ G[s] = g[Pick(s)] + G[s \ {Pick(s)}]
    <3>1. F[s] = f[Pick(s)] + F[s \ {Pick(s)}]
      BY <1>1, <1>4, AddsOne
    <3>2. G[s] = g[Pick(s)] + G[s \ {Pick(s)}]
      BY <1>2, <1>4, AddsOne
    <3>. QED BY <3>1, <3>2
  <2>2. Pick(s) \in S /\ s \ {Pick(s)} \in SUBSET S
    BY <1>1, <1>4, AddsOne
  <2>3. f[Pick(s)] \in Int /\ g[Pick(s)] \in Int /\ f[Pick(s)] <= g[Pick(s)]
    BY <2>2
  <2>. QED BY <1>4, <2>1, <2>3
<1>5. D \in SUBSET SUBSET S
    OBVIOUS
<1>. HIDE DEF D
<1>6. S \in D
    BY <1>3, <1>4, <1>5, SubsetInduction
<1>. QED BY <1>1, <1>2, <1>6 DEF D

\* Nothing adds up to nothing.
LEMMA SumOfZeros ==
    ASSUME NEW S, IsFiniteSet(S)
    PROVE  SumFunction([x \in S |-> 0]) = 0
<1>. DEFINE f == [x \in S |-> 0]
<1>1. PICK g : Adds(f, g, S) /\ SumFunction(f) = g[S]
    BY SumAdds
<1>. DEFINE D == {s \in SUBSET S : g[s] = 0}
<1>2. {} \in D
    BY <1>1, AddsNothing
<1>3. ASSUME NEW s \in SUBSET S, s # {}, s \ {Pick(s)} \in D PROVE s \in D
  <2>1. Pick(s) \in S /\ s \ {Pick(s)} \in SUBSET S /\ g[s] = f[Pick(s)] + g[s \ {Pick(s)}]
    BY <1>1, <1>3, AddsOne
  <2>2. f[Pick(s)] \in Int
    BY <2>1
  <2>. QED BY <1>3, <2>1, <2>2
<1>4. D \in SUBSET SUBSET S
    OBVIOUS
<1>. HIDE DEF D
<1>5. S \in D
    BY <1>2, <1>3, <1>4, SubsetInduction
<1>. QED BY <1>1, <1>5 DEF D

\* Any element can be taken out of a sum first.
LEMMA SumTakesAny ==
    ASSUME NEW S, IsFiniteSet(S), NEW f \in [S -> Int], NEW g, Adds(f, g, S),
           NEW t \in SUBSET S, NEW x \in t
    PROVE  g[t] \in Int /\ g[t] = f[x] + g[t \ {x}]
<1>. DEFINE Bad == {u \in SUBSET S : ~ (/\ g[u] \in Int
                                      /\ \A y \in u : g[u] = f[y] + g[u \ {y}])}
<1>1. Bad = {}
  <2>. SUFFICES ASSUME Bad # {} PROVE FALSE
    OBVIOUS
  <2>0. Bad \in SUBSET SUBSET S /\ Bad # {}
    OBVIOUS
  <2>1. PICK u \in Bad : \A r \in Bad : r \subseteq u => r = u
    <3>. HIDE DEF Bad
    <3>. QED BY <2>0, LeastSet
  <2>2. u # {} /\ u \in SUBSET S
    <3>1. g[{}] \in Int
      BY AddsNothing
    <3>2. u \in SUBSET S /\ ~ (g[u] \in Int /\ \A y \in u : g[u] = f[y] + g[u \ {y}])
      BY <2>1
    <3>3. u = {} => g[u] \in Int
      BY <3>1
    <3>4. u = {} => \A y \in u : g[u] = f[y] + g[u \ {y}]
      OBVIOUS
    <3>. QED BY <3>2, <3>3, <3>4
  <2>3. ASSUME NEW r \in SUBSET u, r # u
        PROVE  g[r] \in Int /\ \A y \in r : g[r] = f[y] + g[r \ {y}]
    BY <2>1, <2>3
  <2>. DEFINE p == Pick(u)
  <2>4. p \in u /\ p \in S /\ g[u] = f[p] + g[u \ {p}]
    <3>. HIDE DEF Bad, p
    <3>1. Pick(u) \in u /\ Pick(u) \in S
      BY <2>2, PickTakes
    <3>2. g[u] = f[Pick(u)] + g[u \ {Pick(u)}]
      BY <2>2, AddsOne
    <3>. QED BY <3>1, <3>2 DEF p
  <2>. HIDE DEF p
  <2>5. g[u \ {p}] \in Int /\ f[p] \in Int
    BY <2>3, <2>4
  <2>6. ASSUME NEW y \in u PROVE g[u] = f[y] + g[u \ {y}]
    <3>1. CASE y = p
      BY <2>4, <3>1
    <3>2. CASE y # p
      <4>1. g[u \ {p}] = f[y] + g[(u \ {p}) \ {y}]
        BY <2>3, <2>4, <3>2
      <4>2. g[u \ {y}] = f[p] + g[(u \ {y}) \ {p}]
        BY <2>3, <2>4, <3>2
      <4>3. (u \ {p}) \ {y} = (u \ {y}) \ {p}
        OBVIOUS
      <4>4. g[(u \ {p}) \ {y}] \in Int /\ f[y] \in Int
        <5>1. (u \ {p}) \ {y} \in SUBSET u /\ (u \ {p}) \ {y} # u
          BY <2>4
        <5>2. g[(u \ {p}) \ {y}] \in Int
          BY <2>3, <5>1
        <5>3. y \in S
          BY <2>0
        <5>. QED BY <5>2, <5>3
      <4>. HIDE DEF Bad
      <4>5. g[u \ {y}] = f[p] + g[(u \ {p}) \ {y}]
        BY <4>2, <4>3
      <4>. DEFINE b == f[p]
                  d == f[y]
                  k == g[(u \ {p}) \ {y}]
                  c == g[u \ {p}]
                  e == g[u \ {y}]
      <4>6. b \in Int /\ d \in Int /\ k \in Int /\ g[u] = b + c /\ c = d + k /\ e = b + k
        BY <2>4, <2>5, <4>1, <4>4, <4>5
      <4>. HIDE DEF b, c, d, e, k
      <4>7. b + (d + k) = d + (b + k)
        BY <4>6
      <4>8. g[u] = d + e
        BY <4>6, <4>7
      <4>. QED BY <4>8 DEF d, e
    <3>. QED BY <3>1, <3>2
  <2>. QED BY <2>1, <2>4, <2>5, <2>6
<1>. QED BY <1>1

\* A sum over one more element.
LEMMA SumAddsElement ==
    ASSUME NEW S, IsFiniteSet(S), NEW x, x \notin S, NEW f \in [S \cup {x} -> Int]
    PROVE  SumFunction(f) = SumFunction([y \in S |-> f[y]]) + f[x]
<1>. DEFINE T == S \cup {x}
            h == [y \in S |-> f[y]]
<1>1. IsFiniteSet(T) /\ T \ {x} = S
    BY FS_AddElement
<1>2. PICK F : Adds(f, F, T) /\ SumFunction(f) = F[T]
    BY <1>1, SumAdds
<1>3. PICK H : Adds(h, H, S) /\ SumFunction(h) = H[S]
    BY SumAdds
<1>4. F[T] = f[x] + F[S]
  <2>. HIDE DEF T
  <2>1. x \in T /\ f \in [T -> Int] /\ T \in SUBSET T
    BY DEF T
  <2>. QED BY <1>1, <1>2, <2>1, SumTakesAny
<1>5. H = [s \in SUBSET S |-> Added(f, H, s)]
  <2>1. \A s \in SUBSET S : Added(h, H, s) = Added(f, H, s)
    BY PickTakes DEF Added
  <2>. QED BY <1>3, <2>1 DEF Adds
<1>6. Adds(f, H, S)
    BY <1>5 DEF Adds
<1>7. F[S] = H[S]
  <2>1. S \in SUBSET T /\ S \subseteq S
    OBVIOUS
  <2>. HIDE DEF T
  <2>. QED BY <1>1, <1>2, <1>6, <2>1, AddsAgree
<1>8. SumFunction(h) \in Int /\ f[x] \in Int
  <2>1. h \in [S -> Int]
    OBVIOUS
  <2>. QED BY <2>1, SumType
<1>. QED BY <1>2, <1>3, <1>4, <1>7, <1>8

\* A sum over nothing, and over one element.
LEMMA SumOverNothing == ASSUME NEW f, DOMAIN f = {} PROVE SumFunction(f) = 0
<1>1. PICK g : Adds(f, g, DOMAIN f) /\ SumFunction(f) = g[DOMAIN f]
    BY SumAdds, FS_EmptySet
<1>. QED BY <1>1, AddsNothing

\* The sum over one element is its value.
LEMMA SumOverOne ==
    ASSUME NEW x, NEW f \in [{x} -> Int]
    PROVE  SumFunction(f) = f[x]
<1>1. SumFunction([y \in {} |-> f[y]]) = 0
    BY SumOverNothing
<1>2. {} \cup {x} = {x} /\ x \notin {} /\ IsFiniteSet({}) /\ f[x] \in Int
    BY FS_EmptySet
<1>3. SumFunction(f) = SumFunction([y \in {} |-> f[y]]) + f[x]
    BY <1>2, SumAddsElement
<1>. QED BY <1>1, <1>2, <1>3

\* Terms that are nothing can be left out of a sum.
LEMMA SumWithout ==
    ASSUME NEW S, IsFiniteSet(S), NEW f \in [S -> Int], NEW T \in SUBSET S,
           \A x \in S \ T : f[x] = 0
    PROVE  SumFunction(f) = SumFunction([x \in T |-> f[x]])
<1>. DEFINE part(r) == [x \in T \cup r |-> f[x]]
            R == S \ T
            D == {r \in SUBSET R : SumFunction(part(r)) = SumFunction(part({}))}
<1>1. IsFiniteSet(R) /\ D \in SUBSET SUBSET R /\ {} \in D
  BY FS_Subset
<1>2. ASSUME NEW r \in SUBSET R, r # {}, r \ {Pick(r)} \in D PROVE r \in D
  <2>. DEFINE p == Pick(r)
              q == r \ {p}
              Q == T \cup q
  <2>1. p \in r /\ p \in S \ T /\ f[p] = 0
    BY <1>2, PickTakes
  <2>2. IsFiniteSet(Q) /\ p \notin Q /\ Q \cup {p} = T \cup r /\ Q \subseteq S
    BY <2>1, FS_Subset
  <2>3. part(r) \in [Q \cup {p} -> Int] /\ part(r)[p] = 0
    BY <2>1, <2>2
  <2>4. [y \in Q |-> part(r)[y]] = part(q)
    BY <2>2
  <2>. HIDE DEF p, q
  <2>5. SumFunction(part(r)) = SumFunction([y \in Q |-> part(r)[y]]) + part(r)[p]
    <3>. DEFINE g == part(r)
    <3>1. g \in [Q \cup {p} -> Int]
      BY <2>3
    <3>. HIDE DEF g, Q
    <3>. QED BY <2>2, <3>1, SumAddsElement DEF g
  <2>6. SumFunction(part(q)) \in Int
    <3>. DEFINE g == part(q)
    <3>1. g \in [Q -> Int]
      BY <2>2
    <3>. HIDE DEF g, Q
    <3>. QED BY <2>2, <3>1, SumType DEF g
  <2>7. SumFunction(part(q)) = SumFunction(part({}))
    BY <1>2 DEF p, q
  <2>8. SumFunction([y \in Q |-> part(r)[y]]) = SumFunction(part(q))
    BY <2>4
  <2>9. \A n \in Int : n + 0 = n
    OBVIOUS
  <2>. HIDE DEF part, Q
  <2>10. SumFunction(part(r)) = SumFunction(part({}))
    BY <2>3, <2>5, <2>6, <2>7, <2>8, <2>9
  <2>. QED BY <2>10
<1>. HIDE DEF D
<1>3. R \in D
  BY <1>1, <1>2, SubsetInduction
<1>4. T \cup R = S /\ T \cup {} = T /\ f = [x \in S |-> f[x]]
  OBVIOUS
<1>. QED BY <1>3, <1>4 DEF D

-----------------------------------------------------------------------------
(***************************************************************************)
(* Powers of two, counted as the subsets of 1..n; and the smaller and the  *)
(* larger of two numbers.                                                  *)
(***************************************************************************)
LEMMA PowerIsCount ==
    ASSUME NEW n \in Nat
    PROVE  /\ IsFiniteSet(1..n) /\ IsFiniteSet(SUBSET (1..n))
           /\ Cardinality(SUBSET (1..n)) = 2^n /\ 2^n \in Nat
<1>1. IsFiniteSet(1..n) /\ Cardinality(1..n) = n
    <2>1. /\ IsFiniteSet(1..n)
          /\ Cardinality(1..n) = IF 1 > n THEN 0 ELSE n - 1 + 1
        BY FS_Interval
    <2>. QED BY <2>1
<1>. DEFINE S == 1..n
<1>2. IsFiniteSet(S) /\ Cardinality(S) = n
    BY <1>1
<1>. HIDE DEF S
<1>3. IsFiniteSet(SUBSET S) /\ Cardinality(SUBSET S) = 2^n
    BY <1>2, FS_SUBSET
<1>4. Cardinality(SUBSET S) \in Nat
    BY <1>3, FS_CardinalityType
<1>. QED BY <1>1, <1>3, <1>4 DEF S

\* Every set of numbers up to n has a partner with n + 1 in it.
LEMMA PowerDoubles ==
    ASSUME NEW n \in Nat
    PROVE  2^(n + 1) = 2 * 2^n
<1>. DEFINE A == SUBSET (1..n)
            B == {s \in SUBSET (1..(n + 1)) : n + 1 \in s}
            f == [s \in A |-> s \cup {n + 1}]
<1>1. SUBSET (1..(n + 1)) = A \cup B /\ A \cap B = {}
  <2>1. ASSUME NEW s \in SUBSET (1..(n + 1)), n + 1 \notin s PROVE s \in A
    <3>1. \A x \in s : x \in 1..n
      <4>. TAKE x \in s
      <4>1. x \in 1..(n + 1) /\ x # n + 1
        BY <2>1
      <4>. QED BY <4>1
    <3>. QED BY <3>1
  <2>2. ASSUME NEW s \in A PROVE s \in SUBSET (1..(n + 1)) /\ n + 1 \notin s
    <3>1. \A x \in s : x \in 1..(n + 1) /\ x # n + 1
      BY <2>2
    <3>. QED BY <3>1
  <2>. QED BY <2>1, <2>2
<1>2. f \in Bijection(A, B)
  <2>1. ASSUME NEW s \in A PROVE s \subseteq 1..(n + 1) /\ n + 1 \notin s
    <3>1. \A x \in s : x \in 1..(n + 1) /\ x # n + 1
      BY <2>1
    <3>. QED BY <3>1
  <2>2. \A s \in A : s \cup {n + 1} \in B
    BY <2>1
  <2>3. f \in [A -> B]
    BY <2>2
  <2>4. \A r, s \in A : f[r] = f[s] => r = s
    <3>. TAKE r, s \in A
    <3>1. r = f[r] \ {n + 1} /\ s = f[s] \ {n + 1}
      BY <2>1
    <3>. QED BY <3>1
  <2>5. ASSUME NEW t \in B PROVE \E s \in A : f[s] = t
    <3>1. \A x \in t \ {n + 1} : x \in 1..n
      <4>. TAKE x \in t \ {n + 1}
      <4>1. x \in 1..(n + 1) /\ x # n + 1
        BY <2>5
      <4>. QED BY <4>1
    <3>2. t \ {n + 1} \in A
      BY <3>1
    <3>3. f[t \ {n + 1}] = t
      BY <2>5, <3>2
    <3>. QED BY <3>2, <3>3
  <2>. QED BY <2>3, <2>4, <2>5 DEF Bijection, Injection, Surjection, IsInjective
<1>3. IsFiniteSet(A) /\ Cardinality(A) = 2^n /\ 2^n \in Nat
  BY PowerIsCount
<1>4. Cardinality(SUBSET (1..(n + 1))) = 2^(n + 1)
  <2>1. n + 1 \in Nat
    OBVIOUS
  <2>. QED BY <2>1, PowerIsCount
<1>. HIDE DEF A, B, f
<1>5. ExistsBijection(A, B)
  BY <1>2 DEF ExistsBijection
<1>6. IsFiniteSet(B) /\ Cardinality(B) = 2^n
  BY <1>3, <1>5, FS_Bijection
<1>7. Cardinality(A \cap B) = 0
  BY <1>1, FS_EmptySet
<1>8. Cardinality(A \cup B) = 2^n + 2^n
  BY <1>3, <1>6, <1>7, FS_Union
<1>9. 2^(n + 1) = 2^n + 2^n
  BY <1>1, <1>4, <1>8
<1>10. \A p \in Nat : p + p = 2 * p
  OBVIOUS
<1>. QED BY <1>3, <1>9, <1>10

\* A power of two exceeds its exponent.
LEMMA PowerGrows ==
    ASSUME NEW n \in Nat
    PROVE  2^n \in Nat /\ n + 1 <= 2^n
<1>. DEFINE Bad == {m \in Nat : ~ m + 1 <= 2^m}
<1>1. Bad = {}
  <2>. SUFFICES ASSUME Bad # {} PROVE FALSE
    OBVIOUS
  <2>1. PICK m \in Bad : \A k \in Bad : m <= k
    BY LeastNatural
  <2>2. m # 0
    <3>. SUFFICES ASSUME m = 0 PROVE m + 1 <= 2^m
      BY <2>1
    <3>1. SUBSET (1..m) = {{}}
      OBVIOUS
    <3>2. Cardinality(SUBSET (1..m)) = 1
      BY <3>1, FS_Singleton
    <3>. QED BY <2>1, <3>2, PowerIsCount
  <2>3. m \in Nat /\ m - 1 \in Nat /\ m - 1 + 1 = m /\ m - 1 \notin Bad
    BY <2>1, <2>2
  <2>4. m <= 2^(m - 1) /\ 2^(m - 1) \in Nat
    BY <2>3, PowerIsCount
  <2>5. 2^m = 2 * 2^(m - 1)
    BY <2>3, PowerDoubles
  <2>. QED BY <2>1, <2>2, <2>3, <2>4, <2>5
<1>. QED BY <1>1, PowerIsCount

\* The smaller and the larger of two numbers.
LEMMA MinOfTwo ==
    \A a, b \in Int : Min({a, b}) = IF a <= b THEN a ELSE b
  BY DEF Min

\* The largest and the smallest element of a set that has one.
LEMMA MaxIs ==
    ASSUME NEW S \in SUBSET Int, NEW m \in S, \A x \in S : x <= m
    PROVE  Max(S) = m
<1>1. \A y \in S : y >= m => y = m
  OBVIOUS
<1>2. \A x \in S : m >= x
  OBVIOUS
<1>3. \A y \in S : (\A x \in S : y >= x) => y = m
  BY <1>1
<1>4. (CHOOSE y \in S : \A x \in S : y >= x) = m
  BY <1>2, <1>3
<1>. QED BY <1>4 DEF Max

\* The smallest element of a set that has one.
LEMMA MinIs ==
    ASSUME NEW S \in SUBSET Int, NEW m \in S, \A x \in S : m <= x
    PROVE  Min(S) = m
<1>1. \A y \in S : y <= m => y = m
  OBVIOUS
<1>2. \A x \in S : m <= x
  OBVIOUS
<1>3. \A y \in S : (\A x \in S : y <= x) => y = m
  BY <1>1
<1>4. (CHOOSE y \in S : \A x \in S : y <= x) = m
  BY <1>2, <1>3
<1>. QED BY <1>4 DEF Min

\* The larger of two numbers.
LEMMA MaxOfTwo ==
    \A a, b \in Int : Max({a, b}) = IF a >= b THEN a ELSE b
  BY DEF Max

\* Numbers up to n have a largest one.
LEMMA LargestOf ==
    ASSUME NEW n \in Nat, NEW S \in SUBSET (0..n), S # {}
    PROVE  \E m \in S : \A x \in S : x <= m
<1> DEFINE D == {d \in Nat : n - d \in S}
<1>1. \A x \in S : n - x \in D
  BY SMT
<1>2. D \in SUBSET Nat /\ D # {}
  BY <1>1
<1>3. PICK d \in D : \A e \in D : d <= e
  <2> HIDE DEF D
  <2> QED BY <1>2, LeastNatural
<1>4. n - d \in S /\ d \in Nat
  BY <1>3
<1>5. \A x \in S : d <= n - x
  BY <1>1, <1>3
<1>6. \A x \in S : x <= n - d
  BY <1>4, <1>5
<1> QED BY <1>4, <1>6

\* What Max picks from numbers up to n.
LEMMA MaxTakes ==
    ASSUME NEW n \in Nat, NEW S \in SUBSET (0..n), S # {}
    PROVE  Max(S) \in S /\ \A x \in S : x <= Max(S)
<1>1. PICK m \in S : \A x \in S : x <= m
  BY LargestOf
<1>2. S \in SUBSET Int
  OBVIOUS
<1> QED BY <1>1, <1>2, MaxIs

\* What Min picks from naturals.
LEMMA MinTakes ==
    ASSUME NEW S \in SUBSET Nat, S # {}
    PROVE  Min(S) \in S /\ \A x \in S : Min(S) <= x
<1>1. PICK m \in S : \A x \in S : m <= x
  BY LeastNatural
<1>2. S \in SUBSET Int
  OBVIOUS
<1> QED BY <1>1, <1>2, MinIs

\* A sequence without its i-th element.
LEMMA WithoutOne ==
    ASSUME NEW S, NEW q \in Seq(S), NEW i \in 1..Len(q)
    PROVE  /\ RemoveAt(q, i) \in Seq(S)
           /\ DOMAIN RemoveAt(q, i) = 1..(Len(q) - 1)
           /\ \A j \in 1..(Len(q) - 1) :
                RemoveAt(q, i)[j] = q[IF j < i THEN j ELSE j + 1]
<1>. DEFINE a == SubSeq(q, 1, i - 1)
            b == SubSeq(q, i + 1, Len(q))
<1>1. a \in Seq(S) /\ Len(a) = i - 1 /\ \A j \in 1..(i - 1) : a[j] = q[j]
  BY SubSeqProperties
<1>2. b \in Seq(S) /\ Len(b) = Len(q) - i /\ \A j \in 1..(Len(q) - i) : b[j] = q[i + j]
  BY SubSeqProperties
<1>3. RemoveAt(q, i) = a \o b
  BY DEF RemoveAt
<1>. HIDE DEF a, b
<1>4. Len(q) \in Nat /\ i \in Nat /\ 1 <= i /\ i <= Len(q)
  BY LenProperties
<1>5. a \o b \in Seq(S) /\ Len(a \o b) = Len(q) - 1
  <2>1. a \o b \in Seq(S) /\ Len(a \o b) = Len(a) + Len(b)
    BY <1>1, <1>2, ConcatProperties
  <2>. QED BY <1>1, <1>2, <1>4, <2>1
<1>6. DOMAIN (a \o b) = 1..(Len(q) - 1)
  BY <1>5, LenProperties
<1>7. ASSUME NEW j \in 1..(Len(q) - 1)
      PROVE  (a \o b)[j] = q[IF j < i THEN j ELSE j + 1]
  <2>1. (a \o b)[j] = IF j <= Len(a) THEN a[j] ELSE b[j - Len(a)]
    BY <1>1, <1>2, <1>4, ConcatProperties
  <2>2. CASE j < i
    BY <1>1, <1>4, <2>1, <2>2
  <2>3. CASE ~(j < i)
    <3>1. j - (i - 1) \in 1..(Len(q) - i) /\ i + (j - (i - 1)) = j + 1
      BY <1>4, <2>3
    <3>2. b[j - (i - 1)] = q[j + 1]
      BY <1>2, <3>1
    <3>. QED BY <1>1, <1>4, <2>1, <2>3, <3>2
  <2>. QED BY <2>2, <2>3
<1>. QED BY <1>3, <1>5, <1>6, <1>7

-----------------------------------------------------------------------------
(***************************************************************************)
(* Folds.  MapThenFoldSet takes the elements of a set as ch says and makes *)
(* of each, with what it made of the rest, what step says.                 *)
(***************************************************************************)
Taken(S, ch) == \A s \in SUBSET S : s # {} => ch[s] \in s

\* The fold of s, from the fold of what is left of it.
Stepped(g, ch, base, step, s) ==
    IF s = {} THEN base ELSE step[ch[s]][g[s \ {ch[s]}]]

FoldsOver(g, S, ch, base, step) == g = [s \in SUBSET S |-> Stepped(g, ch, base, step, s)]

\* A property of the folds of all subsets, from each to the next.
LEMMA FoldInduction ==
    ASSUME NEW S, IsFiniteSet(S), NEW ch, Taken(S, ch), NEW D \in SUBSET SUBSET S, {} \in D,
           \A s \in SUBSET S : s # {} /\ s \ {ch[s]} \in D => s \in D
    PROVE  S \in D
<1>. DEFINE Bad == {s \in SUBSET S : s \notin D}
<1>1. Bad = {}
  <2>. SUFFICES ASSUME Bad # {} PROVE FALSE
    OBVIOUS
  <2>0. Bad \in SUBSET SUBSET S /\ Bad # {}
    OBVIOUS
  <2>. HIDE DEF Bad
  <2>1. PICK s \in Bad : \A r \in Bad : r \subseteq s => r = s
    BY <2>0, LeastSet
  <2>2. s \in SUBSET S /\ s \notin D /\ s # {}
    BY <2>1 DEF Bad
  <2>3. ch[s] \in s
    BY <2>2 DEF Taken
  <2>4. s \ {ch[s]} \notin Bad /\ s \ {ch[s]} \in SUBSET S
    BY <2>1, <2>2, <2>3
  <2>. QED BY <2>2, <2>4 DEF Bad
<1>. QED BY <1>1

\* Two folds agree where both are defined.
LEMMA FoldsAgree ==
    ASSUME NEW S, IsFiniteSet(S), NEW ch, Taken(S, ch), NEW base, NEW step, NEW T, NEW g, NEW h,
           FoldsOver(g, S, ch, base, step), FoldsOver(h, T, ch, base, step),
           NEW u \in SUBSET S, u \subseteq T
    PROVE  g[u] = h[u]
<1>. DEFINE D == {v \in SUBSET S : v \subseteq T => g[v] = h[v]}
<1>1. ASSUME NEW v \in SUBSET S, v # {} => ch[v] \in v,
             v # {} => v \ {ch[v]} \in D, v \subseteq T
      PROVE  g[v] = h[v]
  <2>1. g[v] = Stepped(g, ch, base, step, v) /\ h[v] = Stepped(h, ch, base, step, v)
    BY <1>1 DEF FoldsOver
  <2>2. v # {} => g[v \ {ch[v]}] = h[v \ {ch[v]}]
    BY <1>1
  <2>. QED BY <2>1, <2>2 DEF Stepped
<1>2. \A v \in SUBSET S : v # {} => ch[v] \in v
  BY DEF Taken
<1>3. {} \in D
  BY <1>1
<1>4. D \in SUBSET SUBSET S /\ \A v \in SUBSET S : v \in D <=> (v \subseteq T => g[v] = h[v])
  OBVIOUS
<1>. HIDE DEF D
<1>5. \A v \in SUBSET S : v # {} /\ v \ {ch[v]} \in D => v \in D
  BY <1>1, <1>2, <1>4
<1>6. ASSUME NEW v \in SUBSET S PROVE v \in D
  <2>1. IsFiniteSet(v) /\ Taken(v, ch)
    BY FS_Subset DEF Taken
  <2>. DEFINE E == {r \in SUBSET v : r \in D}
  <2>2. E \in SUBSET SUBSET v /\ {} \in E
    BY <1>3
  <2>3. \A r \in SUBSET v : r # {} /\ r \ {ch[r]} \in E => r \in E
    BY <1>5
  <2>. HIDE DEF E
  <2>4. v \in E
    BY <2>1, <2>2, <2>3, FoldInduction
  <2>. QED BY <2>4 DEF E
<1>. QED BY <1>4, <1>6

\* Over a finite set there is such a fold.
LEMMA FoldExists ==
    ASSUME NEW S, IsFiniteSet(S), NEW ch, Taken(S, ch), NEW base, NEW step
    PROVE  \E g : FoldsOver(g, S, ch, base, step)
<1>. DEFINE Bad == {s \in SUBSET S : ~ \E g : FoldsOver(g, s, ch, base, step)}
<1>1. Bad = {}
  <2>. SUFFICES ASSUME Bad # {} PROVE FALSE
    OBVIOUS
  <2>0. Bad \in SUBSET SUBSET S /\ Bad # {}
    OBVIOUS
  <2>. HIDE DEF Bad
  <2>1. PICK s \in Bad : \A r \in Bad : r \subseteq s => r = s
    BY <2>0, LeastSet
  <2>. DEFINE G(r) == CHOOSE g : FoldsOver(g, r, ch, base, step)
              V(r) == IF r = s THEN Stepped(G(s \ {ch[s]}), ch, base, step, s) ELSE G(r)[r]
              h    == [r \in SUBSET s |-> V(r)]
  <2>2. ASSUME NEW r \in SUBSET s, r # s PROVE FoldsOver(G(r), r, ch, base, step)
    <3>1. r \notin Bad /\ r \in SUBSET S
      BY <2>0, <2>1, <2>2
    <3>2. \E g : FoldsOver(g, r, ch, base, step)
      BY <3>1 DEF Bad
    <3>. QED BY <3>2
  <2>. HIDE DEF G
  <2>3. ASSUME NEW r \in SUBSET s PROVE V(r) = Stepped(h, ch, base, step, r)
    <3>1. CASE r = {}
      <4>1. CASE r = s
        BY <3>1, <4>1 DEF Stepped
      <4>2. CASE r # s
        BY <2>2, <3>1, <4>2 DEF Stepped, FoldsOver
      <4>. QED BY <4>1, <4>2
    <3>2. CASE r # {}
      <4>. DEFINE q == r \ {ch[r]}
      <4>0. ch[r] \in r
        BY <2>0, <2>1, <3>2 DEF Taken
      <4>1. q \in SUBSET s /\ q # s /\ q # r
        BY <3>2, <4>0
      <4>2. h[q] = G(q)[q]
        BY <4>1
      <4>3. CASE r = s
        BY <3>2, <4>2, <4>3 DEF Stepped
      <4>4. CASE r # s
        <5>. HIDE DEF q
        <5>1. FoldsOver(G(r), r, ch, base, step) /\ FoldsOver(G(q), q, ch, base, step)
          BY <2>2, <4>1, <4>4
        <5>2. G(q)[q] = G(r)[q]
          <6>1. s \in SUBSET S
            BY <2>1 DEF Bad
          <6>2. IsFiniteSet(q) /\ q \in SUBSET q /\ q \subseteq r /\ Taken(q, ch)
            BY <4>1, <6>1, FS_Subset DEF q, Taken
          <6>. HIDE DEF h, V
          <6>. QED BY <5>1, <6>2, FoldsAgree
        <5>3. G(r)[r] = Stepped(G(r), ch, base, step, r)
          BY <5>1 DEF FoldsOver
        <5>. QED BY <3>2, <4>2, <4>4, <5>2, <5>3 DEF Stepped, q
      <4>. QED BY <4>3, <4>4
    <3>. QED BY <3>1, <3>2
  <2>4. FoldsOver(h, s, ch, base, step)
    BY <2>3 DEF FoldsOver
  <2>. QED BY <2>1, <2>4 DEF Bad
<1>. QED BY <1>1

\* What a fold makes is of the type of what it starts from.
LEMMA FoldType ==
    ASSUME NEW S, IsFiniteSet(S), NEW ch, Taken(S, ch), NEW X, NEW base \in X,
           NEW step \in [S -> [X -> X]], NEW g, FoldsOver(g, S, ch, base, step)
    PROVE  \A s \in SUBSET S : g[s] \in X
<1>. DEFINE D == {s \in SUBSET S : g[s] \in X}
<1>1. \A s \in SUBSET S : g[s] = Stepped(g, ch, base, step, s)
  BY DEF FoldsOver
<1>2. {} \in D /\ D \in SUBSET SUBSET S
  BY <1>1 DEF Stepped
<1>3. ASSUME NEW s \in SUBSET S, s # {}, s \ {ch[s]} \in D PROVE s \in D
  <2>1. ch[s] \in S
    BY <1>3 DEF Taken
  <2>2. step[ch[s]] \in [X -> X] /\ g[s \ {ch[s]}] \in X
    BY <1>3, <2>1
  <2>. QED BY <1>1, <1>3, <2>2 DEF Stepped
<1>4. ASSUME NEW s \in SUBSET S PROVE s \in D
  <2>. HIDE DEF D
  <2>. DEFINE E == {r \in SUBSET s : r \in D}
  <2>1. IsFiniteSet(s) /\ Taken(s, ch) /\ E \in SUBSET SUBSET s /\ {} \in E
    BY <1>2, FS_Subset DEF Taken
  <2>2. \A r \in SUBSET s : r # {} /\ r \ {ch[r]} \in E => r \in E
    BY <1>3
  <2>. HIDE DEF E
  <2>3. s \in E
    BY <2>1, <2>2, FoldInduction
  <2>. QED BY <2>3 DEF E
<1>. QED BY <1>4

\* The values of a function over a finite set are finitely many.
LEMMA ImageIsFinite ==
    ASSUME NEW S, IsFiniteSet(S), NEW f, DOMAIN f = S
    PROVE  IsFiniteSet({f[x] : x \in S})
<1>. DEFINE T == {f[x] : x \in S}
            h == [x \in S |-> f[x]]
<1>1. h \in Surjection(S, T)
  BY DEF Surjection
<1>. QED BY <1>1, FS_Surjection

\* What Max and Min pick from finitely many integers.
LEMMA MaxOfFinite ==
    ASSUME NEW S \in SUBSET Int, IsFiniteSet(S), S # {}
    PROVE  Max(S) \in S /\ \A x \in S : x <= Max(S)
<1>. DEFINE ch == [s \in SUBSET S |-> Pick(s)]
            D == {s \in SUBSET S : s # {} => \E m \in s : \A x \in s : x <= m}
<1>1. Taken(S, ch)
  BY PickTakes DEF Taken
<1>2. ASSUME NEW s \in SUBSET S, s # {}, s \ {ch[s]} \in D PROVE s \in D
  <2>1. ch[s] \in s /\ ch[s] \in Int
    BY <1>1, <1>2 DEF Taken
  <2>2. CASE s \ {ch[s]} = {}
    <3>1. \A x \in s : x <= ch[s]
      BY <2>1, <2>2
    <3>. QED BY <2>1, <3>1
  <2>3. CASE s \ {ch[s]} # {}
    <3>1. PICK m \in s \ {ch[s]} : \A x \in s \ {ch[s]} : x <= m
      BY <1>2, <2>3
    <3>. HIDE DEF ch
    <3>2. m \in Int /\ \A x \in s : x \in Int /\ (x <= m \/ x = ch[s])
      BY <3>1
    <3>3. CASE m <= ch[s]
      <4>1. \A x \in s : x <= ch[s]
        BY <2>1, <3>2, <3>3
      <4>. QED BY <2>1, <4>1
    <3>4. CASE ~(m <= ch[s])
      <4>1. \A x \in s : x <= m
        BY <2>1, <3>2, <3>4
      <4>. QED BY <3>1, <4>1
    <3>. QED BY <3>3, <3>4
  <2>. QED BY <2>2, <2>3
<1>3. {} \in D /\ D \in SUBSET SUBSET S
  OBVIOUS
<1>. HIDE DEF ch, D
<1>4. S \in D
  BY <1>1, <1>2, <1>3, FoldInduction
<1>5. PICK m \in S : \A x \in S : x <= m
  BY <1>4 DEF D
<1>. QED BY <1>5, MaxIs

LEMMA MinOfFinite ==
    ASSUME NEW S \in SUBSET Int, IsFiniteSet(S), S # {}
    PROVE  Min(S) \in S /\ \A x \in S : Min(S) <= x
<1>. DEFINE neg == [x \in S |-> -x]
            T == {neg[x] : x \in S}
<1>1. IsFiniteSet(T)
  BY ImageIsFinite
<1>2. T \in SUBSET Int /\ T # {}
  <2>1. \A x \in S : neg[x] \in Int
    OBVIOUS
  <2>. HIDE DEF neg
  <2>. QED BY <2>1
<1>. HIDE DEF T
<1>3. Max(T) \in T /\ \A x \in T : x <= Max(T)
  BY <1>1, <1>2, MaxOfFinite
<1>4. PICK m \in S : Max(T) = -m
  BY <1>3 DEF T
<1>5. \A x \in S : -x <= -m
  BY <1>3, <1>4 DEF T
<1>6. \A x \in S : m <= x
  BY <1>5
<1>. QED BY <1>6, MinIs

\* A later time is in a later day, or in the same.
LEMMA DaysMount ==
    ASSUME NEW n \in Nat \ {0}, NEW a \in Int, NEW b \in Int, a <= b
    PROVE  a \div n <= b \div n
<1>. DEFINE q == a \div n
            p == b \div n
<1>1. q \in Int /\ p \in Int /\ n * q <= a /\ b < n * (p + 1)
  OBVIOUS
<1>. HIDE DEF q, p
<1>2. ASSUME p + 1 <= q PROVE FALSE
  <2>1. n * (p + 1) <= n * q
    BY <1>1, <1>2
  <2>2. n * (p + 1) \in Int /\ n * q \in Int
    BY <1>1
  <2>. QED BY <1>1, <2>1, <2>2
<1>3. q <= p
  BY <1>1, <1>2
<1>. QED BY <1>3 DEF q, p

\* Fewer than k values of f lie below that of x, and k do not lie above it.
HasRank(S, f, k, x) ==
    /\ Cardinality({y \in S : f[y] < f[x]}) < k
    /\ Cardinality({y \in S : f[y] <= f[x]}) >= k

\* Of finitely many values one has rank k.
LEMMA RankIsMet ==
    ASSUME NEW S, IsFiniteSet(S), NEW f, \A x \in S : f[x] \in Int, NEW k \in 1..Cardinality(S)
    PROVE  \E x \in S : HasRank(S, f, k, x)
<1>. DEFINE below(v) == {y \in S : f[y] < v}
            upTo(v) == {y \in S : f[y] <= v}
            F == [x \in S |-> f[x]]
            V == {F[x] : x \in S}
            T == {v \in V : Cardinality(upTo(v)) >= k}
<1>0. Cardinality(S) \in Nat /\ k \in Nat /\ k >= 1 /\ S # {}
  BY FS_CardinalityType, FS_EmptySet
<1>1. IsFiniteSet(V) /\ V \in SUBSET Int
  <2>1. DOMAIN F = S /\ \A x \in S : F[x] = f[x]
    OBVIOUS
  <2>2. IsFiniteSet(V)
    <3>. HIDE DEF F
    <3>. QED BY <2>1, ImageIsFinite
  <2>. QED BY <2>1, <2>2
<1>2. \A v : /\ IsFiniteSet(below(v)) /\ Cardinality(below(v)) \in Nat
             /\ IsFiniteSet(upTo(v)) /\ Cardinality(upTo(v)) \in Nat
  <2>. TAKE v
  <2>1. below(v) \in SUBSET S /\ upTo(v) \in SUBSET S
    OBVIOUS
  <2>. HIDE DEF below, upTo
  <2>. QED BY <2>1, FS_Subset, FS_CardinalityType
<1>3. \A x \in S : F[x] = f[x]
  OBVIOUS
<1>. HIDE DEF F
<1>4. T # {}
  <2>1. V # {}
    BY <1>0
  <2>2. PICK x \in S : \A v \in V : v <= F[x]
    <3>. HIDE DEF V
    <3>1. Max(V) \in V /\ \A v \in V : v <= Max(V)
      BY <1>1, <2>1, MaxOfFinite
    <3>. QED BY <3>1 DEF V
  <2>3. upTo(F[x]) = S
    <3>1. \A y \in S : F[y] \in V /\ F[y] <= F[x] /\ F[y] = f[y]
      BY <2>2, <1>3
    <3>. QED BY <3>1
  <2>4. Cardinality(upTo(F[x])) >= k
    <3>. HIDE DEF upTo
    <3>. QED BY <2>3, <1>0
  <2>. QED BY <2>4
<1>5. PICK v \in T : \A w \in T : v <= w
  <2>1. T \in SUBSET V
    OBVIOUS
  <2>. HIDE DEF T
  <2>2. IsFiniteSet(T) /\ T \in SUBSET Int
    BY <2>1, <1>1, FS_Subset
  <2>. QED BY <2>2, <1>4, MinOfFinite
<1>6. v \in V /\ v \in Int /\ Cardinality(upTo(v)) >= k
  BY <1>1
<1>7. Cardinality(below(v)) < k
  <2>. DEFINE W == {w \in V : w < v}
  <2>1. CASE W = {}
    <3>1. below(v) = {}
      <4>1. \A y \in S : F[y] \in V /\ F[y] = f[y]
        BY <1>3
      <4>. QED BY <2>1, <4>1
    <3>. HIDE DEF below
    <3>. QED BY <3>1, <1>0, FS_EmptySet
  <2>2. CASE W # {}
    <3>1. W \in SUBSET V
      OBVIOUS
    <3>2. PICK w \in W : \A u \in W : u <= w
      <4>. HIDE DEF W, V
      <4>1. IsFiniteSet(W) /\ W \in SUBSET Int
        BY <3>1, <1>1, FS_Subset
      <4>. QED BY <4>1, <2>2, MaxOfFinite
    <3>3. w \in V /\ w < v /\ w \in Int
      BY <1>1
    <3>4. below(v) = upTo(w)
      <4>1. ASSUME NEW y \in S PROVE f[y] < v <=> f[y] <= w
        <5>1. F[y] \in V /\ F[y] = f[y] /\ f[y] \in Int
          BY <1>3
        <5>2. f[y] < v => f[y] \in W
          BY <5>1
        <5>. HIDE DEF W, V
        <5>. QED BY <5>1, <5>2, <3>2, <3>3, <1>6
      <4>. QED BY <4>1
    <3>5. w \notin T
      <4>. HIDE DEF T
      <4>. QED BY <1>5, <1>6, <3>3
    <3>6. ~(Cardinality(upTo(w)) >= k)
      BY <3>3, <3>5
    <3>. HIDE DEF below, upTo
    <3>. QED BY <3>4, <3>6, <1>0, <1>2
  <2>. QED BY <2>1, <2>2
<1>8. PICK x \in S : v = F[x]
  BY <1>6
<1>9. v = f[x]
  BY <1>3, <1>8
<1>. HIDE DEF T, V
<1>. QED BY <1>6, <1>7, <1>9 DEF HasRank

\* The two ranks of a median are ranks.
LEMMA MiddleRanks ==
    ASSUME NEW n \in Nat, n > 0
    PROVE  (n + 1) \div 2 \in 1..n /\ n \div 2 + 1 \in 1..n
OBVIOUS

\* The sizes of sets that have nothing in common add up to that of their union.
LEMMA SizesAddUp ==
    ASSUME NEW S, IsFiniteSet(S), NEW A, \A k \in S : IsFiniteSet(A[k]),
           \A i, j \in S : i # j => A[i] \cap A[j] = {}
    PROVE  SumFunction([k \in S |-> Cardinality(A[k])]) = Cardinality(UNION {A[k] : k \in S})
<1>. DEFINE f == [k \in S |-> Cardinality(A[k])]
            All(s) == UNION {A[k] : k \in s}
<1>1. PICK g : Adds(f, g, S) /\ SumFunction(f) = g[S]
  <2>1. DOMAIN f = S
    OBVIOUS
  <2>. HIDE DEF f
  <2>. QED BY <2>1, SumAdds
<1>. DEFINE D == {s \in SUBSET S : IsFiniteSet(All(s)) /\ g[s] = Cardinality(All(s))}
<1>2. {} \in D
  BY <1>1, AddsNothing, FS_EmptySet
<1>3. ASSUME NEW s \in SUBSET S, s # {}, s \ {Pick(s)} \in D PROVE s \in D
  <2>1. /\ Pick(s) \in s /\ Pick(s) \in S /\ s \ {Pick(s)} \in SUBSET S
        /\ g[s] = f[Pick(s)] + g[s \ {Pick(s)}]
    BY <1>1, <1>3, AddsOne
  <2>. DEFINE p == Pick(s)
              B == All(s \ {p})
  <2>2. All(s) = A[p] \cup B /\ A[p] \cap B = {}
    <3>1. \A k \in s \ {p} : A[p] \cap A[k] = {}
      BY <2>1
    <3>. HIDE DEF p
    <3>2. p \in s
      BY <2>1 DEF p
    <3>. QED BY <3>1, <3>2
  <2>3. IsFiniteSet(B) /\ g[s \ {p}] = Cardinality(B) /\ IsFiniteSet(A[p])
    BY <1>3, <2>1
  <2>4. f[p] = Cardinality(A[p])
    BY <2>1
  <2>. HIDE DEF B, p, All
  <2>5. /\ IsFiniteSet(A[p] \cup B)
        /\ Cardinality(A[p] \cup B) = Cardinality(A[p]) + Cardinality(B) - Cardinality(A[p] \cap B)
    BY <2>3, FS_Union
  <2>6. Cardinality(A[p]) \in Nat /\ Cardinality(B) \in Nat /\ Cardinality(A[p] \cap B) = 0
    BY <2>2, <2>3, FS_CardinalityType, FS_EmptySet
  <2>7. g[s] = Cardinality(All(s)) /\ IsFiniteSet(All(s))
    BY <2>1, <2>2, <2>3, <2>4, <2>5, <2>6 DEF p
  <2>. QED BY <2>7
<1>4. D \in SUBSET SUBSET S
  OBVIOUS
<1>. HIDE DEF D
<1>5. S \in D
  BY <1>2, <1>3, <1>4, SubsetInduction
<1>. QED BY <1>1, <1>5 DEF D
==============================================================================
