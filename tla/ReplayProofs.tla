----------------------------- MODULE ReplayProofs -----------------------------
(***************************************************************************)
(* What the replays of the past promise for every value of the constants.  *)
(***************************************************************************)
EXTENDS BacktestVerdict, RunScope, FoldProofs

-----------------------------------------------------------------------------
(***************************************************************************)
(* The verdict                                                             *)
(***************************************************************************)

\* A city without an order has no P&L.
VdCityScores == {s \in [orders : Nat, frictions : Nat, net : Int] : s.orders = 0 => s.net = 0}

VdScores == UNION {[C -> VdCityScores] : C \in SUBSET VdCities}

VdScored == [window : STRING, bankroll : STRING, depth : Nat, sigma : Nat,
             score : VdScores, gross : Int \cup {UNKNOWN}]

\* The runs are scored, and the verdict is theirs.
VdInv ==
    /\ vdRuns \in Seq(VdScored) /\ vdLeft \in Seq(VdSlots)
    /\ vdVerdict # "" => vdLeft = <<>> /\ vdVerdict = Final(vdRuns, vdJob.fidelity)

\* The sums of the verdict as sums of functions.
LEMMA NetsAdd ==
    ASSUME NEW runs, NEW c, NEW S
    PROVE  MapThenSumSet(LAMBDA k : runs[k].score[c].net, S)
             = SumFunction([k \in S |-> runs[k].score[c].net])
<1>. DEFINE f == [k \in S |-> runs[k].score[c].net]
<1>1. \A g : (g = [s \in SUBSET S |-> IF s = {} THEN 0
                                     ELSE runs[Pick(s)].score[c].net + g[s \ {Pick(s)}]])
               <=> Adds(f, g, S)
  BY PickTakes DEF Added, Adds
<1>2. SumFunction(f) = (CHOOSE g : Adds(f, g, S))[S]
  BY SumIsChosen
<1>. HIDE DEF f
<1>. QED BY <1>1, <1>2 DEF MapThenSumSet, MapThenFoldSet, Pick, f

LEMMA NetsOrNothingAdd ==
    ASSUME NEW runs, NEW c, NEW S
    PROVE  MapThenSumSet(LAMBDA k : IF c \in DOMAIN runs[k].score
                                    THEN runs[k].score[c].net ELSE 0, S)
             = SumFunction([k \in S |-> IF c \in DOMAIN runs[k].score
                                        THEN runs[k].score[c].net ELSE 0])
<1>. DEFINE e(k) == IF c \in DOMAIN runs[k].score THEN runs[k].score[c].net ELSE 0
            f == [k \in S |-> e(k)]
            Sums(g) == [s \in SUBSET S |-> IF s = {} THEN 0 ELSE e(Pick(s)) + g[s \ {Pick(s)}]]
<1>1. \A g : (g = Sums(g)) <=> Adds(f, g, S)
  BY PickTakes DEF Added, Adds
<1>2. SumFunction(f) = (CHOOSE g : Adds(f, g, S))[S]
  BY SumIsChosen
<1>3. MapThenSumSet(LAMBDA k : e(k), S) = (CHOOSE g : g = Sums(g))[S]
  BY DEF MapThenSumSet, MapThenFoldSet, Pick
<1>. HIDE DEF f, Sums
<1>4. (CHOOSE g : g = Sums(g)) = (CHOOSE g : Adds(f, g, S))
  BY <1>1
<1>5. MapThenSumSet(LAMBDA k : e(k), S) = SumFunction(f)
  BY <1>2, <1>3, <1>4
<1>. QED BY <1>5 DEF f

\* The net of an outcome's orders in a city.
LEMMA OrdersAdd ==
    ASSUME NEW outcome, NEW S
    PROVE  MapThenSumSet(LAMBDA k : outcome.orders[k].net, S)
             = SumFunction([k \in S |-> outcome.orders[k].net])
<1>. DEFINE f == [k \in S |-> outcome.orders[k].net]
<1>1. \A g : (g = [s \in SUBSET S |-> IF s = {} THEN 0
                                     ELSE outcome.orders[Pick(s)].net + g[s \ {Pick(s)}]])
               <=> Adds(f, g, S)
  BY PickTakes DEF Added, Adds
<1>2. SumFunction(f) = (CHOOSE g : Adds(f, g, S))[S]
  BY SumIsChosen
<1>. HIDE DEF f
<1>. QED BY <1>1, <1>2 DEF MapThenSumSet, MapThenFoldSet, Pick, f

\* A score counts the orders and skips of each of its cities.
LEMMA ScoreType == ASSUME NEW o \in VdOutcomes PROVE ScoreRun(o) \in VdScores
<1>. DEFINE ordersIn(c) == {k \in DOMAIN o.orders : o.orders[k].city = c}
            skipsIn(c)  == {k \in DOMAIN o.frictions : o.frictions[k] = c}
            C == {x \in VdCities : ordersIn(x) \cup skipsIn(x) # {}}
            net(c) == MapThenSumSet(LAMBDA k : o.orders[k].net, ordersIn(c))
<1>1. o.orders \in Seq([city : VdCities, net : Int]) /\ o.frictions \in Seq(VdCities)
  BY VerdictAssumption
<1>2. /\ DOMAIN o.orders = 1..Len(o.orders) /\ Len(o.orders) \in Nat
      /\ DOMAIN o.frictions = 1..Len(o.frictions) /\ Len(o.frictions) \in Nat
  BY <1>1, LenProperties
<1>3. IsFiniteSet(DOMAIN o.orders) /\ IsFiniteSet(DOMAIN o.frictions)
  BY <1>2, FS_Interval
<1>4. ASSUME NEW c PROVE /\ Cardinality(ordersIn(c)) \in Nat /\ Cardinality(skipsIn(c)) \in Nat
                         /\ net(c) \in Int
                         /\ Cardinality(ordersIn(c)) = 0 => net(c) = 0
  <2>1. IsFiniteSet(ordersIn(c)) /\ IsFiniteSet(skipsIn(c))
    BY <1>3, FS_Subset
  <2>2. [k \in ordersIn(c) |-> o.orders[k].net] \in [ordersIn(c) -> Int]
    <3>1. \A k \in DOMAIN o.orders : o.orders[k] \in [city : VdCities, net : Int]
      BY <1>1, <1>2, ElementOfSeq
    <3>2. \A k \in ordersIn(c) : o.orders[k].net \in Int
      BY <3>1
    <3>. QED BY <3>2
  <2>. DEFINE S == ordersIn(c)
  <2>3. SumFunction([k \in S |-> o.orders[k].net]) \in Int
    <3>. DEFINE f == [k \in S |-> o.orders[k].net]
    <3>1. f \in [S -> Int] /\ IsFiniteSet(S)
      BY <2>1, <2>2
    <3>. HIDE DEF S, f
    <3>. QED BY <3>1, SumType DEF f
  <2>. HIDE DEF S
  <2>4. MapThenSumSet(LAMBDA k : o.orders[k].net, S) = SumFunction([k \in S |-> o.orders[k].net])
    BY OrdersAdd
  <2>5. Cardinality(ordersIn(c)) \in Nat /\ Cardinality(skipsIn(c)) \in Nat
    BY <2>1, FS_CardinalityType
  <2>6. Cardinality(S) = 0 => SumFunction([k \in S |-> o.orders[k].net]) = 0
    <3>1. SUFFICES ASSUME Cardinality(S) = 0
                   PROVE  SumFunction([k \in S |-> o.orders[k].net]) = 0
      OBVIOUS
    <3>2. S = {}
      BY <2>1, <3>1, FS_EmptySet DEF S
    <3>. QED BY <3>2, SumOverNothing
  <2>. QED BY <2>3, <2>4, <2>5, <2>6 DEF S
<1>5. ScoreRun(o) = [c \in C |-> [orders |-> Cardinality(ordersIn(c)),
                                  frictions |-> Cardinality(skipsIn(c)), net |-> net(c)]]
  BY DEF ScoreRun
<1>. DEFINE one(c) == [orders |-> Cardinality(ordersIn(c)),
                       frictions |-> Cardinality(skipsIn(c)), net |-> net(c)]
<1>6. ASSUME NEW c \in C PROVE one(c) \in VdCityScores
  <2>1. /\ Cardinality(ordersIn(c)) \in Nat /\ Cardinality(skipsIn(c)) \in Nat
        /\ net(c) \in Int
        /\ Cardinality(ordersIn(c)) = 0 => net(c) = 0
    <3>. HIDE DEF ordersIn, skipsIn, net, C
    <3>. QED BY <1>4
  <2>. HIDE DEF ordersIn, skipsIn, net, C
  <2>. QED BY <2>1 DEF VdCityScores
<1>7. C \in SUBSET VdCities
  OBVIOUS
<1>. HIDE DEF C, one
<1>8. [c \in C |-> one(c)] \in [C -> VdCityScores]
  BY <1>6
<1>. QED BY <1>5, <1>7, <1>8 DEF VdScores, one

\* Every step keeps the runs scored.
LEMMA VdStays == ASSUME VdInv, [VdNext]_vdVars PROVE VdInv'
<1>1. CASE UNCHANGED vdVars
  BY <1>1 DEF VdInv, vdVars
<1>2. CASE ScoreOne
  <2>1. PICK o \in VdOutcomes :
          vdRuns' = Append(vdRuns, [window |-> Head(vdLeft).window, bankroll |-> Head(vdLeft).bankroll,
                                    depth |-> Head(vdLeft).depth, sigma |-> Head(vdLeft).sigma,
                                    score |-> ScoreRun(o), gross |-> o.gross])
    BY <1>2 DEF ScoreOne
  <2>2. Head(vdLeft) \in VdSlots /\ vdLeft' \in Seq(VdSlots)
    BY <1>2, HeadTailProperties DEF ScoreOne, VdInv
  <2>3. ScoreRun(o) \in VdScores /\ o.gross \in Int \cup {UNKNOWN}
    BY ScoreType, VerdictAssumption
  <2>4. vdRuns' \in Seq(VdScored)
    BY <2>1, <2>2, <2>3, AppendProperties DEF VdInv, VdScored, VdSlots
  <2>5. vdVerdict' = ""
    BY <1>2 DEF ScoreOne, VdInv
  <2>. QED BY <2>2, <2>4, <2>5 DEF VdInv
<1>3. CASE Evaluate
  BY <1>3 DEF Evaluate, VdInv
<1>. QED BY <1>1, <1>2, <1>3 DEF VdNext

\* The same runs, some of whose nets are better.
Better(runs, more) ==
    /\ DOMAIN more = DOMAIN runs
    /\ \A k \in DOMAIN runs :
          /\ more[k].window = runs[k].window /\ more[k].bankroll = runs[k].bankroll
          /\ more[k].depth = runs[k].depth /\ more[k].sigma = runs[k].sigma
          /\ more[k].gross = runs[k].gross /\ DOMAIN more[k].score = DOMAIN runs[k].score
          /\ \A c \in DOMAIN runs[k].score :
                /\ more[k].score[c].orders = runs[k].score[c].orders
                /\ more[k].score[c].frictions = runs[k].score[c].frictions
                /\ more[k].score[c].net >= runs[k].score[c].net
                /\ {more[k].score[c].net, runs[k].score[c].net} \subseteq Int

\* One net raised makes better runs of them.
LEMMA RaisedIsBetter ==
    ASSUME NEW runs \in Seq(VdScored), NEW k \in DOMAIN runs, NEW c \in DOMAIN runs[k].score
    PROVE  Better(runs, [runs EXCEPT ![k].score[c].net = @ + VdRaise])
<1>. DEFINE more == [runs EXCEPT ![k].score[c].net = @ + VdRaise]
<1>1. DOMAIN more = DOMAIN runs
  OBVIOUS
<1>2. \A j \in DOMAIN runs : runs[j] \in VdScored
  BY ElementOfSeq, LenProperties
<1>3. ASSUME NEW j \in DOMAIN runs
      PROVE  \E C \in SUBSET VdCities :
                runs[j].score \in [C -> [orders : Nat, frictions : Nat, net : Int]]
  <2>1. PICK C \in SUBSET VdCities : runs[j].score \in [C -> VdCityScores]
    BY <1>2 DEF VdScored, VdScores
  <2>. QED BY <2>1 DEF VdCityScores
<1>4. \A j \in DOMAIN runs : j # k => more[j] = runs[j]
  OBVIOUS
<1>5. more[k] = [runs[k] EXCEPT !.score[c].net = @ + VdRaise]
  OBVIOUS
<1>. DEFINE r == runs[k]
            b == [r EXCEPT !.score[c].net = @ + VdRaise]
<1>6. r \in VdScored
  BY <1>2
<1>7. PICK C \in SUBSET VdCities : r.score \in [C -> [orders : Nat, frictions : Nat, net : Int]]
  BY <1>3
<1>8. /\ b.window = r.window /\ b.bankroll = r.bankroll /\ b.depth = r.depth
      /\ b.sigma = r.sigma /\ b.gross = r.gross
      /\ b.score = [r.score EXCEPT ![c].net = @ + VdRaise]
  BY <1>6 DEF VdScored
<1>9. DOMAIN b.score = C /\ DOMAIN r.score = C /\ c \in C
  BY <1>7, <1>8
<1>10. \A x \in C : x # c => b.score[x] = r.score[x]
  BY <1>7, <1>8, <1>9
<1>11. b.score[c] = [r.score[c] EXCEPT !.net = @ + VdRaise]
  BY <1>7, <1>8, <1>9
<1>12. r.score[c] \in [orders : Nat, frictions : Nat, net : Int]
  BY <1>7, <1>9
<1>13. /\ b.score[c].orders = r.score[c].orders /\ b.score[c].frictions = r.score[c].frictions
       /\ b.score[c].net = r.score[c].net + VdRaise
  BY <1>11, <1>12
<1>14. VdRaise \in Nat
  BY VerdictAssumption
<1>15. /\ b.score[c].net >= r.score[c].net /\ b.score[c].net \in Int /\ r.score[c].net \in Int
  BY <1>12, <1>13, <1>14
<1>16. \A j \in DOMAIN runs : \A x \in DOMAIN runs[j].score : runs[j].score[x].net \in Int
  BY <1>3
<1>17. more[k] = b /\ r = runs[k]
  BY <1>5
<1>. HIDE DEF more, b, r
<1>18. \A x \in C : /\ b.score[x].orders = r.score[x].orders
                    /\ b.score[x].frictions = r.score[x].frictions
                    /\ b.score[x].net >= r.score[x].net
                    /\ {b.score[x].net, r.score[x].net} \subseteq Int
  <2>1. \A x \in C : r.score[x].net \in Int
    BY <1>9, <1>16, <1>17
  <2>2. \A n \in Int : n >= n
    OBVIOUS
  <2>. QED BY <1>10, <1>13, <1>15, <2>1, <2>2
<1>19. ASSUME NEW j \in DOMAIN runs, j # k
       PROVE  /\ more[j] = runs[j]
              /\ \A x \in DOMAIN runs[j].score : /\ runs[j].score[x].net >= runs[j].score[x].net
                                                 /\ runs[j].score[x].net \in Int
  <2>2. \A n \in Int : n >= n
    OBVIOUS
  <2>. QED BY <1>4, <1>16, <1>19, <2>2
<1>20. /\ more[k].window = runs[k].window /\ more[k].bankroll = runs[k].bankroll
       /\ more[k].depth = runs[k].depth /\ more[k].sigma = runs[k].sigma
       /\ more[k].gross = runs[k].gross /\ DOMAIN more[k].score = DOMAIN runs[k].score
       /\ \A x \in DOMAIN runs[k].score :
             /\ more[k].score[x].orders = runs[k].score[x].orders
             /\ more[k].score[x].frictions = runs[k].score[x].frictions
             /\ more[k].score[x].net >= runs[k].score[x].net
             /\ {more[k].score[x].net, runs[k].score[x].net} \subseteq Int
  BY <1>8, <1>9, <1>17, <1>18
<1>21. Better(runs, more)
  BY <1>1, <1>19, <1>20 DEF Better
<1>. QED BY <1>21 DEF more

\* Better runs are grouped alike, and have the same orders and skips.
LEMMA BetterIsGroupedAlike ==
    ASSUME NEW runs, NEW more, Better(runs, more)
    PROVE  /\ \A w, b, d, s : Select(more, w, b, d, s) = Select(runs, w, b, d, s)
           /\ \A w : {k \in DOMAIN more : more[k].window = w} = {k \in DOMAIN runs : runs[k].window = w}
BY DEF Better, Select

LEMMA CitySkipsAdd ==
    ASSUME NEW runs, NEW k, NEW S
    PROVE  MapThenSumSet(LAMBDA c : runs[k].score[c].frictions, S)
             = SumFunction([c \in S |-> runs[k].score[c].frictions])
<1>. DEFINE f == [c \in S |-> runs[k].score[c].frictions]
<1>1. \A g : (g = [s \in SUBSET S |-> IF s = {} THEN 0
                                     ELSE runs[k].score[Pick(s)].frictions + g[s \ {Pick(s)}]])
               <=> Adds(f, g, S)
  BY PickTakes DEF Added, Adds
<1>2. SumFunction(f) = (CHOOSE g : Adds(f, g, S))[S]
  BY SumIsChosen
<1>. HIDE DEF f
<1>. QED BY <1>1, <1>2 DEF MapThenSumSet, MapThenFoldSet, Pick, f

LEMMA SkipsAdd ==
    ASSUME NEW runs, NEW group
    PROVE  FrictionSkips(runs, group)
             = SumFunction([k \in group |->
                   SumFunction([c \in DOMAIN runs[k].score |-> runs[k].score[c].frictions])])
<1>. DEFINE e(k) == MapThenSumSet(LAMBDA c : runs[k].score[c].frictions, DOMAIN runs[k].score)
            f == [k \in group |-> e(k)]
<1>1. ASSUME NEW k
      PROVE  e(k) = SumFunction([c \in DOMAIN runs[k].score |-> runs[k].score[c].frictions])
  <2>. DEFINE S == DOMAIN runs[k].score
  <2>. HIDE DEF S
  <2>1. MapThenSumSet(LAMBDA c : runs[k].score[c].frictions, S)
          = SumFunction([c \in S |-> runs[k].score[c].frictions])
    BY CitySkipsAdd
  <2>. QED BY <2>1 DEF S
<1>. HIDE DEF e
<1>2. MapThenSumSet(e, group) = SumFunction(f)
  <2>1. \A g : (g = [s \in SUBSET group |-> IF s = {} THEN 0 ELSE e(Pick(s)) + g[s \ {Pick(s)}]])
                 <=> Adds(f, g, group)
    BY PickTakes DEF Added, Adds
  <2>2. SumFunction(f) = (CHOOSE g : Adds(f, g, group))[group]
    BY SumIsChosen
  <2>. HIDE DEF f
  <2>. QED BY <2>1, <2>2 DEF MapThenSumSet, MapThenFoldSet, Pick
<1>3. FrictionSkips(runs, group) = MapThenSumSet(e, group)
  BY DEF FrictionSkips, e
<1>4. f = [k \in group |-> SumFunction([c \in DOMAIN runs[k].score |-> runs[k].score[c].frictions])]
  BY <1>1
<1>. QED BY <1>2, <1>3, <1>4

LEMMA CityOrdersAdd ==
    ASSUME NEW runs, NEW k, NEW S
    PROVE  MapThenSumSet(LAMBDA c : runs[k].score[c].orders, S)
             = SumFunction([c \in S |-> runs[k].score[c].orders])
<1>. DEFINE f == [c \in S |-> runs[k].score[c].orders]
<1>1. \A g : (g = [s \in SUBSET S |-> IF s = {} THEN 0
                                     ELSE runs[k].score[Pick(s)].orders + g[s \ {Pick(s)}]])
               <=> Adds(f, g, S)
  BY PickTakes DEF Added, Adds
<1>2. SumFunction(f) = (CHOOSE g : Adds(f, g, S))[S]
  BY SumIsChosen
<1>. HIDE DEF f
<1>. QED BY <1>1, <1>2 DEF MapThenSumSet, MapThenFoldSet, Pick, f

LEMMA AllOrdersAdd ==
    ASSUME NEW runs, NEW w
    PROVE  OrdersIn(runs, w)
             = SumFunction([k \in {j \in DOMAIN runs : runs[j].window = w} |->
                   SumFunction([c \in DOMAIN runs[k].score |-> runs[k].score[c].orders])])
<1>. DEFINE e(k) == MapThenSumSet(LAMBDA c : runs[k].score[c].orders, DOMAIN runs[k].score)
            group == {j \in DOMAIN runs : runs[j].window = w}
            f == [k \in group |-> e(k)]
<1>1. ASSUME NEW k
      PROVE  e(k) = SumFunction([c \in DOMAIN runs[k].score |-> runs[k].score[c].orders])
  <2>. DEFINE S == DOMAIN runs[k].score
  <2>. HIDE DEF S
  <2>1. MapThenSumSet(LAMBDA c : runs[k].score[c].orders, S)
          = SumFunction([c \in S |-> runs[k].score[c].orders])
    BY CityOrdersAdd
  <2>. QED BY <2>1 DEF S
<1>2. OrdersIn(runs, w) = MapThenSumSet(e, group)
  BY DEF OrdersIn
<1>. HIDE DEF e, group
<1>3. MapThenSumSet(e, group) = SumFunction(f)
  <2>1. \A g : (g = [s \in SUBSET group |-> IF s = {} THEN 0 ELSE e(Pick(s)) + g[s \ {Pick(s)}]])
                 <=> Adds(f, g, group)
    BY PickTakes DEF Added, Adds
  <2>2. SumFunction(f) = (CHOOSE g : Adds(f, g, group))[group]
    BY SumIsChosen
  <2>. HIDE DEF f
  <2>. QED BY <2>1, <2>2 DEF MapThenSumSet, MapThenFoldSet, Pick
<1>4. f = [k \in group |-> SumFunction([c \in DOMAIN runs[k].score |-> runs[k].score[c].orders])]
  BY <1>1
<1>. QED BY <1>2, <1>3, <1>4 DEF group

LEMMA GrossAdds ==
    ASSUME NEW runs, NEW S
    PROVE  MapThenSumSet(LAMBDA k : runs[k].gross, S) = SumFunction([k \in S |-> runs[k].gross])
<1>. DEFINE f == [k \in S |-> runs[k].gross]
<1>1. \A g : (g = [s \in SUBSET S |-> IF s = {} THEN 0
                                     ELSE runs[Pick(s)].gross + g[s \ {Pick(s)}]])
               <=> Adds(f, g, S)
  BY PickTakes DEF Added, Adds
<1>2. SumFunction(f) = (CHOOSE g : Adds(f, g, S))[S]
  BY SumIsChosen
<1>. HIDE DEF f
<1>. QED BY <1>1, <1>2 DEF MapThenSumSet, MapThenFoldSet, Pick, f

\* Better runs have the same skips, orders and gross.
LEMMA BetterCountsAlike ==
    ASSUME NEW runs, NEW more, Better(runs, more)
    PROVE  /\ \A group \in SUBSET DOMAIN runs : FrictionSkips(more, group) = FrictionSkips(runs, group)
           /\ \A w : OrdersIn(more, w) = OrdersIn(runs, w)
<1>. DEFINE skips(x, k) == SumFunction([c \in DOMAIN x[k].score |-> x[k].score[c].frictions])
            orders(x, k) == SumFunction([c \in DOMAIN x[k].score |-> x[k].score[c].orders])
<1>1. ASSUME NEW k \in DOMAIN runs
      PROVE  skips(more, k) = skips(runs, k) /\ orders(more, k) = orders(runs, k)
  <2>1. /\ DOMAIN more[k].score = DOMAIN runs[k].score
        /\ \A c \in DOMAIN runs[k].score :
              /\ more[k].score[c].orders = runs[k].score[c].orders
              /\ more[k].score[c].frictions = runs[k].score[c].frictions
    BY DEF Better
  <2>2. [c \in DOMAIN more[k].score |-> more[k].score[c].frictions]
          = [c \in DOMAIN runs[k].score |-> runs[k].score[c].frictions]
    BY <2>1
  <2>3. [c \in DOMAIN more[k].score |-> more[k].score[c].orders]
          = [c \in DOMAIN runs[k].score |-> runs[k].score[c].orders]
    BY <2>1
  <2>. QED BY <2>2, <2>3
<1>2. /\ \A x, group : FrictionSkips(x, group) = SumFunction([k \in group |-> skips(x, k)])
      /\ \A x, w : OrdersIn(x, w)
                     = SumFunction([k \in {j \in DOMAIN x : x[j].window = w} |-> orders(x, k)])
  BY SkipsAdd, AllOrdersAdd
<1>. HIDE DEF skips, orders
<1>3. ASSUME NEW group \in SUBSET DOMAIN runs
      PROVE  FrictionSkips(more, group) = FrictionSkips(runs, group)
  <2>1. [k \in group |-> skips(more, k)] = [k \in group |-> skips(runs, k)]
    BY <1>1
  <2>. QED BY <1>2, <2>1
<1>4. ASSUME NEW w PROVE OrdersIn(more, w) = OrdersIn(runs, w)
  <2>. DEFINE S == {j \in DOMAIN runs : runs[j].window = w}
  <2>1. {j \in DOMAIN more : more[j].window = w} = S
    BY BetterIsGroupedAlike
  <2>2. [k \in S |-> orders(more, k)] = [k \in S |-> orders(runs, k)]
    BY <1>1
  <2>. QED BY <1>2, <2>1, <2>2
<1>. QED BY <1>3, <1>4

\* Where a group traded a city, and what it made of it.
Traded(runs, group, c) == {k \in group : c \in DOMAIN runs[k].score /\ runs[k].score[c].orders > 0}

PnlOf(runs, group, c) == SumFunction([k \in Traded(runs, group, c) |-> runs[k].score[c].net])

\* The P&L of the cities of a group, as sums.
LEMMA CityPnlsAre ==
    ASSUME NEW runs, NEW group
    PROVE  /\ DOMAIN CityPnls(runs, group) = {x \in VdCities : Traded(runs, group, x) # {}}
           /\ \A c \in DOMAIN CityPnls(runs, group) :
                 CityPnls(runs, group)[c] = PnlOf(runs, group, c)
<1>. DEFINE net(c) == MapThenSumSet(LAMBDA k : runs[k].score[c].net, Traded(runs, group, c))
<1>1. CityPnls(runs, group) = [c \in {x \in VdCities : Traded(runs, group, x) # {}} |-> net(c)]
  BY DEF CityPnls, Traded
<1>2. \A c, S : MapThenSumSet(LAMBDA k : runs[k].score[c].net, S)
                   = SumFunction([k \in S |-> runs[k].score[c].net])
  BY NetsAdd
<1>3. \A c : net(c) = PnlOf(runs, group, c)
  BY <1>2 DEF PnlOf
<1>. HIDE DEF net
<1>. QED BY <1>1, <1>3

\* Better runs traded the same cities, and made no less of them.
LEMMA BetterPnls ==
    ASSUME NEW runs, NEW more, Better(runs, more), IsFiniteSet(DOMAIN runs),
           NEW group \in SUBSET DOMAIN runs, NEW c
    PROVE  /\ Traded(more, group, c) = Traded(runs, group, c)
           /\ PnlOf(runs, group, c) <= PnlOf(more, group, c)
           /\ PnlOf(runs, group, c) \in Int /\ PnlOf(more, group, c) \in Int
<1>. DEFINE S == Traded(runs, group, c)
            f == [k \in S |-> runs[k].score[c].net]
            g == [k \in S |-> more[k].score[c].net]
<1>1. IsFiniteSet(S)
  BY FS_Subset DEF Traded
<1>2. Traded(more, group, c) = S
  BY DEF Better, Traded
<1>3. f \in [S -> Int] /\ g \in [S -> Int] /\ \A k \in S : f[k] <= g[k]
  BY DEF Better, Traded
<1>4. PnlOf(runs, group, c) = SumFunction(f) /\ PnlOf(more, group, c) = SumFunction(g)
  BY <1>2 DEF PnlOf
<1>. HIDE DEF S, f, g
<1>5. SumFunction(f) <= SumFunction(g) /\ SumFunction(f) \in Int /\ SumFunction(g) \in Int
  BY <1>1, <1>3, SumGrows, SumType
<1>. QED BY <1>2, <1>4, <1>5 DEF S

\* What loses although it got better lost before.
LEMMA LostBefore ==
    ASSUME NEW runs, NEW more, Better(runs, more), IsFiniteSet(DOMAIN runs),
           NEW group \in SUBSET DOMAIN runs, AllNegative(more, group)
    PROVE  AllNegative(runs, group)
<1>1. /\ DOMAIN CityPnls(runs, group) = {x \in VdCities : Traded(runs, group, x) # {}}
      /\ \A c \in DOMAIN CityPnls(runs, group) : CityPnls(runs, group)[c] = PnlOf(runs, group, c)
      /\ DOMAIN CityPnls(more, group) = {x \in VdCities : Traded(more, group, x) # {}}
      /\ \A c \in DOMAIN CityPnls(more, group) : CityPnls(more, group)[c] = PnlOf(more, group, c)
  BY CityPnlsAre
<1>2. \A c : /\ Traded(more, group, c) = Traded(runs, group, c)
             /\ PnlOf(runs, group, c) <= PnlOf(more, group, c)
             /\ PnlOf(runs, group, c) \in Int /\ PnlOf(more, group, c) \in Int
  BY BetterPnls
<1>3. DOMAIN CityPnls(more, group) # {} /\ \A c \in DOMAIN CityPnls(more, group) : CityPnls(more, group)[c] < 0
  BY DEF AllNegative
<1>4. DOMAIN CityPnls(runs, group) = DOMAIN CityPnls(more, group)
  BY <1>1, <1>2
<1>5. ASSUME NEW c \in DOMAIN CityPnls(runs, group) PROVE CityPnls(runs, group)[c] < 0
  <2>1. CityPnls(runs, group)[c] = PnlOf(runs, group, c) /\ CityPnls(more, group)[c] = PnlOf(more, group, c)
    BY <1>1, <1>4
  <2>2. PnlOf(more, group, c) < 0
    BY <1>3, <1>4, <2>1
  <2>. QED BY <1>2, <2>1, <2>2
<1>. QED BY <1>3, <1>4, <1>5 DEF AllNegative

\* What stops a window that got better stopped it before.
LEMMA BetterWindow ==
    ASSUME NEW runs, NEW more, Better(runs, more), IsFiniteSet(DOMAIN runs), NEW w
    PROVE  /\ \A b : BaseGroup(more, w, b) = BaseGroup(runs, w, b)
           /\ OrdersIn(more, w) = OrdersIn(runs, w)
           /\ DepthStop(more, w) => DepthStop(runs, w)
           /\ SigmaStop(more, w) => SigmaStop(runs, w)
           /\ AllNegative(more, BaseGroup(runs, w, Reference)) => AllNegative(runs, BaseGroup(runs, w, Reference))
           /\ AllNegative(more, BaseGroup(runs, w, Reference)) /\ FloorDriven(runs, w) => FloorDriven(more, w)
<1>1. \A w1, b, d, s : /\ Select(more, w1, b, d, s) = Select(runs, w1, b, d, s)
                      /\ Select(runs, w1, b, d, s) \in SUBSET DOMAIN runs
  BY BetterIsGroupedAlike DEF Select
<1>2. ASSUME NEW group \in SUBSET DOMAIN runs
      PROVE  /\ AllNegative(more, group) => AllNegative(runs, group)
             /\ FrictionSkips(more, group) = FrictionSkips(runs, group)
             /\ MapThenSumSet(LAMBDA k : more[k].gross, group)
                  = MapThenSumSet(LAMBDA k : runs[k].gross, group)
  <2>1. AllNegative(more, group) => AllNegative(runs, group)
    BY LostBefore
  <2>2. FrictionSkips(more, group) = FrictionSkips(runs, group)
    BY BetterCountsAlike
  <2>3. MapThenSumSet(LAMBDA k : more[k].gross, group) = MapThenSumSet(LAMBDA k : runs[k].gross, group)
    <3>1. [k \in group |-> more[k].gross] = [k \in group |-> runs[k].gross]
      BY DEF Better
    <3>2. MapThenSumSet(LAMBDA k : more[k].gross, group) = SumFunction([k \in group |-> more[k].gross])
      BY GrossAdds
    <3>3. MapThenSumSet(LAMBDA k : runs[k].gross, group) = SumFunction([k \in group |-> runs[k].gross])
      BY GrossAdds
    <3>. QED BY <3>1, <3>2, <3>3
  <2>. QED BY <2>1, <2>2, <2>3
<1>3. OrdersIn(more, w) = OrdersIn(runs, w)
  BY BetterCountsAlike
<1>4. \A b : BaseGroup(more, w, b) = BaseGroup(runs, w, b) /\ BaseGroup(runs, w, b) \in SUBSET DOMAIN runs
  BY <1>1 DEF BaseGroup
<1>5. ASSUME NEW d PROVE FrictionBound(more, w, d) <=> FrictionBound(runs, w, d)
  <2>. DEFINE group == Select(runs, w, Reference, d, Base)
  <2>1. group \in SUBSET DOMAIN runs /\ Select(more, w, Reference, d, Base) = group
    BY <1>1
  <2>2. \A k \in group : more[k].gross = runs[k].gross
    BY <2>1 DEF Better
  <2>. HIDE DEF group
  <2>3. MapThenSumSet(LAMBDA k : more[k].gross, group) = MapThenSumSet(LAMBDA k : runs[k].gross, group)
    BY <1>2, <2>1
  <2>4. FrictionSkips(more, group) = FrictionSkips(runs, group)
    BY <1>2, <2>1
  <2>5. /\ BaseGroup(more, w, Reference) = BaseGroup(runs, w, Reference)
        /\ FrictionSkips(more, BaseGroup(runs, w, Reference)) = FrictionSkips(runs, BaseGroup(runs, w, Reference))
    BY <1>2, <1>4
  <2>6. Select(runs, w, Reference, d, Base) = group
    BY DEF group
  <2>. QED BY <2>1, <2>2, <2>3, <2>4, <2>5, <2>6 DEF FrictionBound
<1>6. \A k \in DOMAIN runs : /\ more[k].window = runs[k].window /\ more[k].bankroll = runs[k].bankroll
                            /\ more[k].depth = runs[k].depth /\ more[k].sigma = runs[k].sigma
  BY DEF Better
<1>7. DOMAIN more = DOMAIN runs
  BY DEF Better
<1>8. ASSUME DepthStop(more, w) PROVE DepthStop(runs, w)
  <2>1. PICK k \in DOMAIN more :
           /\ more[k].window = w /\ more[k].bankroll = Reference
           /\ more[k].sigma = Base /\ more[k].depth # Base
           /\ AllNegative(more, Select(more, w, Reference, more[k].depth, Base))
           /\ ~FrictionBound(more, w, more[k].depth)
    BY <1>8 DEF DepthStop
  <2>. DEFINE group == Select(runs, w, Reference, runs[k].depth, Base)
  <2>2. k \in DOMAIN runs
    BY <1>7, <2>1
  <2>3. group \in SUBSET DOMAIN runs /\ Select(more, w, Reference, more[k].depth, Base) = group
    BY <1>1, <1>6, <2>2
  <2>4. AllNegative(runs, group)
    <3>1. AllNegative(more, group)
      BY <2>1, <2>3
    <3>. HIDE DEF group
    <3>. QED BY <1>2, <2>3, <3>1
  <2>. QED BY <1>5, <1>6, <2>1, <2>2, <2>4 DEF DepthStop
<1>9. ASSUME SigmaStop(more, w) PROVE SigmaStop(runs, w)
  <2>1. PICK k \in DOMAIN more :
           /\ more[k].window = w /\ more[k].bankroll = Reference
           /\ more[k].depth = Base /\ more[k].sigma # Base
           /\ AllNegative(more, Select(more, w, Reference, Base, more[k].sigma))
    BY <1>9 DEF SigmaStop
  <2>. DEFINE group == Select(runs, w, Reference, Base, runs[k].sigma)
  <2>2. k \in DOMAIN runs
    BY <1>7, <2>1
  <2>3. group \in SUBSET DOMAIN runs /\ Select(more, w, Reference, Base, more[k].sigma) = group
    BY <1>1, <1>6, <2>2
  <2>4. AllNegative(runs, group)
    <3>1. AllNegative(more, group)
      BY <2>1, <2>3
    <3>. HIDE DEF group
    <3>. QED BY <1>2, <2>3, <3>1
  <2>. QED BY <1>6, <2>1, <2>2, <2>4 DEF SigmaStop
<1>10. AllNegative(more, BaseGroup(runs, w, Reference)) /\ FloorDriven(runs, w) => FloorDriven(more, w)
  BY <1>2, <1>4 DEF FloorDriven
<1>. QED BY <1>2, <1>3, <1>4, <1>8, <1>9, <1>10

\* A window that neither stopped nor traded nothing does neither for getting better.
LEMMA BetterVerdict ==
    ASSUME NEW runs, NEW more, Better(runs, more), IsFiniteSet(DOMAIN runs), NEW w,
           WindowVerdict(more, w) \in {"stop", "insufficient_data"}
    PROVE  WindowVerdict(runs, w) \in {"stop", "insufficient_data"}
<1>. DEFINE base == BaseGroup(runs, w, Reference)
            n == OrdersIn(runs, w)
<1>1. /\ BaseGroup(more, w, Reference) = base
      /\ OrdersIn(more, w) = n
      /\ DepthStop(more, w) => DepthStop(runs, w)
      /\ SigmaStop(more, w) => SigmaStop(runs, w)
      /\ AllNegative(more, base) => AllNegative(runs, base)
      /\ AllNegative(more, base) /\ FloorDriven(runs, w) => FloorDriven(more, w)
  BY BetterWindow
<1>2. BaseGroup(runs, w, Reference) = base /\ OrdersIn(runs, w) = n
  OBVIOUS
<1>. HIDE DEF base, n
<1>3. CASE n = 0
  BY <1>2, <1>3 DEF WindowVerdict
<1>4. CASE n # 0
  <2>1. ~(n > 0 /\ base = {})
    BY <1>1, <1>4 DEF WindowVerdict
  <2>2. WindowVerdict(more, w) =
          IF (DepthStop(more, w) \/ SigmaStop(more, w)) \/ (AllNegative(more, base) /\ ~FloorDriven(more, w))
          THEN "stop" ELSE IF AllNegative(more, base) THEN "friction_floor_driven" ELSE "survive"
    BY <1>1, <1>4, <2>1 DEF WindowVerdict
  <2>3. WindowVerdict(runs, w) =
          IF (DepthStop(runs, w) \/ SigmaStop(runs, w)) \/ (AllNegative(runs, base) /\ ~FloorDriven(runs, w))
          THEN "stop" ELSE IF AllNegative(runs, base) THEN "friction_floor_driven" ELSE "survive"
    BY <1>2, <1>4, <2>1 DEF WindowVerdict
  <2>. QED BY <1>1, <2>2, <2>3
<1>. QED BY <1>3, <1>4

\* What lets the command succeed still does, or the windows disagree, for
\* getting better.
LEMMA BetterPasses ==
    ASSUME NEW runs, NEW more, Better(runs, more), IsFiniteSet(DOMAIN runs), NEW fidelity,
           Final(runs, fidelity) \in Passing
    PROVE  Final(more, fidelity) \in Passing \cup {"strategy_era_flip"}
<1>. DEFINE W == {runs[k].window : k \in DOMAIN runs}
            before == {WindowVerdict(runs, w) : w \in W}
            after == {WindowVerdict(more, w) : w \in W}
<1>1. {more[k].window : k \in DOMAIN more} = W
  BY DEF Better
<1>2. /\ ProbsAgree(fidelity.snaps) /\ FillsAgree(fidelity.fills)
      /\ "stop" \notin before /\ "insufficient_data" \notin before
  BY DEF Final, Passing
<1>3. "stop" \notin after /\ "insufficient_data" \notin after
  <2>. HIDE DEF W
  <2>1. ASSUME NEW w \in W, WindowVerdict(more, w) \in {"stop", "insufficient_data"} PROVE FALSE
    <3>1. WindowVerdict(runs, w) \in {"stop", "insufficient_data"}
      BY <2>1, BetterVerdict
    <3>. QED BY <1>2, <3>1
  <2>. QED BY <2>1
<1>. QED BY <1>1, <1>2, <1>3 DEF Final, Passing

\* What a city's orders made at a bankroll, with or without a run that has
\* only skips of it.
LEMMA LosesIsNegative ==
    ASSUME vdRuns \in Seq(VdScored), NEW w, NEW b, Loses(w, b)
    PROVE  AllNegative(vdRuns, BaseGroup(vdRuns, w, b))
<1>. DEFINE group == BaseGroup(vdRuns, w, b)
            net(c) == MapThenSumSet(LAMBDA k : IF c \in DOMAIN vdRuns[k].score
                                               THEN vdRuns[k].score[c].net ELSE 0, group)
            cities == {c \in VdCities : \E k \in group : c \in DOMAIN vdRuns[k].score
                                                       /\ vdRuns[k].score[c].orders > 0}
<1>1. cities # {} /\ \A c \in cities : net(c) < 0
  BY DEF Loses
<1>2. \A k \in DOMAIN vdRuns : \A c \in DOMAIN vdRuns[k].score : vdRuns[k].score[c] \in VdCityScores
  <2>1. \A k \in DOMAIN vdRuns : vdRuns[k].score \in VdScores
    <3>1. \A k \in DOMAIN vdRuns : vdRuns[k] \in VdScored
      BY ElementOfSeq, LenProperties
    <3>. QED BY <3>1 DEF VdScored
  <2>. QED BY <2>1 DEF VdScores
<1>3. IsFiniteSet(group) /\ group \in SUBSET DOMAIN vdRuns
  <2>1. IsFiniteSet(DOMAIN vdRuns)
    BY LenProperties, FS_Interval
  <2>. QED BY <2>1, FS_Subset DEF BaseGroup, Select
<1>4. ASSUME NEW c PROVE net(c) = PnlOf(vdRuns, group, c)
  <2>. DEFINE e(k) == IF c \in DOMAIN vdRuns[k].score THEN vdRuns[k].score[c].net ELSE 0
              T == Traded(vdRuns, group, c)
              f == [k \in group |-> e(k)]
  <2>1. net(c) = SumFunction(f)
    <3>. HIDE DEF group
    <3>. QED BY NetsOrNothingAdd
  <2>2. f \in [group -> Int] /\ T \subseteq group /\ \A k \in group \ T : f[k] = 0
    <3>1. \A k \in group : c \in DOMAIN vdRuns[k].score =>
             /\ vdRuns[k].score[c].net \in Int
             /\ vdRuns[k].score[c].orders \in Nat
             /\ vdRuns[k].score[c].orders = 0 => vdRuns[k].score[c].net = 0
      BY <1>2, <1>3 DEF VdCityScores
    <3>2. \A n \in Nat : n > 0 \/ n = 0
      OBVIOUS
    <3>. HIDE DEF group
    <3>. QED BY <3>1, <3>2 DEF Traded
  <2>3. [k \in T |-> f[k]] = [k \in T |-> vdRuns[k].score[c].net]
    <3>. HIDE DEF group
    <3>. QED BY <2>2 DEF Traded
  <2>4. PnlOf(vdRuns, group, c) = SumFunction([k \in T |-> f[k]])
    BY <2>3 DEF PnlOf
  <2>. HIDE DEF group, T, f, net
  <2>5. SumFunction(f) = SumFunction([k \in T |-> f[k]])
    BY <1>3, <2>2, SumWithout
  <2>. QED BY <2>1, <2>4, <2>5
<1>5. /\ DOMAIN CityPnls(vdRuns, group) = cities
      /\ \A c \in cities : CityPnls(vdRuns, group)[c] = net(c)
  <2>1. cities = {c \in VdCities : Traded(vdRuns, group, c) # {}}
    BY DEF Traded
  <2>. HIDE DEF group, net, cities
  <2>. QED BY <1>4, <2>1, CityPnlsAre
<1>. HIDE DEF net, cities
<1>6. AllNegative(vdRuns, group)
  BY <1>1, <1>5 DEF AllNegative
<1>. QED BY <1>6 DEF group

\* A window that loses at both bankrolls does not pass.
LEMMA LosingStops ==
    ASSUME vdRuns \in Seq(VdScored), NEW w, Loses(w, Reference),
           Loses(w, Sensitivity) \/ BaseGroup(vdRuns, w, Sensitivity) = {}
    PROVE  WindowVerdict(vdRuns, w) \in {"stop", "insufficient_data"}
<1>1. AllNegative(vdRuns, BaseGroup(vdRuns, w, Reference))
  BY LosesIsNegative
<1>2. BaseGroup(vdRuns, w, Sensitivity) # {} => AllNegative(vdRuns, BaseGroup(vdRuns, w, Sensitivity))
  BY LosesIsNegative
<1>3. ~FloorDriven(vdRuns, w)
  BY <1>2 DEF FloorDriven
<1>4. BaseGroup(vdRuns, w, Reference) # {}
  BY DEF Loses
<1>. QED BY <1>1, <1>3, <1>4 DEF WindowVerdict

\* The verdict, once given, is earned.
LEMMA InvEarned == ASSUME VdInv PROVE VerdictIsEarned
<1>. SUFFICES ASSUME vdVerdict \in Passing
              PROVE  /\ \A w \in {vdRuns[k].window : k \in DOMAIN vdRuns} :
                          ~(Loses(w, Reference) /\ (Loses(w, Sensitivity)
                                                    \/ BaseGroup(vdRuns, w, Sensitivity) = {}))
                     /\ \A k \in DOMAIN vdRuns : \A c \in DOMAIN vdRuns[k].score :
                          vdRuns[k].score[c].orders > 0 =>
                              Final([vdRuns EXCEPT ![k].score[c].net = @ + VdRaise], vdJob.fidelity)
                                  \in Passing \cup {"strategy_era_flip"}
  BY DEF VerdictIsEarned
<1>1. vdRuns \in Seq(VdScored) /\ vdVerdict = Final(vdRuns, vdJob.fidelity)
  BY DEF VdInv, Passing
<1>2. ASSUME NEW w \in {vdRuns[k].window : k \in DOMAIN vdRuns}, Loses(w, Reference),
             Loses(w, Sensitivity) \/ BaseGroup(vdRuns, w, Sensitivity) = {}
      PROVE  FALSE
  <2>1. WindowVerdict(vdRuns, w) \in {"stop", "insufficient_data"}
    BY <1>1, <1>2, LosingStops
  <2>. QED BY <1>1, <2>1 DEF Final, Passing
<1>3. ASSUME NEW k \in DOMAIN vdRuns, NEW c \in DOMAIN vdRuns[k].score
      PROVE  Final([vdRuns EXCEPT ![k].score[c].net = @ + VdRaise], vdJob.fidelity)
                 \in Passing \cup {"strategy_era_flip"}
  <2>. DEFINE more == [vdRuns EXCEPT ![k].score[c].net = @ + VdRaise]
  <2>1. Better(vdRuns, more)
    BY <1>1, RaisedIsBetter
  <2>2. IsFiniteSet(DOMAIN vdRuns)
    BY <1>1, LenProperties, FS_Interval
  <2>. HIDE DEF more
  <2>3. Final(more, vdJob.fidelity) \in Passing \cup {"strategy_era_flip"}
    BY <1>1, <2>1, <2>2, BetterPasses
  <2>. QED BY <2>3 DEF more
<1>. QED BY <1>2, <1>3

\* A backtest succeeds only if it earned it: no window of it loses in every
\* city at both bankrolls, and no gain would have made it fail, but for the
\* windows' disagreement (evaluate_runs).
THEOREM VerdictsAreEarned == VdSpec => []VerdictIsEarned
<1>1. VdInit => VdInv
  <2>. SUFFICES ASSUME VdInit PROVE VdInv
    OBVIOUS
  <2>1. vdLeft \in Seq(VdSlots)
    BY VerdictAssumption DEF VdInit
  <2>2. <<>> \in Seq(VdScored)
    BY EmptySeq
  <2>. QED BY <2>1, <2>2 DEF VdInit, VdInv
<1>2. VdInv /\ [VdNext]_vdVars => VdInv'
  BY VdStays
<1>3. VdInv => VerdictIsEarned
  BY InvEarned
<1>. QED BY <1>1, <1>2, <1>3, PTL DEF VdSpec

-----------------------------------------------------------------------------
(***************************************************************************)
(* The run scope                                                           *)
(***************************************************************************)

Iv == [start : Int, end : Int]

\* In the order of (start, end) a finite set has a last element.
LEMMA LastIsLast ==
    ASSUME NEW S \in SUBSET Iv, IsFiniteSet(S), S # {}
    PROVE  /\ LastOf(S) \in S
           /\ \A y \in S : y.start < LastOf(S).start
                           \/ (y.start = LastOf(S).start /\ y.end <= LastOf(S).end)
<1>. DEFINE ch == [s \in SUBSET S |-> Pick(s)]
            After(z, y) == y.start < z.start \/ (y.start = z.start /\ y.end <= z.end)
            D == {s \in SUBSET S : s # {} => \E z \in s : \A y \in s : After(z, y)}
<1>1. Taken(S, ch)
  BY PickTakes DEF Taken
<1>2. \A x, y, z \in Iv : /\ After(x, x) /\ (After(x, y) \/ After(y, x))
                          /\ (After(x, y) /\ After(y, z) => After(x, z))
  BY DEF Iv
<1>3. ASSUME NEW s \in SUBSET S, s # {}, s \ {ch[s]} \in D PROVE s \in D
  <2>. DEFINE c == ch[s]
  <2>1. c \in s
    BY <1>1, <1>3 DEF Taken
  <2>2. CASE s \ {c} = {}
    <3>1. \A x \in s : After(c, x)
      BY <1>2, <2>1, <2>2
    <3>. QED BY <2>1, <3>1
  <2>3. CASE s \ {c} # {}
    <3>1. PICK m \in s \ {c} : \A x \in s \ {c} : After(m, x)
      BY <1>3, <2>3
    <3>. HIDE DEF c, After
    <3>2. CASE After(m, c)
      <4>1. \A x \in s : After(m, x)
        BY <3>1, <3>2
      <4>. QED BY <3>1, <4>1
    <3>3. CASE After(c, m)
      <4>1. \A x \in s : After(c, x)
        BY <1>2, <2>1, <3>1, <3>3
      <4>. QED BY <2>1, <4>1
    <3>. QED BY <1>2, <2>1, <3>1, <3>2, <3>3
  <2>. QED BY <2>2, <2>3
<1>4. {} \in D /\ D \in SUBSET SUBSET S
  OBVIOUS
<1>. HIDE DEF ch, D
<1>5. S \in D
  BY <1>1, <1>3, <1>4, FoldInduction
<1>6. \E z \in S : \A y \in S : After(z, y)
  BY <1>5 DEF D
<1>. QED BY <1>6 DEF LastOf

\* The loop that merges, over every subset.
LEMMA MergedUnrolls ==
    ASSUME NEW S \in SUBSET Iv, IsFiniteSet(S)
    PROVE  \E h : /\ Merged(S) = h[S] /\ h[{}] = <<>>
                  /\ \A s \in SUBSET S : s # {} =>
                        /\ LastOf(s) \in s
                        /\ \A y \in s : y.start < LastOf(s).start
                                        \/ (y.start = LastOf(s).start /\ y.end <= LastOf(s).end)
                        /\ h[s] = Merge(h[s \ {LastOf(s)}], LastOf(s))
<1>. DEFINE Is(h) == h = [s \in SUBSET S |-> IF s = {} THEN <<>>
                            ELSE Merge(h[s \ {LastOf(s)}], LastOf(s))]
            ch == [s \in SUBSET S |-> LastOf(s)]
            step == [x \in S |-> [m \in Seq(Iv) |-> Merge(m, x)]]
<1>1. Merged(S) = (CHOOSE h : Is(h))[S]
  BY DEF Merged, MapThenFoldSet
<1>2. \A s \in SUBSET S : s # {} =>
                        /\ LastOf(s) \in s
                        /\ \A y \in s : y.start < LastOf(s).start
                                        \/ (y.start = LastOf(s).start /\ y.end <= LastOf(s).end)
  <2>. SUFFICES ASSUME NEW s \in SUBSET S, s # {}
                PROVE  /\ LastOf(s) \in s
                       /\ \A y \in s : y.start < LastOf(s).start
                                       \/ (y.start = LastOf(s).start /\ y.end <= LastOf(s).end)
    OBVIOUS
  <2>1. IsFiniteSet(s) /\ s \in SUBSET Iv
    BY FS_Subset
  <2>. QED BY <2>1, LastIsLast
<1>3. Taken(S, ch)
  BY <1>2 DEF Taken
<1>4. ASSUME NEW m \in Seq(Iv), NEW x \in Iv PROVE Merge(m, x) \in Seq(Iv)
  <2>. DEFINE n == Len(m)
  <2>1. n \in Nat /\ DOMAIN m = 1..n /\ m \in [1..n -> Iv]
    BY LenProperties
  <2>2. CASE n > 0 /\ x.start <= m[n].end
    <3>1. n \in 1..n /\ m[n] \in Iv
      BY <2>1, <2>2
    <3>2. [m[n] EXCEPT !.end = Larger(m[n].end, x.end)] \in Iv
      BY <3>1 DEF Iv, Larger
    <3>3. Merge(m, x) = [m EXCEPT ![n] = [m[n] EXCEPT !.end = Larger(m[n].end, x.end)]]
      BY <2>1, <2>2, <3>1 DEF Merge
    <3>. QED BY <3>1, <3>2, <3>3, ExceptSeq
  <2>3. CASE ~(n > 0 /\ x.start <= m[n].end)
    <3>1. Merge(m, x) = Append(m, [start |-> x.start, end |-> x.end])
      BY <2>3 DEF Merge
    <3>2. [start |-> x.start, end |-> x.end] \in Iv
      BY DEF Iv
    <3>. QED BY <3>1, <3>2, AppendProperties
  <2>. QED BY <2>2, <2>3
<1>5. step \in [S -> [Seq(Iv) -> Seq(Iv)]]
  BY <1>4
<1>6. PICK g : FoldsOver(g, S, ch, <<>>, step)
  <2>. HIDE DEF ch, step
  <2>. QED BY <1>3, FoldExists
<1>7. \A s \in SUBSET S : g[s] \in Seq(Iv)
  <2>1. <<>> \in Seq(Iv)
    BY EmptySeq
  <2>. HIDE DEF ch, step
  <2>. QED BY <1>3, <1>5, <1>6, <2>1, FoldType
<1>8. Is(g)
  <2>1. ASSUME NEW s \in SUBSET S
        PROVE  Stepped(g, ch, <<>>, step, s)
                 = IF s = {} THEN <<>> ELSE Merge(g[s \ {LastOf(s)}], LastOf(s))
    <3>1. CASE s = {}
      BY <3>1 DEF Stepped
    <3>2. CASE s # {}
      <4>1. ch[s] = LastOf(s) /\ LastOf(s) \in S /\ g[s \ {LastOf(s)}] \in Seq(Iv)
        BY <1>2, <1>7, <3>2
      <4>. QED BY <3>2, <4>1 DEF Stepped
    <3>. QED BY <3>1, <3>2
  <2>2. g = [s \in SUBSET S |-> Stepped(g, ch, <<>>, step, s)]
    BY <1>6 DEF FoldsOver
  <2>. HIDE DEF ch, step
  <2>. QED BY <2>1, <2>2
<1>. DEFINE h == CHOOSE h : Is(h)
<1>9. Is(h)
  BY <1>8
<1>10. h[{}] = <<>> /\ \A s \in SUBSET S : s # {} => h[s] = Merge(h[s \ {LastOf(s)}], LastOf(s))
  <2>. HIDE DEF h
  <2>. QED BY <1>9
<1>11. Merged(S) = h[S]
  BY <1>1
<1>. HIDE DEF h
<1>. QED BY <1>2, <1>10, <1>11

Spans == {x \in Iv : x.start <= x.end}

AtPoint(x, t) == x.start <= t /\ t <= x.end
AtCell(x, t)  == x.start <= t /\ t + 1 <= x.end

\* m is what the intervals of s make when they are merged.
MergesTo(m, s) ==
    /\ m \in Seq(Spans)
    /\ \A i \in DOMAIN m : \E x \in s : x.start = m[i].start
    /\ \A i, j \in DOMAIN m : i < j => m[i].end < m[j].start
    /\ \A t \in Int : (\E x \in s : AtPoint(x, t)) <=> (\E i \in DOMAIN m : AtPoint(m[i], t))
    /\ \A t \in Int : (\E x \in s : AtCell(x, t)) <=> (\E i \in DOMAIN m : AtCell(m[i], t))

\* One step of the loop merges one interval more.
LEMMA MergeOne ==
    ASSUME NEW s \in SUBSET Spans, NEW x \in Spans, \A y \in s : y.start <= x.start,
           NEW m, MergesTo(m, s)
    PROVE  MergesTo(Merge(m, x), s \cup {x})
<1>. DEFINE n == Len(m)
            m2 == Merge(m, x)
            S == s \cup {x}
<1>1. n \in Nat /\ DOMAIN m = 1..n /\ m \in Seq(Spans) /\ n = Len(m)
  BY LenProperties DEF MergesTo
<1>. HIDE DEF n
<1>2. \A i \in 1..n : m[i] \in Spans
  BY <1>1, ElementOfSeq
<1>3. x.start \in Int /\ x.end \in Int /\ x.start <= x.end
  BY DEF Spans, Iv
<1>4. \A i \in 1..n : /\ m[i].start \in Int /\ m[i].end \in Int /\ m[i].start <= m[i].end
                      /\ m[i].start <= x.start
  <2>1. \A i \in 1..n : m[i].start \in Int /\ m[i].end \in Int /\ m[i].start <= m[i].end
    BY <1>2 DEF Spans, Iv
  <2>2. \A i \in 1..n : m[i].start <= x.start
    BY <1>1 DEF MergesTo
  <2>. QED BY <2>1, <2>2
<1>5. \A i, j \in 1..n : i < j => m[i].end < m[j].start
  BY <1>1 DEF MergesTo
<1>6. CASE n > 0 /\ x.start <= m[n].end
  <2>. DEFINE e == Larger(m[n].end, x.end)
              y == [m[n] EXCEPT !.end = e]
  <2>0. n \in 1..n /\ e \in Int /\ e >= m[n].end /\ e >= x.end /\ (e = m[n].end \/ e = x.end)
    BY <1>1, <1>3, <1>4, <1>6 DEF Larger
  <2>1. m[n] \in Iv /\ m[n] = [start |-> m[n].start, end |-> m[n].end]
    BY <1>2, <2>0 DEF Spans, Iv
  <2>2. y.start = m[n].start /\ y.end = e /\ y \in Spans
    BY <1>4, <2>0, <2>1 DEF Spans, Iv
  <2>3. m2 = [m EXCEPT ![n] = y]
    BY <1>1, <1>6, <2>0 DEF Merge
  <2>4. /\ m2 \in Seq(Spans) /\ DOMAIN m2 = 1..n
        /\ \A i \in 1..n : m2[i] = IF i = n THEN y ELSE m[i]
    BY <1>1, <2>0, <2>2, <2>3, ExceptSeq, LenProperties
  <2>. HIDE DEF y, e, m2
  <2>5. \A i \in 1..n : /\ m2[i].start = m[i].start
                        /\ i # n => m2[i] = m[i]
                        /\ i = n => m2[i].end = e
    BY <2>2, <2>4
  <2>6. \A i \in DOMAIN m2 : \E z \in S : z.start = m2[i].start
    BY <1>1, <2>4, <2>5 DEF MergesTo
  <2>7. ASSUME NEW i \in 1..n, NEW j \in 1..n, i < j
        PROVE  m2[i].end < m2[j].start
    <3>1. i # n
      <4>1. n \in Nat
        BY <1>1
      <4>. QED BY <2>7, <4>1
    <3>. QED BY <1>5, <2>5, <2>7, <3>1
  <2>8. ASSUME NEW t \in Int
        PROVE  (\E z \in S : AtPoint(z, t)) <=> (\E i \in DOMAIN m2 : AtPoint(m2[i], t))
    <3>1. (\E z \in s : AtPoint(z, t)) <=> (\E i \in 1..n : AtPoint(m[i], t))
      BY <1>1 DEF MergesTo
    <3>2. AtPoint(m2[n], t) <=> (AtPoint(m[n], t) \/ AtPoint(x, t))
      BY <1>3, <1>4, <1>6, <2>0, <2>5 DEF AtPoint
    <3>3. \A i \in 1..n : i # n => (AtPoint(m2[i], t) <=> AtPoint(m[i], t))
      BY <2>5
    <3>4. (\E i \in 1..n : AtPoint(m2[i], t)) <=> ((\E i \in 1..n : AtPoint(m[i], t)) \/ AtPoint(x, t))
      BY <2>0, <3>2, <3>3
    <3>. QED BY <2>4, <3>1, <3>4
  <2>9. ASSUME NEW t \in Int
        PROVE  (\E z \in S : AtCell(z, t)) <=> (\E i \in DOMAIN m2 : AtCell(m2[i], t))
    <3>1. (\E z \in s : AtCell(z, t)) <=> (\E i \in 1..n : AtCell(m[i], t))
      BY <1>1 DEF MergesTo
    <3>2. AtCell(m2[n], t) <=> (AtCell(m[n], t) \/ AtCell(x, t))
      BY <1>3, <1>4, <1>6, <2>0, <2>5 DEF AtCell
    <3>3. \A i \in 1..n : i # n => (AtCell(m2[i], t) <=> AtCell(m[i], t))
      BY <2>5
    <3>4. (\E i \in 1..n : AtCell(m2[i], t)) <=> ((\E i \in 1..n : AtCell(m[i], t)) \/ AtCell(x, t))
      BY <2>0, <3>2, <3>3
    <3>. QED BY <2>4, <3>1, <3>4
  <2>10. MergesTo(m2, S)
    BY <2>4, <2>6, <2>7, <2>8, <2>9 DEF MergesTo
  <2>. QED BY <2>10 DEF m2
<1>7. CASE ~(n > 0 /\ x.start <= m[n].end)
  <2>. DEFINE y == [start |-> x.start, end |-> x.end]
  <2>1. y \in Spans /\ y.start = x.start /\ y.end = x.end
    BY <1>3 DEF Spans, Iv
  <2>2. m2 = Append(m, y)
    BY <1>1, <1>7 DEF Merge
  <2>3. /\ m2 \in Seq(Spans) /\ DOMAIN m2 = 1..(n + 1)
        /\ \A i \in 1..n : m2[i] = m[i]
        /\ m2[n + 1] = y
    <3>. HIDE DEF y
    <3>1. /\ m2 \in Seq(Spans) /\ Len(m2) = n + 1
          /\ \A i \in 1..n : m2[i] = m[i]
          /\ m2[n + 1] = y
      BY <1>1, <2>1, <2>2, AppendProperties
    <3>. QED BY <3>1, LenProperties
  <2>. HIDE DEF y, m2
  <2>4. \A i \in 1..n : m[i].end < x.start
    <3>1. n > 0 => n \in 1..n /\ m[n].end < x.start
      BY <1>1, <1>3, <1>4, <1>7
    <3>2. ASSUME NEW i \in 1..n, i # n PROVE m[i].end < m[n].start
      <4>1. n \in Nat
        BY <1>1
      <4>2. n \in 1..n /\ i < n
        BY <3>2, <4>1
      <4>. QED BY <1>5, <4>2
    <3>3. ASSUME NEW i \in 1..n PROVE m[i].end < x.start
      <4>1. n \in 1..n
        BY <1>1
      <4>2. CASE i = n
        BY <3>1, <4>1, <4>2
      <4>3. CASE i # n
        <5>1. m[i].end < m[n].start
          BY <3>2, <4>3
        <5>2. /\ m[i].end \in Int /\ m[n].start \in Int /\ m[n].end \in Int
              /\ m[n].start <= m[n].end /\ m[n].end < x.start
          BY <1>1, <1>4, <3>1, <4>1
        <5>. QED BY <1>3, <5>1, <5>2
      <4>. QED BY <4>2, <4>3
    <3>. QED BY <3>3
  <2>5. \A i \in 1..(n + 1) : i \in 1..n \/ i = n + 1
    BY <1>1
  <2>6. \A i \in DOMAIN m2 : \E z \in S : z.start = m2[i].start
    BY <1>1, <2>1, <2>3, <2>5 DEF MergesTo
  <2>7. \A i, j \in DOMAIN m2 : i < j => m2[i].end < m2[j].start
    <3>. SUFFICES ASSUME NEW i \in 1..(n + 1), NEW j \in 1..(n + 1), i < j
                  PROVE  m2[i].end < m2[j].start
      BY <2>3
    <3>1. i \in 1..n
      BY <1>1
    <3>. QED BY <1>5, <2>1, <2>3, <2>4, <2>5, <3>1
  <2>8. n + 1 \in 1..(n + 1) /\ \A i \in 1..n : i \in 1..(n + 1)
    BY <1>1
  <2>9. ASSUME NEW t \in Int
        PROVE  (\E z \in S : AtPoint(z, t)) <=> (\E i \in DOMAIN m2 : AtPoint(m2[i], t))
    <3>1. (\E z \in s : AtPoint(z, t)) <=> (\E i \in 1..n : AtPoint(m[i], t))
      BY <1>1 DEF MergesTo
    <3>2. AtPoint(m2[n + 1], t) <=> AtPoint(x, t)
      BY <2>1, <2>3 DEF AtPoint
    <3>. QED BY <2>3, <2>5, <2>8, <3>1, <3>2
  <2>10. ASSUME NEW t \in Int
        PROVE  (\E z \in S : AtCell(z, t)) <=> (\E i \in DOMAIN m2 : AtCell(m2[i], t))
    <3>1. (\E z \in s : AtCell(z, t)) <=> (\E i \in 1..n : AtCell(m[i], t))
      BY <1>1 DEF MergesTo
    <3>2. AtCell(m2[n + 1], t) <=> AtCell(x, t)
      BY <2>1, <2>3 DEF AtCell
    <3>. QED BY <2>3, <2>5, <2>8, <3>1, <3>2
  <2>11. MergesTo(m2, S)
    BY <2>3, <2>6, <2>7, <2>9, <2>10 DEF MergesTo
  <2>. QED BY <2>11 DEF m2
<1>. QED BY <1>6, <1>7

\* Merged has every point and every unit of its intervals, and no other.
LEMMA MergedIs ==
    ASSUME NEW S \in SUBSET Spans, IsFiniteSet(S)
    PROVE  MergesTo(Merged(S), S)
<1>1. S \in SUBSET Iv
  BY DEF Spans
<1>2. PICK h : /\ Merged(S) = h[S] /\ h[{}] = <<>>
               /\ \A s \in SUBSET S : s # {} =>
                     /\ LastOf(s) \in s
                     /\ \A y \in s : y.start < LastOf(s).start
                                     \/ (y.start = LastOf(s).start /\ y.end <= LastOf(s).end)
                     /\ h[s] = Merge(h[s \ {LastOf(s)}], LastOf(s))
  BY <1>1, MergedUnrolls
<1>. DEFINE ch == [s \in SUBSET S |-> LastOf(s)]
            D == {s \in SUBSET S : MergesTo(h[s], s)}
<1>3. Taken(S, ch)
  BY <1>2 DEF Taken
<1>4. {} \in D
  <2>1. <<>> \in Seq(Spans) /\ DOMAIN <<>> = {}
    BY EmptySeq
  <2>2. MergesTo(<<>>, {})
    BY <2>1 DEF MergesTo
  <2>. QED BY <1>2, <2>2
<1>5. ASSUME NEW s \in SUBSET S, s # {}, s \ {ch[s]} \in D PROVE s \in D
  <2>. DEFINE x == LastOf(s)
              r == s \ {x}
  <2>1. ch[s] = x /\ x \in s /\ x \in Spans /\ r \in SUBSET Spans
    BY <1>2, <1>5
  <2>2. \A y \in r : y.start <= x.start
    <3>1. \A y \in r : y.start < x.start \/ y.start = x.start
      BY <1>2, <1>5
    <3>2. x.start \in Int /\ \A y \in r : y.start \in Int
      BY <2>1 DEF Spans, Iv
    <3>. QED BY <3>1, <3>2
  <2>3. MergesTo(h[r], r)
    BY <1>5, <2>1
  <2>4. h[s] = Merge(h[r], x) /\ s = r \cup {x}
    BY <1>2, <1>5, <2>1
  <2>. HIDE DEF x, r
  <2>5. MergesTo(Merge(h[r], x), r \cup {x})
    BY <2>1, <2>2, <2>3, MergeOne
  <2>. QED BY <2>4, <2>5
<1>6. D \in SUBSET SUBSET S
  OBVIOUS
<1>. HIDE DEF ch, D
<1>7. S \in D
  BY <1>3, <1>4, <1>5, <1>6, FoldInduction
<1>. QED BY <1>2, <1>7 DEF D

\* The overlaps with a window, as a sum.
LEMMA OverlapsAdd ==
    ASSUME NEW m, NEW w, NEW S
    PROVE  MapThenSumSet(LAMBDA i : Overlap(m[i], w), S) = SumFunction([i \in S |-> Overlap(m[i], w)])
<1>. DEFINE e(i) == Overlap(m[i], w)
            f == [i \in S |-> e(i)]
            Sums(g) == [s \in SUBSET S |-> IF s = {} THEN 0 ELSE e(Pick(s)) + g[s \ {Pick(s)}]]
<1>1. \A g : (g = Sums(g)) <=> Adds(f, g, S)
  BY PickTakes DEF Added, Adds
<1>2. SumFunction(f) = (CHOOSE g : Adds(f, g, S))[S]
  BY SumIsChosen
<1>3. MapThenSumSet(LAMBDA i : e(i), S) = (CHOOSE g : g = Sums(g))[S]
  BY DEF MapThenSumSet, MapThenFoldSet, Pick
<1>4. (CHOOSE g : g = Sums(g)) = (CHOOSE g : Adds(f, g, S))
  <2>. HIDE DEF Sums, f
  <2>. QED BY <1>1
<1>. QED BY <1>2, <1>3, <1>4

CellsOf(w) == w.start..(w.end - 1)

\* The overlap of a union with a window is the number of its units.
LEMMA UnionOverlapIs ==
    ASSUME NEW S \in SUBSET Spans, IsFiniteSet(S), NEW w \in Spans
    PROVE  UnionOverlap(S, w) = Cardinality({t \in CellsOf(w) : \E x \in S : AtCell(x, t)})
<1>. DEFINE m == Merged(S)
            n == Len(m)
            P(i) == {t \in CellsOf(w) : AtCell(m[i], t)}
            A == [i \in 1..n |-> P(i)]
<1>1. MergesTo(m, S)
  BY MergedIs
<1>2. n \in Nat /\ DOMAIN m = 1..n /\ \A i \in 1..n : m[i] \in Spans
  <2>1. m \in Seq(Spans)
    BY <1>1 DEF MergesTo
  <2>. HIDE DEF m
  <2>. QED BY <2>1, LenProperties, ElementOfSeq
<1>3. UnionOverlap(S, w) = MapThenSumSet(LAMBDA i : Overlap(m[i], w), DOMAIN m)
  BY DEF UnionOverlap
<1>. HIDE DEF m, n
<1>4. w.start \in Int /\ w.end \in Int /\ w.start <= w.end
  BY DEF Spans, Iv
<1>5. \A i \in 1..n : m[i].start \in Int /\ m[i].end \in Int /\ m[i].start <= m[i].end
  BY <1>2 DEF Spans, Iv
<1>6. ASSUME NEW i \in 1..n PROVE IsFiniteSet(P(i)) /\ Cardinality(P(i)) = Overlap(m[i], w)
  <2>. DEFINE a == Larger(m[i].start, w.start)
              b == Smaller(m[i].end, w.end)
  <2>1. a \in Int /\ b \in Int
    BY <1>4, <1>5 DEF Larger, Smaller
  <2>2. P(i) = a..(b - 1)
    BY <1>4, <1>5 DEF CellsOf, AtCell, Larger, Smaller
  <2>3. Overlap(m[i], w) = IF b - a <= 0 THEN 0 ELSE b - a
    BY <2>1 DEF Overlap, Larger
  <2>. HIDE DEF a, b, P
  <2>4. b - 1 \in Int
    BY <2>1
  <2>5. IsFiniteSet(a..(b - 1)) /\ Cardinality(a..(b - 1)) = IF a > b - 1 THEN 0 ELSE (b - 1) - a + 1
    BY <2>1, <2>4, FS_Interval
  <2>. QED BY <2>1, <2>2, <2>3, <2>5
<1>7. ASSUME NEW i \in 1..n, NEW j \in 1..n, i # j PROVE A[i] \cap A[j] = {}
  <2>1. m[i].end < m[j].start \/ m[j].end < m[i].start
    BY <1>1, <1>2, <1>7 DEF MergesTo
  <2>. QED BY <1>4, <1>5, <2>1 DEF AtCell, CellsOf
<1>8. IsFiniteSet(1..n)
  BY <1>2, FS_Interval
<1>9. SumFunction([i \in 1..n |-> Cardinality(A[i])]) = Cardinality(UNION {A[i] : i \in 1..n})
  <2>1. \A i \in 1..n : IsFiniteSet(A[i])
    BY <1>6
  <2>. HIDE DEF A
  <2>. QED BY <1>7, <1>8, <2>1, SizesAddUp
<1>10. UNION {A[i] : i \in 1..n} = {t \in CellsOf(w) : \E x \in S : AtCell(x, t)}
  <2>1. \A t \in CellsOf(w) : (\E x \in S : AtCell(x, t)) <=> (\E i \in 1..n : AtCell(m[i], t))
    <3>1. \A t \in CellsOf(w) : t \in Int
      BY <1>4 DEF CellsOf
    <3>2. \A t \in Int : (\E x \in S : AtCell(x, t)) <=> (\E i \in DOMAIN m : AtCell(m[i], t))
      BY <1>1 DEF MergesTo
    <3>. QED BY <1>2, <3>1, <3>2
  <2>. QED BY <2>1
<1>11. [i \in 1..n |-> Cardinality(A[i])] = [i \in 1..n |-> Overlap(m[i], w)]
  BY <1>6
<1>12. UnionOverlap(S, w) = SumFunction([i \in DOMAIN m |-> Overlap(m[i], w)])
  BY <1>3, OverlapsAdd
<1>. QED BY <1>2, <1>9, <1>10, <1>11, <1>12

\* What nothing covers is what the union leaves of a window.
LEMMA ReadableIs ==
    ASSUME NEW S \in SUBSET Spans, IsFiniteSet(S), NEW w \in Spans, NEW T,
           \A t \in CellsOf(w) : (\E x \in T : AtCell(x, t)) <=> (\E x \in S : AtCell(x, t))
    PROVE  /\ Cardinality(Readable(T, w)) = (w.end - w.start) - UnionOverlap(S, w)
           /\ UnionOverlap(S, w) \in Int
<1>. DEFINE C == {t \in CellsOf(w) : \E x \in S : AtCell(x, t)}
<1>1. w.start \in Int /\ w.end \in Int /\ w.start <= w.end
  BY DEF Spans, Iv
<1>2. IsFiniteSet(CellsOf(w)) /\ Cardinality(CellsOf(w)) = w.end - w.start
  <2>1. w.end - 1 \in Int
    BY <1>1
  <2>2. /\ IsFiniteSet(w.start..(w.end - 1))
        /\ Cardinality(w.start..(w.end - 1)) = IF w.start > w.end - 1 THEN 0 ELSE (w.end - 1) - w.start + 1
    BY <1>1, <2>1, FS_Interval
  <2>. QED BY <1>1, <2>2 DEF CellsOf
<1>3. Readable(T, w) = CellsOf(w) \ C
  BY DEF Readable, CellsOf, AtCell
<1>4. UnionOverlap(S, w) = Cardinality(C)
  BY UnionOverlapIs
<1>5. CellsOf(w) \cap C = C
  OBVIOUS
<1>. HIDE DEF C
<1>6. Cardinality(CellsOf(w) \ C) = Cardinality(CellsOf(w)) - Cardinality(CellsOf(w) \cap C)
  BY <1>2, FS_Difference
<1>7. Cardinality(C) \in Nat
  BY <1>2, <1>5, FS_Subset, FS_CardinalityType
<1>. QED BY <1>2, <1>3, <1>4, <1>5, <1>6, <1>7

\* The bisection finds every interval that a window meets.
LEMMA MetIsFound ==
    ASSUME NEW S \in SUBSET Spans, NEW m, MergesTo(m, S),
           NEW w, w.start \in Int, w.end \in Int, w.start <= w.end,
           NEW y \in S, y.start <= w.end, y.end >= w.start
    PROVE  Intersects(m, w)
<1>. DEFINE n == Len(m)
            I == {i \in DOMAIN m : m[i].start <= w.end}
            k == Cardinality(I)
            t == Larger(y.start, w.start)
<1>1. n \in Nat /\ DOMAIN m = 1..n /\ \A i \in 1..n : m[i] \in Spans
  <2>1. m \in Seq(Spans)
    BY DEF MergesTo
  <2>. QED BY <2>1, LenProperties, ElementOfSeq
<1>. HIDE DEF n
<1>2. \A i \in 1..n : m[i].start \in Int /\ m[i].end \in Int /\ m[i].start <= m[i].end
  BY <1>1 DEF Spans, Iv
<1>3. t \in Int /\ AtPoint(y, t) /\ w.start <= t /\ t <= w.end
  BY DEF Spans, Iv, AtPoint, Larger
<1>4. PICK i \in 1..n : AtPoint(m[i], t)
  BY <1>1, <1>3 DEF MergesTo
<1>. HIDE DEF t
<1>5. m[i].start <= w.end /\ w.start <= m[i].end
  BY <1>2, <1>3, <1>4 DEF AtPoint
<1>6. i \in I /\ I \in SUBSET (1..n) /\ I # {}
  BY <1>1, <1>5
<1>7. IsFiniteSet(I) /\ I \in SUBSET (0..n)
  <2>. HIDE DEF I
  <2>1. 1 \in Int /\ n \in Int
    BY <1>1
  <2>2. IsFiniteSet(1..n)
    BY <2>1, FS_Interval
  <2>3. I \in SUBSET (1..n)
    BY <1>6
  <2>4. IsFiniteSet(I)
    BY <2>2, <2>3, FS_Subset
  <2>5. \A j \in 1..n : j \in 0..n
    BY <1>1
  <2>. QED BY <2>3, <2>4, <2>5
<1>8. PICK l \in I : \A j \in I : j <= l
  BY <1>1, <1>6, <1>7, LargestOf
<1>9. \A j, h \in 1..n : j < h => m[j].end < m[h].start
  BY <1>1 DEF MergesTo
<1>10. I = 1..l
  <2>1. ASSUME NEW j \in 1..l PROVE j \in I
    <3>1. l \in 1..n /\ m[l].start <= w.end
      BY <1>1, <1>8
    <3>2. j \in 1..n
      BY <1>1, <3>1
    <3>3. CASE j = l
      BY <1>8, <3>3
    <3>4. CASE j # l
      <4>1. j < l
        <5>1. l \in Int
          BY <1>1, <3>1
        <5>. HIDE DEF I
        <5>. QED BY <3>4, <5>1
      <4>2. m[j].end < m[l].start
        BY <1>9, <3>1, <3>2, <4>1
      <4>. QED BY <1>1, <1>2, <3>1, <3>2, <4>2
    <3>. QED BY <3>3, <3>4
  <2>2. \A j \in I : j \in 1..l
    BY <1>1, <1>6, <1>8
  <2>. QED BY <2>1, <2>2
<1>11. l \in 1..n /\ k = l
  <2>1. l \in 1..n
    BY <1>6
  <2>. HIDE DEF I
  <2>2. l \in Int /\ l >= 1
    BY <1>1, <2>1
  <2>3. Cardinality(1..l) = IF 1 > l THEN 0 ELSE l - 1 + 1
    BY <2>2, FS_Interval
  <2>. QED BY <1>10, <2>1, <2>2, <2>3
<1>12. m[l].end >= w.start
  <2>1. i <= l
    BY <1>6, <1>8
  <2>2. CASE i = l
    BY <1>2, <1>5, <1>11, <2>2
  <2>3. CASE i # l
    <3>1. i < l
      BY <1>11, <2>1, <2>3
    <3>2. m[i].end < m[l].start
      BY <1>9, <1>11, <3>1
    <3>. QED BY <1>2, <1>5, <1>11, <3>2
  <2>. QED BY <2>2, <2>3
<1>. HIDE DEF I
<1>. QED BY <1>1, <1>11, <1>12 DEF Intersects, I

\* r is the first run of n consecutive dates of s, or the last run if there is none.
RunOf(r, s, n) ==
    /\ r \in Seq(Int) /\ Len(r) <= n
    /\ \A i \in 1..Len(r) : r[i] = r[1] + i - 1 /\ r[i] \in s
    /\ Len(r) = n => \A d \in Int : d < r[1] => \E k \in d..(d + n - 1) : k \notin s
    /\ Len(r) < n => /\ \A d \in Int : \E k \in d..(d + n - 1) : k \notin s
                     /\ s # {} => /\ Len(r) >= 1 /\ r[1] - 1 \notin s
                                  /\ \A x \in s : x <= r[Len(r)]

\* One more date makes the run of one more.
LEMMA ExtendOne ==
    ASSUME NEW n \in Nat \ {0}, NEW s \in SUBSET Int, NEW m \in Int, \A x \in s : x < m,
           NEW r, RunOf(r, s, n)
    PROVE  RunOf(Extend(r, m, n), s \cup {m}, n)
<1>. DEFINE l == Len(r)
            q == Extend(r, m, n)
            T == s \cup {m}
<1>1. r \in Seq(Int) /\ l \in Nat /\ DOMAIN r = 1..l /\ l = Len(r) /\ l <= n
  BY LenProperties DEF RunOf
<1>. HIDE DEF l
<1>2. \A i \in 1..l : r[i] \in Int /\ r[i] = r[1] + i - 1 /\ r[i] \in s
  BY <1>1, ElementOfSeq DEF RunOf
<1>0. l \in Int /\ n \in Int /\ 0 <= l /\ l <= n
  BY <1>1
<1>3. CASE l = n
  <2>1. q = r
    BY <1>1, <1>3 DEF Extend
  <2>2. ASSUME NEW d \in Int, d < r[1] PROVE \E k \in d..(d + n - 1) : k \notin T
    <3>1. PICK k \in d..(d + n - 1) : k \notin s
      BY <1>1, <1>3, <2>2 DEF RunOf
    <3>2. n \in 1..l /\ 1 \in 1..l
      BY <1>3
    <3>3. r[n] = r[1] + n - 1 /\ r[n] < m /\ r[1] \in Int /\ r[n] \in Int
      BY <1>2, <3>2
    <3>4. k # m
      BY <2>2, <3>3
    <3>. QED BY <3>1, <3>4
  <2>3. /\ q \in Seq(Int) /\ Len(q) <= n /\ Len(q) = n
        /\ \A i \in 1..Len(q) : q[i] = q[1] + i - 1 /\ q[i] \in T
    BY <1>1, <1>2, <1>3, <2>1
  <2>. HIDE DEF q, T
  <2>4. RunOf(q, T, n)
    BY <2>1, <2>2, <2>3 DEF RunOf
  <2>. QED BY <2>4 DEF q, T
<1>4. CASE l # n
  <2>1. l < n
    BY <1>0, <1>4
  <2>2. /\ \A d \in Int : \E k \in d..(d + n - 1) : k \notin s
        /\ s # {} => l >= 1 /\ r[1] - 1 \notin s /\ \A x \in s : x <= r[l]
    BY <1>1, <2>1 DEF RunOf
  <2>3. r = <<>> <=> l = 0
    BY <1>1, EmptySeq
  \* the dates of the new run, from its first to m
  <2>4. PICK f \in Int : /\ f <= m /\ f - 1 \notin T /\ m - f + 1 <= n
                         /\ q \in Seq(Int) /\ Len(q) = m - f + 1
                         /\ \A i \in 1..Len(q) : q[i] = f + i - 1 /\ q[i] \in T
    <3>1. CASE l = 0
      <4>1. s = {}
        BY <1>1, <2>2, <3>1
      <4>2. q = <<m>>
        <5>1. q = Append(r, m) /\ r = <<>>
          BY <1>1, <1>4, <2>3, <3>1 DEF Extend
        <5>. QED BY <5>1
      <4>3. q \in Seq(Int) /\ Len(q) = 1 /\ q[1] = m
        BY <4>2
      <4>4. m <= m /\ m - 1 \notin T /\ m - m + 1 <= n /\ Len(q) = m - m + 1
        BY <4>1, <4>3
      <4>. QED BY <4>3, <4>4
    <3>2. CASE l # 0
      <4>1. l \in 1..l /\ 1 \in 1..l
        BY <1>1, <3>2
      <4>2. r[l] \in s /\ r[l] = r[1] + l - 1 /\ r[1] \in Int /\ r[l] < m /\ r[l] \in Int
        BY <1>2, <4>1
      <4>3. CASE m - r[l] # 1
        <5>1. q = <<m>>
          BY <1>1, <1>4, <2>3, <3>2, <4>3 DEF Extend
        <5>2. q \in Seq(Int) /\ Len(q) = 1 /\ q[1] = m
          BY <5>1
        <5>3. m - 1 \notin s
          BY <2>2, <4>2, <4>3
        <5>4. m <= m /\ m - 1 \notin T /\ m - m + 1 <= n /\ Len(q) = m - m + 1
          BY <5>2, <5>3
        <5>. QED BY <5>2, <5>4
      <4>4. CASE m - r[l] = 1
        <5>1. q = Append(r, m)
          BY <1>1, <1>4, <4>4 DEF Extend
        <5>2. /\ q \in Seq(Int) /\ Len(q) = l + 1
              /\ \A i \in 1..l : q[i] = r[i]
              /\ q[l + 1] = m
          BY <1>1, <5>1, AppendProperties
        <5>3. m = r[1] + l
          BY <1>0, <4>2, <4>4
        <5>4. r[1] - 1 \notin T
          <6>1. r[1] - 1 # m
            BY <1>1, <4>2, <5>3
          <6>. QED BY <2>2, <4>2, <6>1
        <5>5. \A i \in 1..(l + 1) : q[i] = r[1] + i - 1 /\ q[i] \in T
          <6>1. \A i \in 1..(l + 1) : i \in 1..l \/ i = l + 1
            BY <1>1
          <6>2. \A i \in 1..l : q[i] = r[1] + i - 1 /\ q[i] \in T
            BY <1>2, <5>2
          <6>3. q[l + 1] = r[1] + (l + 1) - 1 /\ q[l + 1] \in T
            BY <1>0, <4>2, <5>2, <5>3
          <6>. QED BY <6>1, <6>2, <6>3
        <5>. HIDE DEF q, T
        <5>6. r[1] <= m /\ m - r[1] + 1 <= n /\ Len(q) = m - r[1] + 1
          BY <1>1, <2>1, <4>2, <5>2, <5>3
        <5>. QED BY <4>2, <5>2, <5>4, <5>5, <5>6
      <4>. QED BY <4>3, <4>4
    <3>. QED BY <3>1, <3>2
  <2>5. T \in SUBSET Int /\ m \in T /\ \A x \in T : x <= m
    OBVIOUS
  <2>6. \A k \in Int : k \in T => k \in s \/ k = m
    OBVIOUS
  <2>. HIDE DEF q, T
  <2>7. Len(q) \in Nat /\ Len(q) >= 1 /\ q[1] = f /\ q[Len(q)] = m
    BY <2>4
  <2>8. ASSUME NEW d \in Int, d < f PROVE \E k \in d..(d + n - 1) : k \notin T
    <3>1. PICK k \in d..(d + n - 1) : k \notin s
      BY <2>2
    <3>2. CASE k # m
      BY <2>6, <3>1, <3>2
    <3>3. CASE k = m
      <4>1. f - 1 \in d..(d + n - 1)
        BY <2>4, <2>8, <3>3
      <4>. QED BY <2>4, <4>1
    <3>. QED BY <3>2, <3>3
  <2>9. ASSUME NEW d \in Int, Len(q) < n PROVE \E k \in d..(d + n - 1) : k \notin T
    <3>1. CASE d < f
      BY <2>8, <3>1
    <3>2. CASE d >= f /\ d <= m
      <4>1. m + 1 \in d..(d + n - 1)
        BY <2>4, <2>9, <3>2
      <4>2. m + 1 \notin T
        BY <2>5
      <4>. QED BY <4>1, <4>2
    <3>3. CASE d > m
      <4>1. d \in d..(d + n - 1) /\ d \notin T
        BY <2>5, <3>3
      <4>. QED BY <4>1
    <3>. QED BY <3>1, <3>2, <3>3
  <2>10. RunOf(q, T, n)
    BY <2>4, <2>5, <2>7, <2>8, <2>9 DEF RunOf
  <2>. QED BY <2>10 DEF q, T
<1>. QED BY <1>3, <1>4


\* The loop over the shared dates finds their first run.
LEMMA RunIs ==
    ASSUME NEW opening, NEW n \in Nat \ {0}
    PROVE  RunOf(Run(opening, n), Shared(opening), n)
<1>. DEFINE S == Shared(opening)
            Is(h) == h = [s \in SUBSET S |-> IF s = {} THEN <<>>
                            ELSE Extend(h[s \ {Max(s)}], Max(s), n)]
            ch == [s \in SUBSET S |-> Max(s)]
            step == [x \in S |-> [r \in Seq(Int) |-> Extend(r, x, n)]]
<1>1. Run(opening, n) = (CHOOSE h : Is(h))[S]
  BY DEF Run, MapThenFoldSet
<1>2. IsFiniteSet(S) /\ S \in SUBSET Int
  <2>1. S \in SUBSET (0..LastDate) /\ LastDate \in Int
    BY ScopeAssumption DEF Shared, Dates
  <2>. HIDE DEF S
  <2>2. IsFiniteSet(0..LastDate)
    BY <2>1, FS_Interval
  <2>3. IsFiniteSet(S)
    BY <2>1, <2>2, FS_Subset
  <2>. QED BY <2>1, <2>3
<1>. HIDE DEF S
<1>3. ASSUME NEW s \in SUBSET S, s # {} PROVE Max(s) \in s /\ \A x \in s : x <= Max(s)
  <2>1. IsFiniteSet(s) /\ s \in SUBSET Int
    BY <1>2, FS_Subset
  <2>. QED BY <1>3, <2>1, MaxOfFinite
<1>4. Taken(S, ch)
  BY <1>3 DEF Taken
<1>5. ASSUME NEW r \in Seq(Int), NEW x \in Int PROVE Extend(r, x, n) \in Seq(Int)
  <2>1. <<x>> \in Seq(Int) /\ Append(r, x) \in Seq(Int)
    BY AppendProperties
  <2>. QED BY <2>1 DEF Extend
<1>6. step \in [S -> [Seq(Int) -> Seq(Int)]]
  BY <1>2, <1>5
<1>7. PICK g : FoldsOver(g, S, ch, <<>>, step)
  <2>. HIDE DEF ch, step
  <2>. QED BY <1>2, <1>4, FoldExists
<1>8. \A s \in SUBSET S : g[s] \in Seq(Int)
  <2>1. <<>> \in Seq(Int)
    BY EmptySeq
  <2>. HIDE DEF ch, step
  <2>. QED BY <1>2, <1>4, <1>6, <1>7, <2>1, FoldType
<1>9. Is(g)
  <2>1. ASSUME NEW s \in SUBSET S
        PROVE  Stepped(g, ch, <<>>, step, s)
                 = IF s = {} THEN <<>> ELSE Extend(g[s \ {Max(s)}], Max(s), n)
    <3>1. CASE s = {}
      BY <3>1 DEF Stepped
    <3>2. CASE s # {}
      <4>1. ch[s] = Max(s) /\ Max(s) \in S /\ g[s \ {Max(s)}] \in Seq(Int)
        BY <1>3, <1>8, <3>2
      <4>. QED BY <3>2, <4>1 DEF Stepped
    <3>. QED BY <3>1, <3>2
  <2>2. g = [s \in SUBSET S |-> Stepped(g, ch, <<>>, step, s)]
    BY <1>7 DEF FoldsOver
  <2>. HIDE DEF ch, step
  <2>. QED BY <2>1, <2>2
<1>. DEFINE h == CHOOSE h : Is(h)
            D == {s \in SUBSET S : RunOf(h[s], s, n)}
<1>10. Is(h)
  BY <1>9
<1>11. h[{}] = <<>> /\ \A s \in SUBSET S : s # {} => h[s] = Extend(h[s \ {Max(s)}], Max(s), n)
  <2>. HIDE DEF h
  <2>. QED BY <1>10
<1>12. Run(opening, n) = h[S]
  BY <1>1
<1>. HIDE DEF h
<1>13. {} \in D
  <2>1. <<>> \in Seq(Int) /\ Len(<<>>) = 0
    BY EmptySeq
  <2>2. \A d \in Int : d \in d..(d + n - 1) /\ d \notin {}
    OBVIOUS
  <2>3. RunOf(<<>>, {}, n)
    BY <2>1, <2>2 DEF RunOf
  <2>. QED BY <1>11, <2>3
<1>14. ASSUME NEW s \in SUBSET S, s # {}, s \ {ch[s]} \in D PROVE s \in D
  <2>. DEFINE m == Max(s)
              r == s \ {m}
  <2>1. ch[s] = m /\ m \in s /\ m \in Int /\ r \in SUBSET Int /\ s \in SUBSET Int
    BY <1>2, <1>3, <1>14
  <2>2. \A x \in r : x < m
    <3>1. \A x \in r : x <= m /\ x # m
      BY <1>3, <1>14
    <3>. HIDE DEF m, r
    <3>. QED BY <2>1, <3>1
  <2>3. RunOf(h[r], r, n)
    BY <1>14, <2>1
  <2>4. h[s] = Extend(h[r], m, n) /\ s = r \cup {m}
    BY <1>11, <1>14, <2>1
  <2>. HIDE DEF m, r
  <2>5. RunOf(Extend(h[r], m, n), r \cup {m}, n)
    BY <2>1, <2>2, <2>3, ExtendOne
  <2>. QED BY <2>4, <2>5
<1>15. D \in SUBSET SUBSET S
  OBVIOUS
<1>. HIDE DEF ch, D
<1>16. S \in D
  BY <1>2, <1>4, <1>13, <1>14, <1>15, FoldInduction
<1>. QED BY <1>12, <1>16 DEF D, S


-----------------------------------------------------------------------------
(***************************************************************************)
(* Windows and exclusions                                                  *)
(***************************************************************************)

\* The observation window of a city-day is a day long.
LEMMA WindowIs ==
    ASSUME NEW cd \in Cities \X Dates
    PROVE  /\ WindowOf(cd) \in Spans /\ WindowOf(cd).end - WindowOf(cd).start = DayLength
           /\ WindowOf(cd).start \in Int /\ WindowOf(cd).end \in Int
           /\ WindowOf(cd).start < WindowOf(cd).end
<1>1. cd[1] \in Cities /\ cd[2] \in Nat
  BY DEF Dates
<1>2. DayLength \in Nat \ {0} /\ Offset[cd[1]] \in Nat
  BY <1>1, ScopeAssumption
<1>. DEFINE a == cd[2] * DayLength
            b == (cd[2] + 1) * DayLength
            o == Offset[cd[1]]
<1>3. a \in Int /\ b \in Int /\ b = a + DayLength /\ o \in Int
  BY <1>1, <1>2
<1>4. WindowOf(cd) = [start |-> a + o, end |-> b + o]
  BY DEF WindowOf
<1>. HIDE DEF a, b, o
<1>. QED BY <1>2, <1>3, <1>4 DEF Spans, Iv

\* What is left of an interval that meets a span has the units that it has in it.
LEMMA ClippedIs ==
    ASSUME NEW x, x.start \in Int, x.end \in Int, x.start <= x.end,
           NEW span, span.start \in Int, span.end \in Int, span.start <= span.end
    PROVE  /\ x.end >= span.start /\ x.start <= span.end => Clipped(x, span) \in Spans
           /\ Clipped(x, span).start = Larger(x.start, span.start)
           /\ Clipped(x, span).end = Smaller(x.end, span.end)
           /\ \A t \in Int : span.start <= t /\ t + 1 <= span.end =>
                 (AtCell(Clipped(x, span), t) <=> AtCell(x, t))
           /\ \A t \in Int : AtCell(Clipped(x, span), t) => AtCell(x, t)
BY DEF Clipped, Larger, Smaller, AtCell, Spans, Iv

ScopeTape ==
    /\ tape \in Tapes /\ tapeLast \in Int
    /\ \A row \in tape.blind : /\ ~(row.start < tapeLast /\ tapeLast < row.end)
                               /\ Padded(row) => row.end <= tapeLast

LEMMA WidenedIs ==
    ASSUME ScopeTape, NEW row \in tape.blind
    PROVE  /\ Widened(row).start \in Int /\ Widened(row).end \in Int
           /\ Widened(row).start <= Widened(row).end
           /\ ~Padded(row) => Widened(row) = row
           /\ row.start \in Int /\ row.end \in Int
<1>1. row \in BlindRows /\ row.start <= row.end /\ Pad \in Nat
  BY ScopeAssumption, ScopeTapesAssumption DEF ScopeTape
<1>. QED BY <1>1 DEF BlindRows, Widened

\* The bands of the days.
LEMMA QuietBandsAre == QuietBands \in SUBSET Spans /\ IsFiniteSet(QuietBands)
<1>. DEFINE band(d) == [start |-> d * DayLength + QuietOpen, end |-> d * DayLength + QuietClose]
            f == [d \in 0..(LastDate + 1) |-> band(d)]
<1>1. /\ DayLength \in Nat /\ QuietOpen \in Nat /\ QuietClose \in Nat /\ QuietOpen <= QuietClose
      /\ LastDate \in Nat
  BY ScopeAssumption
<1>2. ASSUME NEW d \in 0..(LastDate + 1) PROVE band(d) \in Spans
  <2>1. d * DayLength \in Int
    BY <1>1
  <2>. QED BY <1>1, <2>1 DEF Spans, Iv
<1>3. QuietBands = {f[d] : d \in 0..(LastDate + 1)}
  BY DEF QuietBands
<1>4. IsFiniteSet(0..(LastDate + 1))
  BY <1>1, FS_Interval
<1>5. DOMAIN f = 0..(LastDate + 1)
  OBVIOUS
<1>6. \A d \in 0..(LastDate + 1) : f[d] \in Spans
  BY <1>2
<1>. HIDE DEF f, band
<1>. QED BY <1>3, <1>4, <1>5, <1>6, ImageIsFinite

\* The blind windows, clipped to a span.
LEMMA BlindClips ==
    ASSUME ScopeTape, NEW span, span.start \in Int, span.end \in Int, span.start <= span.end
    PROVE  /\ BlindExclusions(span) \in SUBSET Spans /\ IsFiniteSet(BlindExclusions(span))
           /\ \A t \in Int : span.start <= t /\ t + 1 <= span.end =>
                 ((\E x \in BlindExclusions(span) : AtCell(x, t))
                    <=> (\E row \in Rows : AtCell(Widened(row), t)))
           /\ \A row \in Rows : \A s, e \in Int :
                 span.start <= s /\ s <= e /\ e <= span.end
                 /\ Widened(row).start < e /\ s < Widened(row).end =>
                    \E y \in BlindExclusions(span) : y.start <= e /\ y.end >= s
<1>. DEFINE R == {row \in Rows : Widened(row).end >= span.start /\ Widened(row).start <= span.end}
            f == [row \in R |-> Clipped(Widened(row), span)]
<1>1. BlindExclusions(span) = {f[row] : row \in R}
  BY DEF BlindExclusions
<1>2. IsFiniteSet(R)
  <2>1. IsFiniteSet(tape.blind)
    BY ScopeTapesAssumption DEF ScopeTape
  <2>2. R \in SUBSET tape.blind
    BY DEF Rows
  <2>. HIDE DEF R
  <2>. QED BY <2>1, <2>2, FS_Subset
<1>3. ASSUME NEW row \in Rows
      PROVE  /\ Widened(row).start \in Int /\ Widened(row).end \in Int
             /\ Widened(row).start <= Widened(row).end
  BY WidenedIs DEF Rows
<1>4. ASSUME NEW row \in Rows
      PROVE  LET x == Clipped(Widened(row), span)
             IN  /\ row \in R => x \in Spans
                 /\ x.start = Larger(Widened(row).start, span.start)
                 /\ x.end = Smaller(Widened(row).end, span.end)
                 /\ \A t \in Int : span.start <= t /\ t + 1 <= span.end =>
                       (AtCell(x, t) <=> AtCell(Widened(row), t))
                 /\ \A t \in Int : AtCell(x, t) => AtCell(Widened(row), t)
  BY <1>3, ClippedIs
<1>5. IsFiniteSet(BlindExclusions(span))
  <2>1. DOMAIN f = R
    OBVIOUS
  <2>. HIDE DEF f, R
  <2>. QED BY <1>1, <1>2, <2>1, ImageIsFinite
<1>6. BlindExclusions(span) \in SUBSET Spans
  BY <1>1, <1>4
<1>7. ASSUME NEW t \in Int, span.start <= t, t + 1 <= span.end
      PROVE  (\E x \in BlindExclusions(span) : AtCell(x, t))
                    <=> (\E row \in Rows : AtCell(Widened(row), t))
  <2>1. ASSUME NEW x \in BlindExclusions(span), AtCell(x, t) PROVE \E row \in Rows : AtCell(Widened(row), t)
    <3>1. PICK row \in R : x = Clipped(Widened(row), span)
      BY <1>1
    <3>. QED BY <1>4, <2>1, <3>1
  <2>2. ASSUME NEW row \in Rows, AtCell(Widened(row), t) PROVE \E x \in BlindExclusions(span) : AtCell(x, t)
    <3>1. row \in R
      BY <1>3, <1>7, <2>2 DEF AtCell
    <3>2. AtCell(Clipped(Widened(row), span), t)
      BY <1>4, <1>7, <2>2
    <3>3. Clipped(Widened(row), span) \in BlindExclusions(span)
      BY <1>1, <3>1
    <3>. QED BY <3>2, <3>3
  <2>. QED BY <2>1, <2>2
<1>8. ASSUME NEW row \in Rows, NEW s \in Int, NEW e \in Int, span.start <= s, s <= e, e <= span.end,
             Widened(row).start < e, s < Widened(row).end
      PROVE  \E y \in BlindExclusions(span) : y.start <= e /\ y.end >= s
  <2>1. row \in R
    BY <1>3, <1>8
  <2>. DEFINE y == Clipped(Widened(row), span)
  <2>2. y \in BlindExclusions(span)
    BY <1>1, <2>1
  <2>3. y.start = Larger(Widened(row).start, span.start) /\ y.end = Smaller(Widened(row).end, span.end)
    BY <1>4
  <2>. HIDE DEF y
  <2>4. y.start <= e /\ y.end >= s
    BY <1>3, <1>8, <2>3 DEF Larger, Smaller
  <2>. QED BY <2>2, <2>4
<1>. QED BY <1>5, <1>6, <1>7, <1>8

\* The bands, clipped to a span.
LEMMA QuietClips ==
    ASSUME NEW span, span.start \in Int, span.end \in Int, span.start <= span.end
    PROVE  /\ QuietExclusions(span) \in SUBSET Spans /\ IsFiniteSet(QuietExclusions(span))
           /\ \A t \in Int : span.start <= t /\ t + 1 <= span.end =>
                 ((\E x \in QuietExclusions(span) : AtCell(x, t))
                    <=> (\E b \in QuietBands : AtCell(b, t)))
           /\ \A b \in QuietBands : \A s, e \in Int :
                 span.start <= s /\ s <= e /\ e <= span.end /\ b.start < e /\ s < b.end =>
                    \E y \in QuietExclusions(span) : y.start <= e /\ y.end >= s
<1>. DEFINE R == {b \in QuietBands : b.end > span.start /\ b.start < span.end}
            f == [b \in R |-> Clipped(b, span)]
<1>1. QuietExclusions(span) = {f[b] : b \in R}
  BY DEF QuietExclusions
<1>2. IsFiniteSet(R)
  BY QuietBandsAre, FS_Subset
<1>3. ASSUME NEW b \in QuietBands PROVE b.start \in Int /\ b.end \in Int /\ b.start <= b.end
  BY QuietBandsAre DEF Spans, Iv
<1>4. ASSUME NEW b \in QuietBands
      PROVE  LET x == Clipped(b, span)
             IN  /\ b \in R => x \in Spans
                 /\ x.start = Larger(b.start, span.start) /\ x.end = Smaller(b.end, span.end)
                 /\ \A t \in Int : span.start <= t /\ t + 1 <= span.end => (AtCell(x, t) <=> AtCell(b, t))
                 /\ \A t \in Int : AtCell(x, t) => AtCell(b, t)
  BY <1>3, ClippedIs
<1>5. IsFiniteSet(QuietExclusions(span))
  <2>1. DOMAIN f = R
    OBVIOUS
  <2>. HIDE DEF f, R
  <2>. QED BY <1>1, <1>2, <2>1, ImageIsFinite
<1>6. QuietExclusions(span) \in SUBSET Spans
  BY <1>1, <1>4
<1>7. ASSUME NEW t \in Int, span.start <= t, t + 1 <= span.end
      PROVE  (\E x \in QuietExclusions(span) : AtCell(x, t)) <=> (\E b \in QuietBands : AtCell(b, t))
  <2>1. ASSUME NEW x \in QuietExclusions(span), AtCell(x, t) PROVE \E b \in QuietBands : AtCell(b, t)
    <3>1. PICK b \in R : x = Clipped(b, span)
      BY <1>1
    <3>. QED BY <1>4, <2>1, <3>1
  <2>2. ASSUME NEW b \in QuietBands, AtCell(b, t) PROVE \E x \in QuietExclusions(span) : AtCell(x, t)
    <3>1. b \in R
      BY <1>3, <1>7, <2>2 DEF AtCell
    <3>2. AtCell(Clipped(b, span), t)
      BY <1>4, <1>7, <2>2
    <3>3. Clipped(b, span) \in QuietExclusions(span)
      BY <1>1, <3>1
    <3>. QED BY <3>2, <3>3
  <2>. QED BY <2>1, <2>2
<1>8. ASSUME NEW b \in QuietBands, NEW s \in Int, NEW e \in Int, span.start <= s, s <= e, e <= span.end,
             b.start < e, s < b.end
      PROVE  \E y \in QuietExclusions(span) : y.start <= e /\ y.end >= s
  <2>1. b \in R
    BY <1>3, <1>8
  <2>. DEFINE y == Clipped(b, span)
  <2>2. y \in QuietExclusions(span)
    BY <1>1, <2>1
  <2>3. y.start = Larger(b.start, span.start) /\ y.end = Smaller(b.end, span.end)
    BY <1>4
  <2>. HIDE DEF y
  <2>4. y.start <= e /\ y.end >= s
    BY <1>3, <1>8, <2>3 DEF Larger, Smaller
  <2>. QED BY <2>2, <2>4
<1>. QED BY <1>5, <1>6, <1>7, <1>8


\* What the coverage counts as lost of a window is what nothing can be read of.
LEMMA CoverageIs ==
    ASSUME ScopeTape, NEW cd \in Cities \X Dates,
           tape.first <= WindowOf(cd).start, WindowOf(cd).end <= tapeLast
    PROVE  UnionOverlap(BlindExclusions(TapeSpan), WindowOf(cd))
             = DayLength - Cardinality(Readable({Widened(r) : r \in Rows}, WindowOf(cd)))
<1>. DEFINE w == WindowOf(cd)
            S == BlindExclusions(TapeSpan)
            T == {Widened(r) : r \in Rows}
<1>1. /\ w \in Spans /\ w.end - w.start = DayLength /\ w.start \in Int /\ w.end \in Int
      /\ w.start < w.end
  BY WindowIs
<1>2. tape.first \in Int /\ tapeLast \in Int
  BY ScopeTapesAssumption DEF ScopeTape
<1>3. TapeSpan.start = tape.first /\ TapeSpan.end = tapeLast
  BY DEF TapeSpan
<1>. HIDE DEF w
<1>4. tape.first <= w.start /\ w.end <= tapeLast
  BY DEF w
<1>5. TapeSpan.start <= TapeSpan.end
  BY <1>1, <1>2, <1>3, <1>4
<1>6. /\ S \in SUBSET Spans /\ IsFiniteSet(S)
      /\ \A t \in Int : TapeSpan.start <= t /\ t + 1 <= TapeSpan.end =>
            ((\E x \in S : AtCell(x, t)) <=> (\E row \in Rows : AtCell(Widened(row), t)))
  BY <1>2, <1>3, <1>5, BlindClips
<1>. HIDE DEF S
<1>7. ASSUME NEW t \in CellsOf(w) PROVE (\E x \in T : AtCell(x, t)) <=> (\E x \in S : AtCell(x, t))
  <2>1. t \in Int /\ TapeSpan.start <= t /\ t + 1 <= TapeSpan.end
    BY <1>1, <1>2, <1>3, <1>4 DEF CellsOf
  <2>. QED BY <1>6, <2>1
<1>. HIDE DEF T
<1>8. /\ Cardinality(Readable(T, w)) = (w.end - w.start) - UnionOverlap(S, w)
      /\ UnionOverlap(S, w) \in Int
  BY <1>1, <1>6, <1>7, ReadableIs
<1>9. UnionOverlap(S, w) = DayLength - Cardinality(Readable(T, w))
  <2>1. DayLength \in Int
    BY ScopeAssumption
  <2>. QED BY <1>1, <1>8, <2>1
<1>. QED BY <1>9 DEF w, S, T

\* The city-days of a run, and the run that was found.
RunDays(run) == {cd \in Present : \E i \in DOMAIN run : run[i] = cd[2]}

LEMMA RunDaysAre ==
    ASSUME ScopeTape, NEW opening, NEW n \in Nat \ {0}, NEW run, run = Run(opening, n), Len(run) = n
    PROVE  /\ RunOf(run, Shared(opening), n) /\ DOMAIN run = 1..n
           /\ \A i \in 1..n : run[i] \in Shared(opening)
           /\ RunDays(run) # {} /\ IsFiniteSet(RunDays(run))
           /\ \A cd \in RunDays(run) : /\ cd \in Cities \X Dates
                                       /\ tape.first <= WindowOf(cd).start
                                       /\ WindowOf(cd).end <= tapeLast
<1>1. RunOf(run, Shared(opening), n)
  BY RunIs
<1>2. DOMAIN run = 1..n
  BY <1>1, LenProperties DEF RunOf
<1>3. \A i \in 1..n : run[i] \in Shared(opening)
  BY <1>1 DEF RunOf
<1>4. Present \in SUBSET (Cities \X Dates)
  BY ScopeTapesAssumption DEF Present, ScopeTape
<1>5. ASSUME NEW d \in Shared(opening)
      PROVE  /\ \A cd \in Present : cd[2] = d => Evaluable(cd, opening)
             /\ \E cd \in Present : cd[2] = d
  <2>. DEFINE cities == {cd[1] : cd \in Present}
              ready == {c \in cities : <<c, d>> \in Present /\ Evaluable(<<c, d>>, opening)}
  <2>1. ready # {} /\ ready = cities
    BY DEF Shared
  <2>2. ASSUME NEW cd \in Present, cd[2] = d PROVE Evaluable(cd, opening)
    <3>1. cd[1] \in ready
      BY <2>1
    <3>2. cd = <<cd[1], d>>
      BY <1>4, <2>2
    <3>. QED BY <3>1, <3>2
  <2>3. PICK c \in ready : TRUE
    BY <2>1
  <2>4. <<c, d>> \in Present
    BY <2>3
  <2>. QED BY <2>2, <2>4
<1>6. RunDays(run) # {}
  <2>1. 1 \in 1..n
    OBVIOUS
  <2>2. run[1] \in Shared(opening)
    BY <1>3, <2>1
  <2>. QED BY <1>2, <1>5, <2>1, <2>2 DEF RunDays
<1>7. \A cd \in RunDays(run) : Evaluable(cd, opening)
  BY <1>2, <1>3, <1>5 DEF RunDays
<1>8. IsFiniteSet(RunDays(run))
  <2>1. LastDate \in Int /\ 0 \in Int
    BY ScopeAssumption
  <2>2. IsFiniteSet(0..LastDate)
    BY <2>1, FS_Interval
  <2>3. IsFiniteSet(Cities \X Dates)
    BY <2>2, FS_Product, ScopeTapesAssumption DEF Dates
  <2>4. RunDays(run) \in SUBSET (Cities \X Dates)
    BY <1>4 DEF RunDays
  <2>. QED BY <2>3, <2>4, FS_Subset
<1>9. ASSUME NEW cd \in RunDays(run)
      PROVE  cd \in Cities \X Dates /\ tape.first <= WindowOf(cd).start /\ WindowOf(cd).end <= tapeLast
  BY <1>4, <1>7 DEF RunDays, Evaluable
<1>. QED BY <1>1, <1>2, <1>3, <1>6, <1>8, <1>9

\* A split spans the windows of its days, and has the dates of the run.
LEMMA SplitIs ==
    ASSUME ScopeTape, NEW opening, NEW n \in Nat \ {0}, NEW run, run = Run(opening, n), Len(run) = n
    PROVE  /\ SplitOf(run).start \in Int /\ SplitOf(run).end \in Int
           /\ SplitOf(run).start <= SplitOf(run).end
           /\ \A cd \in RunDays(run) : /\ SplitOf(run).start <= WindowOf(cd).start
                                       /\ WindowOf(cd).end <= SplitOf(run).end
           /\ SplitOf(run).discovery = {run[i] : i \in 1..Discovery(n)}
           /\ SplitOf(run).holdout = {run[i] : i \in (Discovery(n) + 1)..n}
           /\ SplitOf(run).discovery \cup SplitOf(run).holdout = {run[i] : i \in 1..n}
<1>. DEFINE days == RunDays(run)
            starts == {WindowOf(cd).start : cd \in days}
            ends == {WindowOf(cd).end : cd \in days}
            f == [cd \in days |-> WindowOf(cd).start]
            g == [cd \in days |-> WindowOf(cd).end]
<1>1. days # {} /\ IsFiniteSet(days) /\ \A cd \in days : cd \in Cities \X Dates
  BY RunDaysAre
<1>. HIDE DEF days
<1>2. \A cd \in days : /\ WindowOf(cd).start \in Int /\ WindowOf(cd).end \in Int
                       /\ WindowOf(cd).start < WindowOf(cd).end
  BY <1>1, WindowIs
<1>3. IsFiniteSet(starts)
  <2>1. DOMAIN f = days /\ starts = {f[cd] : cd \in days}
    OBVIOUS
  <2>. HIDE DEF f, starts
  <2>. QED BY <1>1, <2>1, ImageIsFinite
<1>4. IsFiniteSet(ends)
  <2>1. DOMAIN g = days /\ ends = {g[cd] : cd \in days}
    OBVIOUS
  <2>. HIDE DEF g, ends
  <2>. QED BY <1>1, <2>1, ImageIsFinite
<1>5. starts \in SUBSET Int /\ starts # {} /\ ends \in SUBSET Int /\ ends # {}
  BY <1>1, <1>2
<1>. DEFINE windows == {WindowOf(cd) : cd \in days}
<1>6. {w.start : w \in windows} = starts /\ {w.end : w \in windows} = ends
  OBVIOUS
<1>7. SplitOf(run) = [discovery |-> {run[i] : i \in 1..Discovery(n)},
                      holdout   |-> {run[i] : i \in (Discovery(n) + 1)..n},
                      start     |-> Min(starts), end |-> Max(ends)]
  <2>1. SplitOf(run) = [discovery |-> {run[i] : i \in 1..Discovery(Len(run))},
                        holdout   |-> {run[i] : i \in (Discovery(Len(run)) + 1)..Len(run)},
                        start     |-> Min({w.start : w \in windows}),
                        end       |-> Max({w.end : w \in windows})]
    BY DEF SplitOf, RunDays, days
  <2>. HIDE DEF windows, starts, ends
  <2>. QED BY <1>6, <2>1
<1>. HIDE DEF windows
<1>8. Min(starts) \in starts /\ \A x \in starts : Min(starts) <= x
  <2>. HIDE DEF starts
  <2>. QED BY <1>3, <1>5, MinOfFinite
<1>9. Max(ends) \in ends /\ \A x \in ends : x <= Max(ends)
  <2>. HIDE DEF ends
  <2>. QED BY <1>4, <1>5, MaxOfFinite
<1>10. \A cd \in days : Min(starts) <= WindowOf(cd).start /\ WindowOf(cd).end <= Max(ends)
  BY <1>8, <1>9
<1>11. Min(starts) \in Int /\ Max(ends) \in Int /\ Min(starts) <= Max(ends)
  <2>1. PICK cd \in days : TRUE
    BY <1>1
  <2>2. Min(starts) \in Int /\ Max(ends) \in Int
    BY <1>5, <1>8, <1>9
  <2>. HIDE DEF starts, ends
  <2>. QED BY <1>2, <1>10, <2>1, <2>2
<1>12. \A i \in 1..n : i \in 1..Discovery(n) \/ i \in (Discovery(n) + 1)..n
  BY DEF Discovery
<1>13. Discovery(n) \in 0..n
  BY DEF Discovery
<1>. HIDE DEF starts, ends
<1>14. {run[i] : i \in 1..Discovery(n)} \cup {run[i] : i \in (Discovery(n) + 1)..n} = {run[i] : i \in 1..n}
  <2>1. \A i \in 1..Discovery(n) : i \in 1..n
    BY <1>13
  <2>2. \A i \in (Discovery(n) + 1)..n : i \in 1..n
    BY <1>13
  <2>. QED BY <1>12, <2>1, <2>2
<1>. QED BY <1>7, <1>10, <1>11, <1>14 DEF days


\* The tape only grows, and never ends inside a blind window.
LEMMA TapeStays == ASSUME ScopeTape, [ScopeNext]_scopeVars PROVE ScopeTape' /\ tape' = tape
<1>1. CASE UNCHANGED scopeVars
  BY <1>1 DEF ScopeTape, scopeVars, Padded
<1>2. CASE Extension
  <2>1. tapeLast' = Smaller(tapeLast + DayLength, (LastDate + 2) * DayLength) /\ tapeLast < (LastDate + 2) * DayLength
    BY <1>2 DEF Extension
  <2>2. tapeLast \in Int /\ DayLength \in Nat /\ (LastDate + 2) * DayLength \in Int
    BY ScopeAssumption DEF ScopeTape
  <2>3. tapeLast' \in Int /\ tapeLast' >= tapeLast
    BY <2>1, <2>2 DEF Smaller
  <2>4. tape' = tape /\ \A row \in tape.blind : ~(row.start < tapeLast' /\ tapeLast' < row.end)
    BY <1>2 DEF Extension
  <2>5. \A row \in tape.blind : Padded(row) => row.end <= tapeLast'
    <3>1. \A row \in tape.blind : row.end \in Int
      BY WidenedIs
    <3>2. \A row \in tape.blind : Padded(row) => row.end <= tapeLast
      BY DEF ScopeTape
    <3>. QED BY <2>2, <2>3, <3>1, <3>2
  <2>. QED BY <2>3, <2>4, <2>5 DEF ScopeTape, Padded
<1>3. ASSUME NEW opening \in Openings, NEW n \in Requests, Freeze(opening, n)
      PROVE  ScopeTape' /\ tape' = tape
  BY <1>3 DEF ScopeTape, Freeze, Padded
<1>4. CASE Write
  BY <1>4 DEF ScopeTape, Write, Padded
<1>5. CASE KillTool
  BY <1>5 DEF ScopeTape, KillTool, Padded
<1>. QED BY <1>1, <1>2, <1>3, <1>4, <1>5 DEF ScopeNext

LEMMA TapeStarts == ASSUME ScopeInit PROVE ScopeTape
<1>1. PICK d \in Dates : tapeLast = (d + 1) * DayLength
  BY DEF ScopeInit
<1>2. tapeLast \in Int
  BY <1>1, ScopeAssumption DEF Dates
<1>. QED BY <1>2 DEF ScopeInit, ScopeTape

\* A date is shared when every city could be read on it.
LEMMA SharedIsUsable ==
    ASSUME ScopeTape, NEW opening, NEW d \in Dates, Present # {}
    PROVE  d \in Shared(opening) <=> Usable(d, opening)
<1>. DEFINE cities == {cd[1] : cd \in Present}
            ready == {c \in cities : <<c, d>> \in Present /\ Evaluable(<<c, d>>, opening)}
<1>1. Present \in SUBSET (Cities \X Dates)
  BY ScopeTapesAssumption DEF Present, ScopeTape
<1>2. d \in Shared(opening) <=> ready = cities
  <2>1. cities # {}
    BY <1>1
  <2>. QED BY <2>1 DEF Shared
<1>3. ASSUME NEW c \in cities
      PROVE  (<<c, d>> \in Present /\ Evaluable(<<c, d>>, opening)) <=>
               LET w == WindowOf(<<c, d>>)
               IN  /\ <<c, d>> \in Present
                   /\ tape.first <= w.start /\ w.end <= tapeLast /\ opening <= w.start
                   /\ DayLength - Cardinality(Readable({Widened(r) : r \in Rows}, w)) <= Tolerance
  <2>. DEFINE w == WindowOf(<<c, d>>)
  <2>1. ASSUME tape.first <= w.start, w.end <= tapeLast
        PROVE  UnionOverlap(BlindExclusions(TapeSpan), w)
                 = DayLength - Cardinality(Readable({Widened(r) : r \in Rows}, w))
    <3>1. <<c, d>> \in Cities \X Dates
      BY <1>1
    <3>. QED BY <2>1, <3>1, CoverageIs
  <2>2. Evaluable(<<c, d>>, opening) <=>
           /\ tape.first <= w.start /\ w.end <= tapeLast /\ opening <= w.start
           /\ UnionOverlap(BlindExclusions(TapeSpan), w) <= Tolerance
    BY DEF Evaluable
  <2>. HIDE DEF w
  <2>3. (<<c, d>> \in Present /\ Evaluable(<<c, d>>, opening)) <=>
                   /\ <<c, d>> \in Present
                   /\ tape.first <= w.start /\ w.end <= tapeLast /\ opening <= w.start
                   /\ DayLength - Cardinality(Readable({Widened(r) : r \in Rows}, w)) <= Tolerance
    BY <2>1, <2>2
  <2>. QED BY <2>3 DEF w
<1>4. ready = cities <=> \A c \in cities : <<c, d>> \in Present /\ Evaluable(<<c, d>>, opening)
  OBVIOUS
<1>5. (\A c \in cities : <<c, d>> \in Present /\ Evaluable(<<c, d>>, opening)) <=> Usable(d, opening)
  BY <1>3 DEF Usable
<1>. QED BY <1>2, <1>4, <1>5

\* What the tool freezes is the first run of days that could be read.
LEMMA FreezesEarliest ==
    ASSUME ScopeTape, NEW opening, NEW n \in Requests, Freeze(opening, n)
    PROVE  LET split == job'[3]
               first == Min(split.discovery \cup split.holdout)
               m     == Cardinality(split.discovery) + Cardinality(split.holdout)
           IN  /\ split.discovery \cup split.holdout = first..(first + m - 1)
               /\ m % DEval = 0 /\ Cardinality(split.discovery) = Discovery(m)
               /\ \A d \in split.discovery, h \in split.holdout : d < h
               /\ \A d \in first..(first + m - 1) : Usable(d, job'[4])
               /\ \A d \in 0..(first - 1) : \E k \in d..(d + m - 1) : ~Usable(k, job'[4])
<1>. DEFINE run == Run(opening, n)
            split == SplitOf(run)
            S == Shared(opening)
            c == Discovery(n)
<1>1. n \in Nat \ {0} /\ Len(run) = n /\ n % DEval = 0
  BY ScopeAssumption DEF Freeze
<1>2. job'[3] = split /\ job'[4] = opening
  BY DEF Freeze
<1>. HIDE DEF run
<1>3. run = Run(opening, n)
  BY DEF run
<1>4. /\ RunOf(run, S, n) /\ DOMAIN run = 1..n /\ \A i \in 1..n : run[i] \in S
      /\ RunDays(run) # {}
  BY <1>1, <1>3, RunDaysAre
<1>5. /\ split.discovery = {run[i] : i \in 1..c}
      /\ split.holdout = {run[i] : i \in (c + 1)..n}
      /\ split.discovery \cup split.holdout = {run[i] : i \in 1..n}
  BY <1>1, <1>3, SplitIs
<1>6. c \in Int /\ 0 <= c /\ c <= n
  BY <1>1 DEF Discovery
<1>. HIDE DEF split, S, c
<1>7. PICK f \in Int : f = run[1] /\ f \in S /\ \A i \in 1..n : run[i] = f + i - 1
  <2>1. 1 \in 1..n
    BY <1>1
  <2>2. run[1] \in S
    BY <1>4, <2>1
  <2>3. S \subseteq Int
    BY ScopeAssumption DEF S, Shared, Dates
  <2>4. \A i \in 1..n : run[i] = run[1] + i - 1
    BY <1>1, <1>4 DEF RunOf
  <2>. QED BY <2>2, <2>3, <2>4
<1>8. /\ split.discovery = f..(f + c - 1)
      /\ split.holdout = (f + c)..(f + n - 1)
      /\ split.discovery \cup split.holdout = f..(f + n - 1)
  <2>1. ASSUME NEW a \in Int, NEW b \in Int, 1 <= a, b <= n PROVE {run[i] : i \in a..b} = (f + a - 1)..(f + b - 1)
    <3>1. \A i \in a..b : run[i] = f + i - 1
      BY <1>1, <1>7, <2>1
    <3>2. \A x \in (f + a - 1)..(f + b - 1) : x - f + 1 \in a..b /\ f + (x - f + 1) - 1 = x
      BY <2>1
    <3>3. \A i \in a..b : f + i - 1 \in (f + a - 1)..(f + b - 1)
      BY <2>1
    <3>4. \A x \in (f + a - 1)..(f + b - 1) : x \in {run[i] : i \in a..b}
      <4>1. ASSUME NEW x \in (f + a - 1)..(f + b - 1) PROVE \E i \in a..b : run[i] = x
        <5>1. x - f + 1 \in a..b /\ f + (x - f + 1) - 1 = x
          BY <3>2
        <5>2. run[x - f + 1] = x
          BY <3>1, <5>1
        <5>. QED BY <5>1, <5>2
      <4>. QED BY <4>1
    <3>5. \A i \in a..b : run[i] \in (f + a - 1)..(f + b - 1)
      BY <3>1, <3>3
    <3>. QED BY <3>4, <3>5
  <2>6. n \in Int /\ 1 <= n /\ n <= n /\ c + 1 \in Int /\ 1 <= c + 1 /\ 1 \in Int /\ 1 <= 1
    BY <1>1, <1>6
  <2>2. {run[i] : i \in 1..c} = (f + 1 - 1)..(f + c - 1)
    <3>1. c \in Int /\ 1 \in Int /\ 1 <= 1 /\ c <= n
      BY <1>6
    <3>. QED BY <2>1, <3>1
  <2>3. {run[i] : i \in (c + 1)..n} = (f + (c + 1) - 1)..(f + n - 1)
    BY <2>1, <2>6
  <2>4. {run[i] : i \in 1..n} = (f + 1 - 1)..(f + n - 1)
    BY <2>1, <2>6
  <2>5. f + 1 - 1 = f /\ f + (c + 1) - 1 = f + c
    BY <1>6
  <2>. QED BY <1>5, <2>2, <2>3, <2>4, <2>5
<1>9. Cardinality(split.discovery) = c /\ Cardinality(split.holdout) = n - c
  <2>1. f + c - 1 \in Int /\ f + c \in Int /\ f + n - 1 \in Int
    BY <1>1, <1>6
  <2>2. Cardinality(f..(f + c - 1)) = IF f > f + c - 1 THEN 0 ELSE (f + c - 1) - f + 1
    BY <2>1, FS_Interval
  <2>3. Cardinality((f + c)..(f + n - 1)) = IF f + c > f + n - 1 THEN 0 ELSE (f + n - 1) - (f + c) + 1
    BY <2>1, FS_Interval
  <2>. QED BY <1>1, <1>6, <1>8, <2>2, <2>3
<1>10. Min(split.discovery \cup split.holdout) = f
  <2>1. f \in f..(f + n - 1) /\ \A x \in f..(f + n - 1) : f <= x
    BY <1>1
  <2>2. f..(f + n - 1) \in SUBSET Int
    OBVIOUS
  <2>. QED BY <1>8, <2>1, <2>2, MinIs
<1>11. Cardinality(split.discovery) + Cardinality(split.holdout) = n
  BY <1>1, <1>6, <1>9
<1>12. Present # {}
  BY <1>4 DEF RunDays
<1>13. \A d \in split.discovery, h \in split.holdout : d < h
  BY <1>6, <1>8
<1>14. \A d \in f..(f + n - 1) : d \in S
  <2>1. \A d \in f..(f + n - 1) : d - f + 1 \in 1..n /\ f + (d - f + 1) - 1 = d
    BY <1>1
  <2>. QED BY <1>4, <1>7, <2>1
<1>15. S \subseteq Dates /\ LastDate \in Nat
  BY ScopeAssumption DEF S, Shared
<1>16. \A d \in f..(f + n - 1) : Usable(d, opening)
  BY <1>12, <1>14, <1>15, SharedIsUsable DEF S
<1>17. ASSUME NEW d \in 0..(f - 1) PROVE \E k \in d..(d + n - 1) : ~Usable(k, opening)
  <2>1. PICK k \in d..(d + n - 1) : k \notin S
    <3>1. d \in Int /\ d < run[1]
      BY <1>7
    <3>. QED BY <1>1, <1>4, <3>1 DEF RunOf
  <2>2. k \in Dates
    <3>1. f + n - 1 \in Dates
      BY <1>1, <1>14, <1>15
    <3>2. f + n - 1 <= LastDate
      BY <3>1, <1>15 DEF Dates
    <3>. QED BY <1>1, <1>15, <2>1, <3>2 DEF Dates
  <2>. QED BY <1>12, <2>1, <2>2, SharedIsUsable DEF S
<1>18. Discovery(n) = c
  BY DEF c
<1>. QED BY <1>1, <1>2, <1>8, <1>9, <1>10, <1>11, <1>13, <1>16, <1>17, <1>18

\* For every tape, whatever it is asked for: the tool freezes the first run of
\* consecutive dates on which every city could be read (freeze_scope), of the
\* length asked for, and splits it in order.
THEOREM EarliestScope == ScopeSpec => ScopeIsEarliest
<1>1. ScopeInit => ScopeTape
  BY TapeStarts
<1>2. ScopeTape /\ [ScopeNext]_scopeVars => ScopeTape'
  BY TapeStays
<1>3. ScopeTape /\ [ScopeNext]_scopeVars =>
        [job = <<>> /\ job' # <<>> =>
          LET split == job'[3]
              first == Min(split.discovery \cup split.holdout)
              n     == Cardinality(split.discovery) + Cardinality(split.holdout)
          IN  /\ split.discovery \cup split.holdout = first..(first + n - 1)
              /\ n % DEval = 0 /\ Cardinality(split.discovery) = Discovery(n)
              /\ \A d \in split.discovery, h \in split.holdout : d < h
              /\ \A d \in first..(first + n - 1) : Usable(d, job'[4])
              /\ \A d \in 0..(first - 1) : \E k \in d..(d + n - 1) : ~Usable(k, job'[4])]_scopeVars
  <2>. SUFFICES ASSUME ScopeTape, ScopeNext, job = <<>>, job' # <<>>
                PROVE  LET split == job'[3]
                           first == Min(split.discovery \cup split.holdout)
                           n     == Cardinality(split.discovery) + Cardinality(split.holdout)
                       IN  /\ split.discovery \cup split.holdout = first..(first + n - 1)
                           /\ n % DEval = 0 /\ Cardinality(split.discovery) = Discovery(n)
                           /\ \A d \in split.discovery, h \in split.holdout : d < h
                           /\ \A d \in first..(first + n - 1) : Usable(d, job'[4])
                           /\ \A d \in 0..(first - 1) : \E k \in d..(d + n - 1) : ~Usable(k, job'[4])
    BY DEF scopeVars
  <2>1. ~Extension /\ ~Write /\ ~KillTool
    BY DEF Extension, Write, KillTool
  <2>2. PICK opening \in Openings, n \in Requests : Freeze(opening, n)
    BY <2>1 DEF ScopeNext
  <2>. QED BY <2>2, FreezesEarliest
<1>. QED BY <1>1, <1>2, <1>3, PTL DEF ScopeSpec, ScopeIsEarliest

\* What is frozen of a scope is true to the tape: its exclusions have all that
\* must not be read in the windows of its days, and the spans are what is left.
TrueScope(excl, days) ==
    /\ excl \in SUBSET Spans /\ IsFiniteSet(excl)
    /\ \A cd \in InScope(days) : LET w == WindowOf(cd) IN
          /\ cd \in Cities \X Dates
          /\ days[cd].span = Cardinality(Readable(Unreadable, w))
          /\ \A x \in Unreadable : \A s, e \in Int :
                w.start <= s /\ s <= e /\ e <= w.end /\ x.start < e /\ s < x.end =>
                   \E y \in excl : y.start <= e /\ y.end >= s

\* What the tool has in hand when it starts to write is true to the tape.
LEMMA FreezesTrue ==
    ASSUME ScopeTape, NEW opening, NEW n \in Requests, Freeze(opening, n)
    PROVE  TrueScope(job'[1], job'[2])
<1>. DEFINE run == Run(opening, n)
            split == SplitOf(run)
            span == [start |-> split.start, end |-> split.end]
            B == BlindExclusions(span)
            Q == QuietExclusions(span)
            excl == B \cup Q
            days == DaysOf(split, excl)
<1>1. n \in Nat \ {0} /\ Len(run) = n
  BY ScopeAssumption DEF Freeze
<1>2. job'[1] = excl /\ job'[2] = days
  BY DEF Freeze
<1>. HIDE DEF run
<1>3. run = Run(opening, n)
  BY DEF run
<1>4. /\ DOMAIN run = 1..n
      /\ \A cd \in RunDays(run) : /\ cd \in Cities \X Dates
                                  /\ tape.first <= WindowOf(cd).start
                                  /\ WindowOf(cd).end <= tapeLast
  BY <1>1, <1>3, RunDaysAre
<1>5. /\ split.start \in Int /\ split.end \in Int /\ split.start <= split.end
      /\ \A cd \in RunDays(run) : split.start <= WindowOf(cd).start /\ WindowOf(cd).end <= split.end
      /\ split.discovery \cup split.holdout = {run[i] : i \in 1..n}
  BY <1>1, <1>3, SplitIs
<1>. HIDE DEF split
<1>6. span.start = split.start /\ span.end = split.end
  OBVIOUS
<1>. HIDE DEF span
<1>7. /\ B \in SUBSET Spans /\ IsFiniteSet(B)
      /\ \A t \in Int : span.start <= t /\ t + 1 <= span.end =>
            ((\E x \in B : AtCell(x, t)) <=> (\E row \in Rows : AtCell(Widened(row), t)))
      /\ \A row \in Rows : \A s, e \in Int :
            span.start <= s /\ s <= e /\ e <= span.end
            /\ Widened(row).start < e /\ s < Widened(row).end =>
               \E y \in B : y.start <= e /\ y.end >= s
  BY <1>5, <1>6, BlindClips
<1>8. /\ Q \in SUBSET Spans /\ IsFiniteSet(Q)
      /\ \A t \in Int : span.start <= t /\ t + 1 <= span.end =>
            ((\E x \in Q : AtCell(x, t)) <=> (\E b \in QuietBands : AtCell(b, t)))
      /\ \A b \in QuietBands : \A s, e \in Int :
            span.start <= s /\ s <= e /\ e <= span.end /\ b.start < e /\ s < b.end =>
               \E y \in Q : y.start <= e /\ y.end >= s
  BY <1>5, <1>6, QuietClips
<1>. HIDE DEF B, Q
<1>9. excl \in SUBSET Spans /\ IsFiniteSet(excl)
  BY <1>7, <1>8, FS_Union
<1>10. ASSUME NEW cd \in InScope(days)
       PROVE  /\ cd \in RunDays(run)
              /\ days[cd].span = DayLength - UnionOverlap(excl, WindowOf(cd))
  <2>1. DOMAIN days = Present
    BY DEF DaysOf
  <2>2. cd \in Present /\ days[cd].split # ""
    BY <2>1 DEF InScope
  <2>. DEFINE side == SideOf(split, cd[2])
              left == DayLength - UnionOverlap(excl, WindowOf(cd))
  <2>3. days[cd].split = side /\ days[cd].span = IF side = "" THEN 0 ELSE left
    BY <2>2 DEF DaysOf
  <2>4. side # "" => cd[2] \in split.discovery \cup split.holdout
    BY DEF SideOf
  <2>. HIDE DEF days, side, left
  <2>5. cd[2] \in split.discovery \cup split.holdout /\ days[cd].span = left
    BY <2>2, <2>3, <2>4
  <2>6. cd \in RunDays(run)
    BY <1>4, <1>5, <2>2, <2>5 DEF RunDays
  <2>. QED BY <2>5, <2>6 DEF left
<1>. HIDE DEF days
<1>11. \* A row of a window that the tape ends before begins when it ends.
       \A row \in tape.blind : row \in Rows \/ /\ Widened(row) = row /\ row.start >= tapeLast
                                               /\ row.start \in Int
  <2>1. tapeLast \in Int /\ \A row \in tape.blind : /\ ~(row.start < tapeLast /\ tapeLast < row.end)
                                                    /\ Padded(row) => row.end <= tapeLast
    BY DEF ScopeTape
  <2>. QED BY <2>1, WidenedIs DEF Rows
<1>12. ASSUME NEW cd \in InScope(days)
       PROVE  LET w == WindowOf(cd) IN
              /\ cd \in Cities \X Dates
              /\ days[cd].span = Cardinality(Readable(Unreadable, w))
              /\ \A x \in Unreadable : \A s, e \in Int :
                    w.start <= s /\ s <= e /\ e <= w.end /\ x.start < e /\ s < x.end =>
                       \E y \in excl : y.start <= e /\ y.end >= s
  <2>. DEFINE w == WindowOf(cd)
  <2>1. cd \in RunDays(run) /\ days[cd].span = DayLength - UnionOverlap(excl, w)
    BY <1>10
  <2>2. cd \in Cities \X Dates /\ w.end <= tapeLast /\ split.start <= w.start /\ w.end <= split.end
    BY <1>4, <1>5, <2>1
  <2>3. /\ w \in Spans /\ w.end - w.start = DayLength /\ w.start \in Int /\ w.end \in Int
        /\ w.start < w.end
    BY <2>2, WindowIs
  <2>4. tapeLast \in Int
    BY DEF ScopeTape
  <2>. HIDE DEF w
  <2>5. ASSUME NEW t \in CellsOf(w)
        PROVE  (\E x \in Unreadable : AtCell(x, t)) <=> (\E x \in excl : AtCell(x, t))
    <3>1. t \in Int /\ w.start <= t /\ t + 1 <= w.end
      BY <2>3 DEF CellsOf
    <3>2. span.start <= t /\ t + 1 <= span.end
      BY <1>5, <1>6, <2>2, <2>3, <3>1
    <3>3. (\E x \in excl : AtCell(x, t)) <=> \/ \E row \in Rows : AtCell(Widened(row), t)
                                             \/ \E b \in QuietBands : AtCell(b, t)
      BY <1>7, <1>8, <3>1, <3>2
    <3>4. (\E row \in tape.blind : AtCell(Widened(row), t)) <=> \E row \in Rows : AtCell(Widened(row), t)
      <4>1. ASSUME NEW row \in tape.blind, AtCell(Widened(row), t) PROVE row \in Rows
        BY <1>11, <2>2, <2>3, <2>4, <3>1, <4>1 DEF AtCell
      <4>2. \A row \in Rows : row \in tape.blind
        BY DEF Rows
      <4>. QED BY <4>1, <4>2
    <3>5. (\E x \in Unreadable : AtCell(x, t)) <=> \/ \E row \in tape.blind : AtCell(Widened(row), t)
                                                   \/ \E b \in QuietBands : AtCell(b, t)
      BY DEF Unreadable
    <3>. QED BY <3>3, <3>4, <3>5
  <2>6. /\ Cardinality(Readable(Unreadable, w)) = (w.end - w.start) - UnionOverlap(excl, w)
        /\ UnionOverlap(excl, w) \in Int
    <3>. HIDE DEF excl
    <3>. QED BY <1>9, <2>3, <2>5, ReadableIs
  <2>7. ASSUME NEW x \in Unreadable, NEW s \in Int, NEW e \in Int,
               w.start <= s, s <= e, e <= w.end, x.start < e, s < x.end
        PROVE  \E y \in excl : y.start <= e /\ y.end >= s
    <3>1. span.start <= s /\ e <= span.end
      BY <1>5, <1>6, <2>2, <2>3, <2>7
    <3>2. CASE \E row \in tape.blind : x = Widened(row)
      <4>1. PICK row \in tape.blind : x = Widened(row)
        BY <3>2
      <4>2. row \in Rows
        BY <1>11, <2>2, <2>3, <2>4, <2>7, <4>1
      <4>3. \E y \in B : y.start <= e /\ y.end >= s
        BY <1>7, <2>7, <3>1, <4>1, <4>2
      <4>. QED BY <4>3
    <3>3. CASE x \in QuietBands
      <4>1. \E y \in Q : y.start <= e /\ y.end >= s
        BY <1>8, <2>7, <3>1, <3>3
      <4>. QED BY <4>1
    <3>. QED BY <3>2, <3>3 DEF Unreadable
  <2>8. days[cd].span = Cardinality(Readable(Unreadable, w))
    BY <2>1, <2>3, <2>6
  <2>. QED BY <2>2, <2>7, <2>8 DEF w
<1>. HIDE DEF excl
<1>. QED BY <1>2, <1>9, <1>12 DEF TrueScope

\* The tool writes a true scope, the exclusions before the event days, and what
\* lies in the directory is one: whichever runs of the tool have written it.
ScopeFiles ==
    /\ DOMAIN disk = FileNames
    /\ \A f \in FileNames : disk[f] = <<>> \/ \E c : disk[f] = <<c>>
    /\ disk["event_days"] # <<>> => disk["exclusions"] # <<>>
    /\ \A excl, days : disk["exclusions"] = <<excl>> /\ disk["event_days"] = <<days>> =>
          TrueScope(excl, days)

ScopeJob ==
    \/ job = <<>>
    \/ \E excl, days, split, opening :
          \/ job = <<excl, days, split, opening>> /\ TrueScope(excl, days)
          \/ /\ job = <<days, split, opening>> /\ TrueScope(excl, days)
             /\ disk["exclusions"] = <<excl>>
          \/ job = <<split, opening>>
          \/ job = <<opening>>

ScopeInv == ScopeTape /\ ScopeFiles /\ ScopeJob

LEMMA FilesAre ==
    /\ Files[1] = "exclusions" /\ Files[2] = "event_days" /\ Files[3] = "split" /\ Files[4] = "summary"
    /\ Len(Files) = 4 /\ FileNames = {"exclusions", "event_days", "split", "summary"}
BY DEF Files, FileNames

LEMMA TruthStays ==
    ASSUME tape' = tape, NEW excl, NEW days
    PROVE  TrueScope(excl, days)' <=> TrueScope(excl, days)
BY DEF TrueScope, Unreadable, InScope, Widened, Padded, WindowOf, Spans, Iv, QuietBands, Readable

\* What the tool writes next, and what it has left when it did.
LEMMA NextIs ==
    ASSUME ScopeFiles, ScopeJob, job # <<>>
    PROVE  \/ \E excl, days, split, opening :
                 /\ job = <<excl, days, split, opening>> /\ TrueScope(excl, days)
                 /\ NextFile = "exclusions" /\ Head(job) = excl /\ Tail(job) = <<days, split, opening>>
           \/ \E excl, days, split, opening :
                 /\ TrueScope(excl, days) /\ disk["exclusions"] = <<excl>>
                 /\ NextFile = "event_days" /\ Head(job) = days /\ Tail(job) = <<split, opening>>
           \/ \E opening : NextFile = "split" /\ Tail(job) = <<opening>>
           \/ NextFile = "summary" /\ Tail(job) = <<>>
<1>1. PICK excl, days, split, opening :
          \/ job = <<excl, days, split, opening>> /\ TrueScope(excl, days)
          \/ /\ job = <<days, split, opening>> /\ TrueScope(excl, days)
             /\ disk["exclusions"] = <<excl>>
          \/ job = <<split, opening>>
          \/ job = <<opening>>
  BY DEF ScopeJob
<1>2. CASE job = <<excl, days, split, opening>> /\ TrueScope(excl, days)
  <2>1. Len(job) = 4 /\ Head(job) = excl /\ Tail(job) = <<days, split, opening>>
    BY <1>2
  <2>2. NextFile = "exclusions"
    BY <2>1, FilesAre DEF NextFile
  <2>. QED BY <1>2, <2>1, <2>2
<1>3. CASE job = <<days, split, opening>> /\ TrueScope(excl, days) /\ disk["exclusions"] = <<excl>>
  <2>1. Len(job) = 3 /\ Head(job) = days /\ Tail(job) = <<split, opening>>
    BY <1>3
  <2>2. NextFile = "event_days"
    BY <2>1, FilesAre DEF NextFile
  <2>. QED BY <1>3, <2>1, <2>2
<1>4. CASE job = <<split, opening>>
  <2>1. Len(job) = 2 /\ Tail(job) = <<opening>>
    BY <1>4
  <2>2. NextFile = "split"
    BY <2>1, FilesAre DEF NextFile
  <2>. QED BY <2>1, <2>2
<1>5. CASE job = <<opening>>
  <2>1. Len(job) = 1 /\ Tail(job) = <<>>
    BY <1>5
  <2>2. NextFile = "summary"
    BY <2>1, FilesAre DEF NextFile
  <2>. QED BY <2>1, <2>2
<1>. QED BY <1>1, <1>2, <1>3, <1>4, <1>5

\* A file that is written where there was none leaves the directory a true scope.
LEMMA FilesGrow ==
    ASSUME ScopeFiles, ScopeJob, job # <<>>, tape' = tape,
           disk[NextFile] = <<>> \/ NextFile = "summary",
           disk' = [disk EXCEPT ![NextFile] = <<Head(job)>>]
    PROVE  ScopeFiles'
<1>1. /\ DOMAIN disk = FileNames /\ \A f \in FileNames : disk[f] = <<>> \/ \E c : disk[f] = <<c>>
      /\ disk["event_days"] # <<>> => disk["exclusions"] # <<>>
      /\ \A excl, days : disk["exclusions"] = <<excl>> /\ disk["event_days"] = <<days>> =>
            TrueScope(excl, days)
  BY DEF ScopeFiles
<1>2. NextFile \in FileNames
  BY NextIs, FilesAre
<1>3. DOMAIN disk' = FileNames /\ disk'[NextFile] = <<Head(job)>>
      /\ \A f \in FileNames : f # NextFile => disk'[f] = disk[f]
  BY <1>1, <1>2
<1>4. \A f \in FileNames : disk'[f] = <<>> \/ \E c : disk'[f] = <<c>>
  BY <1>1, <1>3
<1>5. (disk["event_days"] # <<>> => disk["exclusions"] # <<>>)'
  <2>1. CASE NextFile = "event_days"
    <3>1. \E excl : disk["exclusions"] = <<excl>>
      BY <2>1, NextIs
    <3>2. disk'["exclusions"] # <<>>
      BY <1>3, <2>1, <3>1, FilesAre
    <3>. QED BY <3>2
  <2>2. CASE NextFile = "exclusions"
    BY <1>3, <2>2
  <2>3. CASE NextFile # "exclusions" /\ NextFile # "event_days"
    BY <1>1, <1>3, <2>3, FilesAre
  <2>. QED BY <2>1, <2>2, <2>3
<1>6. ASSUME NEW excl, NEW days, disk'["exclusions"] = <<excl>>, disk'["event_days"] = <<days>>
      PROVE  TrueScope(excl, days)
  <2>1. CASE NextFile = "exclusions"
    <3>1. disk["exclusions"] = <<>> /\ disk'["event_days"] = disk["event_days"]
      BY <1>3, <2>1, FilesAre
    <3>. QED BY <1>1, <1>6, <3>1
  <2>2. CASE NextFile = "event_days"
    <3>1. PICK e, d : TrueScope(e, d) /\ disk["exclusions"] = <<e>> /\ Head(job) = d
      BY <2>2, NextIs
    <3>2. disk'["exclusions"] = <<e>> /\ disk'["event_days"] = <<d>>
      BY <1>3, <2>2, <3>1, FilesAre
    <3>. QED BY <1>6, <3>1, <3>2
  <2>3. CASE NextFile # "exclusions" /\ NextFile # "event_days"
    BY <1>1, <1>3, <1>6, <2>3, FilesAre
  <2>. QED BY <2>1, <2>2, <2>3
<1>7. ASSUME NEW excl, NEW days PROVE TrueScope(excl, days)' <=> TrueScope(excl, days)
  BY TruthStays
<1>. QED BY <1>3, <1>4, <1>5, <1>6, <1>7 DEF ScopeFiles

LEMMA FilesStay == ASSUME ScopeFiles, tape' = tape, disk' = disk PROVE ScopeFiles'
<1>1. ASSUME NEW excl, NEW days PROVE TrueScope(excl, days)' <=> TrueScope(excl, days)
  BY TruthStays
<1>. QED BY <1>1 DEF ScopeFiles

LEMMA JobStays == ASSUME ScopeJob, tape' = tape, disk' = disk, job' = job PROVE ScopeJob'
<1>1. ASSUME NEW excl, NEW days PROVE TrueScope(excl, days)' <=> TrueScope(excl, days)
  BY TruthStays
<1>. QED BY <1>1 DEF ScopeJob

LEMMA ScopeStays == ASSUME ScopeInv, [ScopeNext]_scopeVars PROVE ScopeInv'
<1>1. ScopeTape /\ ScopeFiles /\ ScopeJob
  BY DEF ScopeInv
<1>2. ScopeTape' /\ tape' = tape
  BY <1>1, TapeStays
<1>3. ASSUME NEW excl, NEW days PROVE TrueScope(excl, days)' <=> TrueScope(excl, days)
  BY <1>2, TruthStays
<1>4. job' = <<>> => ScopeJob'
  BY DEF ScopeJob
<1>5. CASE Extension \/ UNCHANGED scopeVars
  <2>1. disk' = disk /\ job' = job
    BY <1>5 DEF Extension, scopeVars
  <2>. QED BY <1>1, <1>2, <2>1, FilesStay, JobStays DEF ScopeInv
<1>6. ASSUME NEW opening \in Openings, NEW n \in Requests, Freeze(opening, n) PROVE ScopeInv'
  <2>1. TrueScope(job'[1], job'[2])
    BY <1>1, <1>6, FreezesTrue
  <2>2. \E excl, days, split : job' = <<excl, days, split, opening>>
    BY <1>6 DEF Freeze
  <2>3. PICK excl, days, split : job' = <<excl, days, split, opening>>
    BY <2>2
  <2>4. TrueScope(excl, days)
    BY <2>1, <2>3
  <2>5. TrueScope(excl, days)'
    BY <1>3, <2>4
  <2>6. ScopeJob'
    BY <2>3, <2>5 DEF ScopeJob
  <2>7. disk' = disk
    BY <1>6 DEF Freeze
  <2>. QED BY <1>1, <1>2, <2>6, <2>7, FilesStay DEF ScopeInv
<1>7. CASE Write
  <2>1. job # <<>>
    BY <1>7 DEF Write
  <2>2. CASE disk[NextFile] = <<>> \/ NextFile = "summary"
    <3>1. disk' = [disk EXCEPT ![NextFile] = <<Head(job)>>] /\ job' = Tail(job)
      BY <1>7, <2>2 DEF Write
    <3>2. ScopeFiles'
      BY <1>1, <1>2, <2>1, <2>2, <3>1, FilesGrow
    <3>3. ASSUME NEW excl, NEW days, NEW split, NEW opening,
                 TrueScope(excl, days), NextFile = "exclusions", Head(job) = excl,
                 Tail(job) = <<days, split, opening>>
          PROVE  ScopeJob'
      <4>1. DOMAIN disk = FileNames
        BY <1>1 DEF ScopeFiles
      <4>2. disk'["exclusions"] = <<excl>> /\ job' = <<days, split, opening>>
        BY <3>1, <3>3, <4>1, FilesAre
      <4>3. TrueScope(excl, days)'
        BY <1>3, <3>3
      <4>. QED BY <4>2, <4>3 DEF ScopeJob
    <3>4. (\E split, opening : Tail(job) = <<split, opening>>) => ScopeJob'
      BY <3>1 DEF ScopeJob
    <3>5. (\E opening : Tail(job) = <<opening>>) => ScopeJob'
      BY <3>1 DEF ScopeJob
    <3>6. ScopeJob'
      BY <1>1, <1>4, <2>1, <3>1, <3>3, <3>4, <3>5, NextIs
    <3>. QED BY <1>2, <3>2, <3>6 DEF ScopeInv
  <2>3. CASE ~(disk[NextFile] = <<>> \/ NextFile = "summary")
    <3>1. job' = <<>> /\ disk' = disk
      BY <1>7, <2>3 DEF Write
    <3>. QED BY <1>1, <1>2, <1>4, <3>1, FilesStay DEF ScopeInv
  <2>. QED BY <2>2, <2>3
<1>8. CASE KillTool
  <2>1. job # <<>> /\ job' = <<>>
    BY <1>8 DEF KillTool
  <2>2. CASE disk' = disk
    BY <1>1, <1>2, <1>4, <2>1, <2>2, FilesStay DEF ScopeInv
  <2>3. CASE disk[NextFile] = <<>> /\ disk' = [disk EXCEPT ![NextFile] = <<Head(job)>>]
    BY <1>1, <1>2, <1>4, <2>1, <2>3, FilesGrow DEF ScopeInv
  <2>. QED BY <1>8, <2>2, <2>3 DEF KillTool
<1>. QED BY <1>5, <1>6, <1>7, <1>8 DEF ScopeNext

LEMMA ScopeStarts == ASSUME ScopeInit PROVE ScopeInv
<1>1. ScopeTape
  BY TapeStarts
<1>2. job = <<>> /\ disk = [f \in FileNames |-> <<>>]
  BY DEF ScopeInit
<1>. QED BY <1>1, <1>2, FilesAre DEF ScopeInv, ScopeFiles, ScopeJob

\* What a study can load is true to the tape.
LEMMA LoadedIsTrue ==
    ASSUME ScopeInv, Loadable
    PROVE  TrueScope(disk["exclusions"][1], disk["event_days"][1])
<1>1. disk["exclusions"] # <<>> /\ disk["event_days"] # <<>>
  BY DEF Loadable
<1>2. PICK excl : disk["exclusions"] = <<excl>>
  BY <1>1, FilesAre DEF ScopeInv, ScopeFiles
<1>3. PICK days : disk["event_days"] = <<days>>
  BY <1>1, FilesAre DEF ScopeInv, ScopeFiles
<1>4. TrueScope(excl, days)
  BY <1>2, <1>3 DEF ScopeInv, ScopeFiles
<1>. QED BY <1>2, <1>3, <1>4

\* What the screen keeps can be read.
LEMMA KeptReadable ==
    ASSUME ScopeInv, Loadable
    PROVE  KeptAreReadable
<1>. DEFINE E == disk["exclusions"][1]
            D == disk["event_days"][1]
<1>1. TrueScope(E, D)
  BY LoadedIsTrue
<1>2. Loaded.merged = Merged(E) /\ Loaded.days = InScope(D)
  BY DEF Loaded
<1>. HIDE DEF E, D
<1>3. ASSUME NEW cd \in Cities \X Dates, NEW s \in Int, NEW e \in Int, s <= e,
             Keeps(Loaded, [city |-> cd[1], date |-> cd[2], start |-> s, end |-> e])
      PROVE  /\ WindowOf(cd).start <= s /\ e <= WindowOf(cd).end
             /\ ~\E x \in Unreadable : x.start < e /\ s < x.end
  <2>. DEFINE w == WindowOf(cd)
              y == [city |-> cd[1], date |-> cd[2], start |-> s, end |-> e]
              m == Merged(E)
  <2>1. y.city = cd[1] /\ y.date = cd[2] /\ y.start = s /\ y.end = e
    OBVIOUS
  <2>2. <<cd[1], cd[2]>> = cd
    OBVIOUS
  <2>. HIDE DEF y
  <2>3. Keeps(Loaded, y)
    BY <1>3 DEF y
  <2>4. cd \in InScope(D) /\ w.start <= s /\ e <= w.end /\ ~Intersects(m, y)
    BY <1>2, <2>1, <2>2, <2>3 DEF Keeps
  <2>. HIDE DEF w, m
  <2>5. ASSUME NEW x \in Unreadable, x.start < e, s < x.end PROVE FALSE
    <3>1. PICK z \in E : z.start <= e /\ z.end >= s
      BY <1>1, <1>3, <2>4, <2>5 DEF TrueScope, w
    <3>2. E \in SUBSET Spans /\ IsFiniteSet(E)
      BY <1>1 DEF TrueScope
    <3>3. MergesTo(m, E)
      BY <3>2, MergedIs DEF m
    <3>4. Intersects(m, y)
      BY <1>3, <2>1, <3>1, <3>2, <3>3, MetIsFound
    <3>. QED BY <2>4, <3>4
  <2>. QED BY <2>4, <2>5 DEF w
<1>4. ASSUME NEW cd \in Cities \X Dates
      PROVE  LET w == WindowOf(cd) IN
            \A s \in (w.start - 1)..w.end : \A e \in s..(w.end + 1) :
                Keeps(Loaded, [city |-> cd[1], date |-> cd[2], start |-> s, end |-> e]) =>
                    /\ w.start <= s /\ e <= w.end
                    /\ ~\E x \in Unreadable : x.start < e /\ s < x.end
  <2>1. WindowOf(cd).start \in Int /\ WindowOf(cd).end \in Int
    BY WindowIs
  <2>2. \A s \in (WindowOf(cd).start - 1)..WindowOf(cd).end :
           \A e \in s..(WindowOf(cd).end + 1) : s \in Int /\ e \in Int /\ s <= e
    BY <2>1
  <2>. QED BY <1>3, <2>2
<1>. QED BY <1>4 DEF KeptAreReadable

\* The screen, as the loop that appends what it keeps.
Evidences == [city : Cities, date : Int, start : Int, end : Int]

LEMMA ScreenUnrolls ==
    ASSUME NEW scope, NEW offered \in Seq(Evidences)
    PROVE  \E f : /\ Screened(scope, offered) = f[Len(offered)] /\ f[0] = <<>>
                  /\ \A i \in 1..Len(offered) :
                        f[i] = IF Keeps(scope, offered[i]) THEN Append(f[i - 1], offered[i])
                               ELSE f[i - 1]
<1>. DEFINE X == Seq(Evidences)
            n == Len(offered)
            step == [i \in 1..n |->
                       [k \in X |-> IF Keeps(scope, offered[i]) THEN Append(k, offered[i]) ELSE k]]
            Loops(h) == h = [i \in 0..Len(offered) |->
                               IF i = 0 THEN <<>>
                               ELSE IF Keeps(scope, offered[i]) THEN Append(h[i - 1], offered[i])
                               ELSE h[i - 1]]
<1>1. n \in Nat /\ n = Len(offered) /\ \A i \in 1..n : offered[i] \in Evidences
  BY LenProperties, ElementOfSeq
<1>2. <<>> \in X
  BY EmptySeq
<1>3. step \in [1..n -> [X -> X]]
  <2>1. ASSUME NEW i \in 1..n, NEW k \in X PROVE Append(k, offered[i]) \in X
    BY <1>1, AppendProperties
  <2>. HIDE DEF X
  <2>. QED BY <2>1
<1>. HIDE DEF X, n, step
<1>4. PICK g \in [0..n -> X] : Unrolls(g, <<>>, step, n)
  BY <1>1, <1>2, <1>3, UnrollsExists
<1>5. ASSUME NEW i \in 0..n, i # 0
      PROVE  g[i] = IF Keeps(scope, offered[i]) THEN Append(g[i - 1], offered[i]) ELSE g[i - 1]
  <2>1. i \in 1..n /\ i - 1 \in 0..n
    BY <1>1, <1>5
  <2>2. g[i] = step[i][g[i - 1]] /\ g[i - 1] \in X
    BY <1>4, <2>1 DEF Unrolls
  <2>. QED BY <2>1, <2>2 DEF step
<1>6. Loops(g)
  BY <1>1, <1>4, <1>5 DEF Unrolls
<1>. DEFINE f == CHOOSE h : Loops(h)
<1>7. Screened(scope, offered) = f[Len(offered)]
  BY DEF Screened
<1>8. Loops(f)
  <2>. HIDE DEF Loops
  <2>. QED BY <1>6
<1>. HIDE DEF f
<1>9. f[0] = <<>>
  BY <1>1, <1>8
<1>10. ASSUME NEW i \in 1..n
       PROVE  f[i] = IF Keeps(scope, offered[i]) THEN Append(f[i - 1], offered[i]) ELSE f[i - 1]
  <2>1. i \in 0..Len(offered) /\ i # 0
    BY <1>1
  <2>. QED BY <1>8, <2>1
<1>. HIDE DEF Loops
<1>. QED BY <1>1, <1>7, <1>9, <1>10

\* The mask, as the loop that moves the cursor.
Moves(at, m, offered, kept) ==
    /\ m = [mask |-> [i \in 1..Len(offered) |-> at[i] > at[i - 1]],
            ok   |-> at[Len(offered)] = Len(kept) + 1]
    /\ at[0] = 1
    /\ \A i \in 1..Len(offered) :
          at[i] = IF at[i - 1] <= Len(kept) /\ kept[at[i - 1]] = offered[i]
                  THEN at[i - 1] + 1 ELSE at[i - 1]

LEMMA MaskUnrolls ==
    ASSUME NEW offered \in Seq(Evidences), NEW kept
    PROVE  \E at : Moves(at, KeepMask(offered, kept), offered, kept)
<1>. DEFINE n == Len(offered)
            step == [i \in 1..n |->
                       [c \in Int |-> IF c <= Len(kept) /\ kept[c] = offered[i] THEN c + 1 ELSE c]]
            Loops(h) == h = [i \in 0..Len(offered) |->
                               IF i = 0 THEN 1
                               ELSE IF h[i - 1] <= Len(kept) /\ kept[h[i - 1]] = offered[i]
                               THEN h[i - 1] + 1 ELSE h[i - 1]]
<1>1. n \in Nat /\ n = Len(offered)
  BY LenProperties
<1>. HIDE DEF n
<1>2. 1 \in Int
  OBVIOUS
<1>3. step \in [1..n -> [Int -> Int]]
  OBVIOUS
<1>. HIDE DEF step
<1>4. PICK g \in [0..n -> Int] : Unrolls(g, 1, step, n)
  BY <1>1, <1>2, <1>3, UnrollsExists
<1>5. ASSUME NEW i \in 0..n, i # 0
      PROVE  g[i] = IF g[i - 1] <= Len(kept) /\ kept[g[i - 1]] = offered[i] THEN g[i - 1] + 1
                    ELSE g[i - 1]
  <2>1. i \in 1..n /\ i - 1 \in 0..n
    BY <1>1, <1>5
  <2>2. g[i] = step[i][g[i - 1]] /\ g[i - 1] \in Int
    BY <1>4, <2>1 DEF Unrolls
  <2>. QED BY <2>1, <2>2 DEF step
<1>6. Loops(g)
  BY <1>1, <1>4, <1>5 DEF Unrolls
<1>. DEFINE f == CHOOSE h : Loops(h)
<1>7. KeepMask(offered, kept) = [mask |-> [i \in 1..Len(offered) |-> f[i] > f[i - 1]],
                                 ok   |-> f[Len(offered)] = Len(kept) + 1]
  BY DEF KeepMask
<1>8. Loops(f)
  <2>. HIDE DEF Loops
  <2>. QED BY <1>6
<1>. HIDE DEF f
<1>9. f[0] = 1
  BY <1>1, <1>8
<1>10. ASSUME NEW i \in 1..n
       PROVE  f[i] = IF f[i - 1] <= Len(kept) /\ kept[f[i - 1]] = offered[i]
                     THEN f[i - 1] + 1 ELSE f[i - 1]
  <2>1. i \in 0..Len(offered) /\ i # 0
    BY <1>1
  <2>. QED BY <1>8, <2>1
<1>. HIDE DEF Loops
<1>. QED BY <1>1, <1>7, <1>9, <1>10 DEF Moves

\* The cursor of keep_mask stands after what has been kept so far.
LEMMA MaskOfKept ==
    ASSUME NEW scope, NEW offered \in Seq(Evidences)
    PROVE  LET m == KeepMask(offered, Screened(scope, offered))
           IN  /\ m.ok
               /\ \A i \in DOMAIN offered : m.mask[i] = Keeps(scope, offered[i])
<1>. DEFINE n == Len(offered)
            K(i) == Keeps(scope, offered[i])
<1>1. n \in Nat /\ n = Len(offered) /\ DOMAIN offered = 1..n /\ \A i \in 1..n : offered[i] \in Evidences
  BY LenProperties, ElementOfSeq
<1>. PICK kept : kept = Screened(scope, offered)
  OBVIOUS
<1>. DEFINE m == KeepMask(offered, kept)
<1>2. PICK f : /\ kept = f[Len(offered)] /\ f[0] = <<>>
               /\ \A i \in 1..Len(offered) :
                     f[i] = IF Keeps(scope, offered[i]) THEN Append(f[i - 1], offered[i]) ELSE f[i - 1]
  BY ScreenUnrolls
<1>. HIDE DEF n
<1>3. PICK at : Moves(at, m, offered, kept)
  BY MaskUnrolls
<1>. HIDE DEF m
<1>3a. /\ m.mask = [i \in 1..Len(offered) |-> at[i] > at[i - 1]]
       /\ m.ok = (at[Len(offered)] = Len(kept) + 1)
       /\ at[0] = 1
       /\ \A i \in 1..Len(offered) :
             at[i] = IF at[i - 1] <= Len(kept) /\ kept[at[i - 1]] = offered[i]
                     THEN at[i - 1] + 1 ELSE at[i - 1]
  BY <1>3 DEF Moves
<1>4. \A i \in 1..n : i - 1 \in 0..n
  BY <1>1
<1>5. \A i \in 0..n : f[i] \in Seq(Evidences) /\ \A k \in 1..Len(f[i]) : Keeps(scope, f[i][k])
  <2>. DEFINE D == {i \in 0..n : f[i] \in Seq(Evidences) /\ \A k \in 1..Len(f[i]) : Keeps(scope, f[i][k])}
  <2>1. 0 \in D
    <3>1. f[0] \in Seq(Evidences) /\ Len(f[0]) = 0 /\ 0 \in 0..n
      BY <1>1, <1>2, EmptySeq
    <3>. QED BY <3>1
  <2>2. ASSUME NEW i \in 1..n, i - 1 \in D PROVE i \in D
    <3>. DEFINE s == f[i - 1]
    <3>1. s \in Seq(Evidences) /\ \A k \in 1..Len(s) : Keeps(scope, s[k])
      BY <2>2
    <3>2. f[i] = IF K(i) THEN Append(s, offered[i]) ELSE s
      BY <1>1, <1>2
    <3>. HIDE DEF s
    <3>3. /\ Append(s, offered[i]) \in Seq(Evidences)
          /\ Len(Append(s, offered[i])) = Len(s) + 1
          /\ \A k \in 1..Len(s) : Append(s, offered[i])[k] = s[k]
          /\ Append(s, offered[i])[Len(s) + 1] = offered[i]
          /\ Len(s) \in Nat
      BY <1>1, <3>1, AppendProperties, LenProperties
    <3>4. \A k \in 1..(Len(s) + 1) : k \in 1..Len(s) \/ k = Len(s) + 1
      BY <3>3
    <3>5. i \in 0..n
      BY <1>1
    <3>6. CASE K(i)
      BY <3>1, <3>2, <3>3, <3>4, <3>5, <3>6
    <3>7. CASE ~K(i)
      BY <3>1, <3>2, <3>5, <3>7
    <3>. QED BY <3>6, <3>7
  <2>. HIDE DEF D
  <2>3. \A i \in 0..n : i \in D
    BY <1>1, <2>1, <2>2, CountInduction
  <2>. QED BY <2>3 DEF D
\* What has been kept so far is the beginning of all that is.
<1>6. \A i \in 0..n : Len(f[i]) <= Len(kept) /\ \A k \in 1..Len(f[i]) : kept[k] = f[i][k]
  <2>. DEFINE Begins(s) == Len(s) <= Len(kept) /\ \A k \in 1..Len(s) : kept[k] = s[k]
              D == {j \in 0..n : Begins(f[n - j])}
  <2>1. Len(kept) \in Nat /\ kept = f[n]
    BY <1>1, <1>2, <1>5, LenProperties
  <2>2. 0 \in D
    <3>1. n - 0 = n /\ 0 \in 0..n
      BY <1>1
    <3>. QED BY <2>1, <3>1
  <2>3. ASSUME NEW j \in 1..n, j - 1 \in D PROVE j \in D
    <3>. DEFINE i == n - (j - 1)
                s == f[i - 1]
    <3>1. i \in 1..n /\ i - 1 = n - j /\ i - 1 \in 0..n
      BY <1>1
    <3>2. Begins(f[i])
      BY <2>3
    <3>3. f[i] = IF K(i) THEN Append(s, offered[i]) ELSE s
      BY <1>1, <1>2, <3>1
    <3>. HIDE DEF i
    <3>4. s \in Seq(Evidences)
      BY <1>5, <3>1
    <3>. HIDE DEF s
    <3>5. /\ Len(Append(s, offered[i])) = Len(s) + 1
          /\ \A k \in 1..Len(s) : Append(s, offered[i])[k] = s[k]
          /\ Len(s) \in Nat
      BY <1>1, <3>1, <3>4, AppendProperties, LenProperties
    <3>6. Begins(s)
      <4>1. CASE K(i)
        BY <2>1, <3>2, <3>3, <3>5, <4>1
      <4>2. CASE ~K(i)
        BY <3>2, <3>3, <4>2
      <4>. QED BY <4>1, <4>2
    <3>. QED BY <3>1, <3>6 DEF s
  <2>. HIDE DEF D, Begins
  <2>4. \A j \in 0..n : j \in D
    BY <1>1, <2>2, <2>3, CountInduction
  <2>5. \A i \in 0..n : n - i \in 0..n /\ n - (n - i) = i
    BY <1>1
  <2>6. \A i \in 0..n : Begins(f[n - (n - i)])
    BY <2>4, <2>5 DEF D
  <2>. QED BY <2>5, <2>6 DEF Begins
<1>7. Len(kept) \in Nat /\ kept = f[n] /\ \A k \in 1..Len(kept) : Keeps(scope, kept[k])
  <2>1. n \in 0..n /\ kept = f[n]
    BY <1>1, <1>2
  <2>. QED BY <1>5, <2>1, LenProperties
<1>8. \A i \in 0..n : at[i] = Len(f[i]) + 1
  <2>. DEFINE D == {i \in 0..n : at[i] = Len(f[i]) + 1}
  <2>1. 0 \in D
    BY <1>1, <1>2, <1>3a
  <2>2. ASSUME NEW i \in 1..n, i - 1 \in D PROVE i \in D
    <3>. DEFINE s == f[i - 1]
                c == at[i - 1]
    <3>1. c = Len(s) + 1
      BY <2>2
    <3>2. f[i] = IF K(i) THEN Append(s, offered[i]) ELSE s
      BY <1>1, <1>2
    <3>3. at[i] = IF c <= Len(kept) /\ kept[c] = offered[i] THEN c + 1 ELSE c
      BY <1>1, <1>3a
    <3>4. s \in Seq(Evidences)
      BY <1>4, <1>5
    <3>. HIDE DEF s, c
    <3>5. /\ Len(Append(s, offered[i])) = Len(s) + 1
          /\ Append(s, offered[i])[Len(s) + 1] = offered[i]
          /\ Len(s) \in Nat
      BY <1>1, <3>4, AppendProperties, LenProperties
    <3>6. i \in 0..n
      BY <1>1
    <3>7. CASE K(i)
      <4>1. Len(s) + 1 <= Len(kept) /\ kept[Len(s) + 1] = offered[i]
        BY <1>6, <3>2, <3>5, <3>6, <3>7
      <4>. QED BY <3>1, <3>2, <3>3, <3>5, <3>6, <3>7, <4>1
    <3>8. CASE ~K(i)
      <4>1. ~(c <= Len(kept) /\ kept[c] = offered[i])
        <5>. SUFFICES ASSUME c <= Len(kept), kept[c] = offered[i] PROVE FALSE
          OBVIOUS
        <5>1. c \in 1..Len(kept)
          BY <1>7, <3>1, <3>5
        <5>2. Keeps(scope, kept[c])
          BY <1>7, <5>1
        <5>. QED BY <3>8, <5>2
      <4>. QED BY <3>1, <3>2, <3>3, <3>6, <3>8, <4>1
    <3>. QED BY <3>7, <3>8
  <2>. HIDE DEF D
  <2>3. \A i \in 0..n : i \in D
    BY <1>1, <2>1, <2>2, CountInduction
  <2>. QED BY <2>3 DEF D
<1>9. m.ok
  <2>1. n \in 0..n
    BY <1>1
  <2>. QED BY <1>1, <1>3a, <1>7, <1>8, <2>1
<1>10. ASSUME NEW i \in DOMAIN offered PROVE m.mask[i] = Keeps(scope, offered[i])
  <2>. DEFINE s == f[i - 1]
  <2>1. i \in 1..n /\ i \in 0..n /\ i - 1 \in 0..n
    BY <1>1
  <2>2. m.mask[i] = (at[i] > at[i - 1])
    BY <1>1, <1>3a, <2>1
  <2>3. at[i] = Len(f[i]) + 1 /\ at[i - 1] = Len(s) + 1
    BY <1>8, <2>1
  <2>4. f[i] = IF K(i) THEN Append(s, offered[i]) ELSE s
    BY <1>1, <1>2, <2>1
  <2>5. s \in Seq(Evidences)
    BY <1>5, <2>1
  <2>. HIDE DEF s
  <2>6. Len(Append(s, offered[i])) = Len(s) + 1 /\ Len(s) \in Nat
    BY <1>1, <2>1, <2>5, AppendProperties, LenProperties
  <2>7. K(i) \in BOOLEAN
    BY DEF Keeps
  <2>8. (at[i] > at[i - 1]) <=> K(i)
    <3>1. CASE K(i)
      BY <2>3, <2>4, <2>6, <3>1
    <3>2. CASE ~K(i)
      BY <2>3, <2>4, <2>6, <3>2
    <3>. QED BY <3>1, <3>2
  <2>9. (at[i] > at[i - 1]) \in BOOLEAN
    BY <2>3, <2>6
  <2>. QED BY <2>2, <2>7, <2>8, <2>9
<1>. QED BY <1>9, <1>10 DEF m

\* For every tape, whatever the tool is asked for, wherever it is killed and
\* however often it runs: evidence that a study keeps can be read, the spans of
\* the event days are what can be read of them, and keep_mask finds the mask.
THEOREM ReadableScope == ScopeSpec => []ScopeIsReadable
<1>1. ScopeInit => ScopeInv
  BY ScopeStarts
<1>2. ScopeInv /\ [ScopeNext]_scopeVars => ScopeInv'
  BY ScopeStays
<1>3. ScopeInv => ScopeIsReadable
  <2>. SUFFICES ASSUME ScopeInv PROVE ScopeIsReadable
    OBVIOUS
  <2>1. KeptAreReadable
    BY KeptReadable DEF KeptAreReadable
  <2>2. SpansAddUp
    BY LoadedIsTrue DEF SpansAddUp, TrueScope
  <2>3. MaskIsRight
    <3>1. Offers \subseteq Seq(Evidences)
      BY ScopeTapesAssumption DEF Evidences
    <3>. QED BY <3>1, MaskOfKept DEF MaskIsRight
  <2>. QED BY <2>1, <2>2, <2>3 DEF ScopeIsReadable
<1>. QED BY <1>1, <1>2, <1>3, PTL DEF ScopeSpec

-----------------------------------------------------------------------------
(***************************************************************************)
(* The frozen scope                                                        *)
(***************************************************************************)

DiskInv == DOMAIN disk = FileNames

\* The three files that a study loads are among those that the tool writes.
LEMMA LoadedFiles == {"exclusions", "event_days", "split"} \subseteq FileNames
<1>1. /\ Files[1] = "exclusions" /\ Files[2] = "event_days" /\ Files[3] = "split"
      /\ {1, 2, 3} \subseteq DOMAIN Files
  BY DEF Files
<1> QED  BY <1>1 DEF FileNames

\* A step of the tool keeps every file that is there, the summary excepted.
LEMMA WholeFilesStay ==
    ASSUME DiskInv, ScopeNext, NEW f \in {"exclusions", "event_days", "split"},
           disk[f] # <<>>, f \notin torn
    PROVE  disk'[f] = disk[f] /\ f \notin torn'
<1>1. f \in DOMAIN disk
  BY LoadedFiles DEF DiskInv
<1>2. CASE Extension
  BY <1>2 DEF Extension
<1>3. ASSUME NEW opening \in Openings, NEW n \in Requests, Freeze(opening, n)
      PROVE  disk' = disk /\ torn' = torn
  BY <1>3 DEF Freeze
<1>4. CASE Write
  <2>1. CASE disk[NextFile] = <<>> \/ NextFile = "summary"
    <3>1. NextFile # f
      BY <2>1
    <3>2. disk' = [disk EXCEPT ![NextFile] = <<Head(job)>>] /\ torn' = torn
      BY <1>4, <2>1 DEF Write
    <3> QED  BY <1>1, <3>1, <3>2
  <2>2. CASE ~(disk[NextFile] = <<>> \/ NextFile = "summary")
    BY <1>4, <2>2 DEF Write
  <2> QED  BY <2>1, <2>2
<1>5. CASE KillTool
  <2>1. CASE UNCHANGED <<disk, torn>>
    BY <2>1
  <2>2. CASE /\ disk[NextFile] = <<>>
             /\ disk' = [disk EXCEPT ![NextFile] = <<Head(job)>>]
             /\ torn' = torn \cup {NextFile}
    <3>1. NextFile # f
      BY <2>2
    <3> QED  BY <1>1, <2>2, <3>1
  <2> QED  BY <1>5, <2>1, <2>2 DEF KillTool
<1> QED  BY <1>2, <1>3, <1>4, <1>5 DEF ScopeNext

\* The tool writes its four files and no other.
LEMMA DiskStays == ASSUME DiskInv, [ScopeNext]_scopeVars PROVE DiskInv'
<1>1. CASE UNCHANGED scopeVars
  BY <1>1 DEF DiskInv, scopeVars
<1>2. CASE Extension
  BY <1>2 DEF DiskInv, Extension
<1>3. ASSUME NEW opening \in Openings, NEW n \in Requests, Freeze(opening, n)
      PROVE  DiskInv'
  BY <1>3 DEF DiskInv, Freeze
<1>4. CASE Write
  BY <1>4 DEF DiskInv, Write
<1>5. CASE KillTool
  BY <1>5 DEF DiskInv, KillTool
<1> QED  BY <1>1, <1>2, <1>3, <1>4, <1>5 DEF ScopeNext

\* For every tape, whatever the tool is asked for, and wherever it is killed:
\* once a study can load a scope, every later study loads the same scope.
THEOREM FrozenScope == ScopeSpec => ScopeIsFrozen
<1>1. ScopeInit => DiskInv
  BY DEF ScopeInit, DiskInv
<1>2. DiskInv /\ [ScopeNext]_scopeVars => DiskInv'
  BY DiskStays
<1>3. DiskInv /\ [ScopeNext]_scopeVars =>
        [Loadable => Loadable' /\ Loaded' = Loaded
                     /\ disk'["split"] = disk["split"]]_scopeVars
  <2> SUFFICES ASSUME DiskInv, ScopeNext, Loadable
               PROVE  Loadable' /\ Loaded' = Loaded /\ disk'["split"] = disk["split"]
    BY DEF scopeVars
  <2>1. \A f \in {"exclusions", "event_days", "split"} : disk[f] # <<>> /\ f \notin torn
    BY DEF Loadable
  <2>2. \A f \in {"exclusions", "event_days", "split"} : disk'[f] = disk[f] /\ f \notin torn'
    BY <2>1, WholeFilesStay
  <2>3. Loaded' = Loaded
    BY <2>2 DEF Loaded
  <2>4. Loadable'
    BY <2>1, <2>2 DEF Loadable, SideOf, InScope
  <2> QED  BY <2>2, <2>3, <2>4
<1> QED  BY <1>1, <1>2, <1>3, PTL DEF ScopeSpec, ScopeIsFrozen
=============================================================================
