----------------------------- MODULE StudiesProofs -----------------------------
(***************************************************************************)
(* What the strategies with their sizing, the data that decisions rest on, *)
(* the snapshots of the portfolio and the backtest promise for every value *)
(* of the constants.                                                       *)
(***************************************************************************)
EXTENDS Strategy, MarketData, Portfolio, Backtest, FoldProofs, TLAPS

-----------------------------------------------------------------------------
(***************************************************************************)
(* A stake fits what it was cut to                                         *)
(***************************************************************************)

Fits(i) ==
    /\ i.price \in Nat /\ i.contracts \in Nat
    /\ inMarket + i.price * i.contracts <= MarketCap
    /\ inEvent + i.price * i.contracts <= EventCap

FitInv ==
    /\ inMarket \in Nat /\ inEvent \in Nat
    /\ signal = <<>> \/ \E i : signal = <<i>> /\ Fits(i)

\* The least of three numbers is at most the second and the third.
LEMMA LeastOfThree ==
    ASSUME NEW x \in Int, NEW y \in Int, NEW z \in Int
    PROVE  Min({x, y, z}) \in Int /\ Min({x, y, z}) <= y /\ Min({x, y, z}) <= z
<1>1. \E m \in {x, y, z} : \A n \in {x, y, z} : m =< n
  <2>1. CASE x <= y /\ x <= z
    BY <2>1
  <2>2. CASE y <= x /\ y <= z
    BY <2>2
  <2>3. CASE z <= x /\ z <= y
    BY <2>3
  <2> QED  BY <2>1, <2>2, <2>3
<1> QED  BY <1>1 DEF Min

\* The least of two numbers is at most both.
LEMMA LeastOfTwo ==
    ASSUME NEW x \in Int, NEW y \in Int
    PROVE  Min({x, y}) \in Int /\ Min({x, y}) <= x /\ Min({x, y}) <= y
<1>1. \E m \in {x, y} : \A n \in {x, y} : m =< n
  OBVIOUS
<1> QED  BY <1>1 DEF Min

\* A number that is cut at zero.
LEMMA NotBelowZero ==
    ASSUME NEW x \in Int
    PROVE  Max({0, x}) \in Nat /\ (Max({0, x}) = 0 \/ Max({0, x}) = x)
<1>1. \E m \in {0, x} : \A n \in {0, x} : m >= n
  OBVIOUS
<1> QED  BY <1>1 DEF Max

\* What a budget buys costs no more than the budget.
LEMMA BoughtWithin ==
    ASSUME NEW budget \in Nat, NEW price \in Nat \ {0}, NEW n \in Nat, n <= budget \div price
    PROVE  price * n <= budget
<1>1. price * (budget \div price) <= budget
  BY SMT
<1>2. price * n <= price * (budget \div price)
  BY SMT
<1> QED  BY <1>1, <1>2, SMT

\* Both caps are whole dollars.
LEMMA CapsAreNumbers == MarketCap \in Nat /\ EventCap \in Nat
BY StrategyAssumption DEF MarketCap, EventCap

\* compute_stake_contracts: a stake of a contract or more costs no more than the
\* budget, and takes no more than half the depth.
LEMMA StakeIsLeast ==
    ASSUME NEW q, q.spread \in Nat, NEW edge \in Int, NEW room \in Int, NEW k \in Nat \ {0},
           NEW depth \in Nat, NEW price \in Nat, NEW left \in Int,
           NEW n, n = Stake(q, edge, room, k, depth, price, left), n >= 1
    PROVE  n \in Nat /\ price * n \in Nat /\ price * n <= left /\ n <= depth \div 2
<1> DEFINE shrunk == IF q.spread <= Median THEN edge * Bankroll
                     ELSE (edge * Median * Bankroll) \div q.spread
           kelly  == shrunk \div (k * (room * price))
           budget == Max({0, left})
<1>1. edge > 0 /\ room > 0 /\ price > 0 /\ n = Min({kelly, budget \div price, depth \div 2})
  <2>1. n = IF edge <= 0 \/ room <= 0 \/ room >= Dollar \/ price <= 0 THEN 0
            ELSE Min({kelly, budget \div price, depth \div 2})
    BY DEF Stake
  <2> HIDE DEF kelly, budget
  <2>2. Dollar = 1000
    BY DEF Dollar
  <2> QED  BY <2>1, <2>2
<1>2. kelly \in Int
  <2>1. Bankroll \in Nat /\ Median \in Nat
    BY StrategyAssumption
  <2>2. shrunk \in Int
    <3>1. CASE q.spread <= Median
      BY <2>1, <3>1
    <3>2. CASE ~(q.spread <= Median)
      <4>1. edge * Median * Bankroll \in Int
        BY <2>1
      <4>2. q.spread > 0
        BY <2>1, <3>2
      <4> QED  BY <3>2, <4>1, <4>2
    <3> QED  BY <3>1, <3>2
  <2>3. room * price \in Int /\ room * price > 0
    BY <1>1
  <2>4. k * (room * price) \in Int /\ k * (room * price) > 0
    <3>1. \A x \in Int : x > 0 => k * x \in Int /\ k * x > 0
      BY SMT
    <3> QED  BY <2>3, <3>1
  <2> HIDE DEF shrunk
  <2>5. \A x \in Int, y \in Int : y > 0 => x \div y \in Int
    OBVIOUS
  <2> QED  BY <2>2, <2>4, <2>5
<1>3. budget \in Nat /\ (budget = 0 \/ budget = left)
  BY NotBelowZero
<1> HIDE DEF kelly, budget
<1>4. budget \div price \in Int /\ depth \div 2 \in Int
  BY <1>1, <1>3
<1>5. n \in Nat /\ n <= budget \div price /\ n <= depth \div 2
  <2>1. n \in Int /\ n <= budget \div price /\ n <= depth \div 2
    BY <1>1, <1>2, <1>4, LeastOfThree, Zenon
  <2> QED  BY <2>1
<1>6. price * n <= budget
  BY <1>1, <1>3, <1>5, BoughtWithin
<1>7. price * n \in Nat /\ price * n >= 1
  BY <1>1, <1>5, SMT
<1>8. budget = left
  BY <1>3, <1>6, <1>7
<1> QED  BY <1>5, <1>6, <1>7, <1>8

\* What is left of the budgets is left of both.
LEMMA BothBudgets ==
    ASSUME inMarket \in Nat, inEvent \in Nat
    PROVE  BudgetLeft \in Int /\ BudgetLeft <= EventCap - inEvent /\ BudgetLeft <= MarketCap - inMarket
<1>1. EventCap - inEvent \in Int /\ MarketCap - inMarket \in Int
  BY CapsAreNumbers
<1> QED  BY <1>1, LeastOfTwo DEF BudgetLeft

\* What the range of a price says in arithmetic.
LEMMA InRange ==
    /\ Dollar \in Nat
    /\ \A x : x \in 0..Dollar => x \in Int /\ 0 <= x /\ x <= Dollar
BY DEF Dollar

\* Every intent that a cycle builds fits, at the price that the gates charge.
LEMMA IntentFits ==
    ASSUME inMarket \in Nat, inEvent \in Nat, NEW q \in Quotes, NEW i \in BuildIntents(q, BudgetLeft)
    PROVE  Fits(i)
<1>1. /\ q.bid \in 0..Dollar /\ q.noBid \in 0..Dollar /\ q.fair \in 0..Dollar
      /\ q.bidDepth \in Nat /\ q.noDepth \in Nat /\ q.spread \in Nat
  BY StrategyAssumption
<1>range. /\ q.bid \in Int /\ 0 <= q.bid /\ q.bid <= Dollar
      /\ q.noBid \in Int /\ 0 <= q.noBid /\ q.noBid <= Dollar
      /\ q.fair \in Int
  BY <1>1, InRange, Zenon
<1>2. PICK s \in {"buy_yes", "sell_yes"}, k \in {4, 20} :
        i = Intent(q, s, k, BudgetLeft) /\ i.contracts >= 1
  <2>1. EdgeSides(q) \subseteq {"buy_yes", "sell_yes"}
    BY DEF EdgeSides
  <2>2. TailsSides(q) \subseteq {"buy_yes", "sell_yes"}
    BY DEF TailsSides
  <2> QED  BY <2>1, <2>2 DEF BuildIntents
<1> DEFINE edge  == IF s = "buy_yes" THEN q.fair - YesAsk(q) ELSE q.bid - q.fair
           room  == IF s = "buy_yes" THEN Dollar - YesAsk(q) ELSE q.bid
           depth == IF s = "buy_yes" THEN q.noDepth ELSE q.bidDepth
           price == SizingPrice(q, s)
<1>3. i.contracts = Stake(q, edge, room, k, depth, price, BudgetLeft) /\ i.price = price
  BY <1>2 DEF Intent, SizingPrice
<1>4. edge \in Int /\ room \in Int /\ depth \in Nat /\ price \in Nat
  <2>1. YesAsk(q) \in Nat /\ NoAsk(q) \in Nat /\ Dollar - YesAsk(q) \in Int
    BY <1>range, InRange DEF YesAsk, NoAsk
  <2>2. edge \in Int /\ room \in Int
    <3>1. q.fair - YesAsk(q) \in Int /\ q.bid - q.fair \in Int /\ q.bid \in Int
      BY <1>range, <2>1
    <3> QED  BY <2>1, <3>1
  <2>3. depth \in Nat /\ price \in Nat
    BY <1>1, <2>1 DEF SizingPrice
  <2> QED  BY <2>2, <2>3
<1> HIDE DEF edge, room, depth, price
<1>5. k \in Nat \ {0}
  BY <1>2
<1>6. /\ i.contracts \in Nat
      /\ inMarket + price * i.contracts <= MarketCap
      /\ inEvent + price * i.contracts <= EventCap
  <2> DEFINE left == BudgetLeft
             cost == price * i.contracts
  <2>1. left \in Int /\ left <= EventCap - inEvent /\ left <= MarketCap - inMarket
    BY BothBudgets
  <2>2. i.contracts \in Nat /\ cost \in Nat /\ cost <= left
    <3>1. i.contracts = Stake(q, edge, room, k, depth, price, BudgetLeft) /\ i.contracts >= 1
      BY <1>2, <1>3
    <3> HIDE DEF left
    <3>2. BudgetLeft \in Int
      BY <2>1 DEF left
    <3>3. /\ i.contracts \in Nat /\ price * i.contracts \in Nat
          /\ price * i.contracts <= BudgetLeft
      BY <1>1, <1>4, <1>5, <3>1, <3>2, StakeIsLeast
    <3> QED  BY <3>3 DEF left
  <2> HIDE DEF left, cost
  <2>3. inMarket + cost <= MarketCap /\ inEvent + cost <= EventCap
    BY <2>1, <2>2, CapsAreNumbers
  <2> QED  BY <2>2, <2>3 DEF cost
<1> QED  BY <1>3, <1>4, <1>6 DEF Fits

\* The fee of a contract is highest at half a dollar, where it is two cents.
LEMMA FeeIsBounded ==
    ASSUME NEW p \in 0..Dollar
    PROVE  TakerFee(1, p) \in Int /\ TakerFee(1, p) <= 20
<1>1. p \in Int /\ Dollar = 1000
  BY DEF Dollar
<1>2. \A x \in Int : x * x >= 0
  BY SMT
<1>3. (p - 500) * (p - 500) >= 0
  BY <1>1, <1>2
<1>4. p * (1000 - p) \in Int /\ p * (1000 - p) <= 250000
  <2>1. (p - 500) * (p - 500) = 250000 - p * (1000 - p)
    BY <1>1, SMT
  <2>2. p * (1000 - p) \in Int
    BY <1>1
  <2> QED  BY <1>3, <2>1, <2>2
<1> DEFINE m == p * (1000 - p)
<1>5. 7 * 1 * p * (1000 - p) = 7 * m
  BY <1>1, SMT
<1> HIDE DEF m
<1>6. m \in Int /\ m <= 250000
  BY <1>4 DEF m
<1>7. (7 * m + 999999) \div 1000000 \in Int /\ (7 * m + 999999) \div 1000000 <= 2
  BY <1>6
<1> QED  BY <1>1, <1>5, <1>7 DEF TakerFee

\* An order within the depth moves nothing, so that it pays the fee and half a tick.
LEMMA WithinDepth ==
    ASSUME NEW p \in 0..Dollar, NEW depth \in Nat, NEW n \in Nat, n <= depth
    PROVE  RequiredEdge(p, depth, n) \in Int /\ RequiredEdge(p, depth, n) <= 25
<1>1. RequiredEdge(p, depth, n) = TakerFee(1, p) + HalfTick + 0
  BY DEF RequiredEdge
<1> QED  BY <1>1, FeeIsBounded DEF HalfTick

\* What the other side leaves of a dollar.
LEMMA AskInRange == \A x \in 0..Dollar : Dollar - x \in 0..Dollar
BY DEF Dollar

\* Both strategies ask for more than that.
LEMMA EdgeSurvives ==
    ASSUME NEW q \in Quotes, NEW budget \in Int, NEW i \in BuildIntents(q, budget)
    PROVE  i.edge >= RequiredEdge(i.price, i.depth, i.contracts)
<1>1. /\ q.bid \in 0..Dollar /\ q.noBid \in 0..Dollar /\ q.fair \in 0..Dollar
      /\ q.bidDepth \in Nat /\ q.noDepth \in Nat /\ q.spread \in Nat
  BY StrategyAssumption
<1>2. /\ Dollar = 1000 /\ q.bid \in Int /\ q.bid <= 1000 /\ q.bid >= 0
      /\ q.noBid \in Int /\ q.noBid <= 1000 /\ q.noBid >= 0 /\ q.fair \in Int
  <2>1. /\ q.bid \in Int /\ q.bid <= Dollar /\ 0 <= q.bid
        /\ q.noBid \in Int /\ q.noBid <= Dollar /\ 0 <= q.noBid /\ q.fair \in Int
    BY <1>1, InRange, Zenon
  <2> QED  BY <2>1 DEF Dollar
<1>3. PICK s \in {"buy_yes", "sell_yes"}, k \in {4, 20} :
        /\ i = Intent(q, s, k, budget) /\ i.contracts >= 1
        /\ s \in EdgeSides(q) \/ s \in TailsSides(q)
  <2>1. EdgeSides(q) \subseteq {"buy_yes", "sell_yes"}
    BY DEF EdgeSides
  <2>2. TailsSides(q) \subseteq {"buy_yes", "sell_yes"}
    BY DEF TailsSides
  <2> QED  BY <2>1, <2>2 DEF BuildIntents
<1> DEFINE edge  == IF s = "buy_yes" THEN q.fair - YesAsk(q) ELSE q.bid - q.fair
           price == IF s = "buy_yes" THEN YesAsk(q) ELSE NoAsk(q)
           depth == IF s = "buy_yes" THEN q.noDepth ELSE q.bidDepth
           room  == IF s = "buy_yes" THEN Dollar - YesAsk(q) ELSE q.bid
<1>4. /\ i.edge = edge /\ i.price = price /\ i.depth = depth
      /\ i.contracts = Stake(q, edge, room, k, depth, SizingPrice(q, s), budget)
  BY <1>3 DEF Intent
<1>5. edge \in Int /\ edge >= 26
  <2>1. CASE s \in EdgeSides(q)
    <3>1. s = "buy_yes" => q.fair > YesAsk(q) + DirectionCushion
      BY <2>1 DEF EdgeSides
    <3>2. s = "sell_yes" => q.fair < q.bid - DirectionCushion
      BY <2>1 DEF EdgeSides
    <3> QED  BY <1>2, <3>1, <3>2 DEF DirectionCushion, YesAsk
  <2>2. CASE s \in TailsSides(q)
    <3>1. s = "sell_yes" /\ q.bid >= YesBidFloor /\ q.fair < FairThreshold
      BY <2>2 DEF TailsSides
    <3> QED  BY <1>2, <3>1 DEF YesBidFloor, FairThreshold
  <2> QED  BY <1>3, <2>1, <2>2
<1>6. price \in 0..Dollar /\ depth \in Nat /\ room \in Int /\ SizingPrice(q, s) \in Nat
  <2>1. YesAsk(q) \in 0..Dollar /\ NoAsk(q) \in 0..Dollar
    BY <1>1, AskInRange, Zenon DEF YesAsk, NoAsk
  <2>2. YesAsk(q) \in Nat /\ NoAsk(q) \in Nat /\ Dollar - YesAsk(q) \in Int
    <3>1. YesAsk(q) = Dollar - q.noBid /\ NoAsk(q) = Dollar - q.bid
      BY DEF YesAsk, NoAsk
    <3> QED BY <1>2, <3>1
  <2>3. price \in 0..Dollar
    BY <2>1
  <2>4. room \in Int
    BY <1>2, <2>2
  <2>5. SizingPrice(q, s) \in Nat
    BY <2>2 DEF SizingPrice
  <2> QED  BY <1>1, <2>3, <2>4, <2>5
<1>7. i.contracts \in Nat /\ i.contracts <= depth
  <2> HIDE DEF edge, depth, room
  <2>1. k \in Nat \ {0} /\ q.spread \in Nat /\ i.contracts >= 1
    BY <1>1, <1>3
  <2>2. i.contracts \in Nat /\ i.contracts <= depth \div 2
    <3>1. /\ edge \in Int /\ room \in Int /\ depth \in Nat /\ SizingPrice(q, s) \in Nat
          /\ budget \in Int
          /\ i.contracts = Stake(q, edge, room, k, depth, SizingPrice(q, s), budget)
      BY <1>4, <1>5, <1>6
    <3> QED BY <2>1, <3>1, StakeIsLeast, Zenon
  <2> QED  BY <1>6, <2>2
<1> HIDE DEF edge, price, depth
<1>8. RequiredEdge(price, depth, i.contracts) <= 25
      /\ RequiredEdge(price, depth, i.contracts) \in Int
  BY <1>6, <1>7, WithinDepth
<1> QED  BY <1>4, <1>5, <1>8

\* Every step leaves the intent that waits fitting what is held.
LEMMA FitStays == ASSUME FitInv, [StrategyNext]_strategyVars PROVE FitInv'
<1>1. ASSUME NEW q \in Quotes, BuildOn(q) PROVE FitInv'
  <2>1. PICK i \in BuildIntents(q, BudgetLeft) : signal' = <<i>>
    BY <1>1 DEF BuildOn
  <2>2. Fits(i)
    BY IntentFits DEF FitInv
  <2>3. inMarket' = inMarket /\ inEvent' = inEvent
    BY <1>1 DEF BuildOn
  <2> QED  BY <2>1, <2>2, <2>3 DEF FitInv, Fits
<1>2. ASSUME NEW n, FillIntent(n) PROVE FitInv'
  <2>1. PICK i : signal = <<i>> /\ Fits(i)
    BY <1>2 DEF FitInv, FillIntent
  <2>2. /\ n \in 1..i.contracts /\ signal' = <<>>
        /\ inMarket' = inMarket + i.price * n /\ inEvent' = inEvent + i.price * n
    BY <1>2, <2>1 DEF FillIntent
  <2>3. i.price * n \in Nat
    BY <2>1, <2>2 DEF Fits
  <2> QED  BY <2>2, <2>3 DEF FitInv
<1>3. CASE DropIntent
  BY <1>3 DEF DropIntent, FitInv
<1>4. CASE UNCHANGED strategyVars
  BY <1>4 DEF strategyVars, FitInv, Fits
<1> QED  BY <1>1, <1>2, <1>3, <1>4 DEF StrategyNext

\* For every bankroll, every set of books and fair values, and any run of whole
\* and partial fills, a stake fits under the caps of its market and its event.
THEOREM StakesFitTheirBudgets == StrategySpec => []SignalsFitTheirBudgets
<1>1. StrategyInit => FitInv
  BY StrategyAssumption DEF StrategyInit, FitInv
<1>2. FitInv /\ [StrategyNext]_strategyVars => FitInv'
  BY FitStays
<1>3. FitInv => SignalsFitTheirBudgets
  BY DEF FitInv, Fits, SignalsFitTheirBudgets
<1> QED  BY <1>1, <1>2, <1>3, PTL DEF StrategySpec

\* For every book and fair value the stake that a strategy has sized pays its
\* friction: the gate never turns it down for its edge.
THEOREM SignalsPayTheirWay == StrategySpec => []SignalsSurviveFriction
<1>1. StrategyInit => FitInv /\ SignalsSurviveFriction
  BY StrategyAssumption DEF StrategyInit, FitInv, SignalsSurviveFriction
<1>2. FitInv /\ [StrategyNext]_strategyVars => FitInv'
  BY FitStays
<1>3. FitInv /\ SignalsSurviveFriction /\ [StrategyNext]_strategyVars => SignalsSurviveFriction'
  <2> SUFFICES ASSUME FitInv, SignalsSurviveFriction, [StrategyNext]_strategyVars
               PROVE  SignalsSurviveFriction'
    OBVIOUS
  <2>1. ASSUME NEW q \in Quotes, BuildOn(q) PROVE SignalsSurviveFriction'
    <3>1. PICK i \in BuildIntents(q, BudgetLeft) : signal' = <<i>>
      BY <2>1 DEF BuildOn
    <3>2. i.edge >= RequiredEdge(i.price, i.depth, i.contracts)
      BY BothBudgets, EdgeSurvives DEF FitInv
    <3> QED  BY <3>1, <3>2 DEF SignalsSurviveFriction
  <2>2. CASE signal' = <<>>
    BY <2>2 DEF SignalsSurviveFriction
  <2>3. CASE UNCHANGED strategyVars
    BY <2>3 DEF strategyVars, SignalsSurviveFriction
  <2> QED  BY <2>1, <2>2, <2>3 DEF StrategyNext, FillIntent, DropIntent
<1> QED  BY <1>1, <1>2, <1>3, PTL DEF StrategySpec

-----------------------------------------------------------------------------
(***************************************************************************)
(* What a decision rests on has its rows                                   *)
(***************************************************************************)

\* The market of a book and the book are in the database, or a commit that
\* failed took the book back.
HasBookRow(S, L, t, b) ==
    /\ t \in S.markets \/ <<t, b>> \in L
    /\ <<t, b>> \in S.books \cup L

\* The run of a forecast is in the database, or was taken back.
HasRunRow(S, L, key, r) == <<key, r>> \in S.forecasts \cup L

\* A market that has left its series is one that a failed round left in the memory.
Offered(t, G, L) == t \in G => t \in L

\* The memory is only ahead of the database by what was taken back, and of the
\* listings by what failed rounds left in it; what was planned had its rows,
\* whatever has become of the memory since.
CacheInv ==
    /\ \A t \in DOMAIN cache.books :
          Offered(t, gone, lingering) /\ HasBookRow(stored, rolledBack, t, cache.books[t])
    /\ \A key \in DOMAIN cache.runs : HasRunRow(stored, rolledBack, key, cache.runs[key])

PlanInv ==
    /\ pending # {} => trading = "demo"
    /\ \A p \in pending : /\ HasBookRow(stored, rolledBack, p.market, p.book)
                          /\ HasRunRow(stored, rolledBack, KeyOf(p.market), p.run)

\* The rows of a book are written with those of its market.
TablesInv ==
    /\ trading \in {"paper", "demo"}
    /\ cache = [books |-> cache.books, runs |-> cache.runs]
    /\ stored = [markets |-> stored.markets, books |-> stored.books, forecasts |-> stored.forecasts]
    /\ \A t, b : <<t, b>> \in stored.books => t \in stored.markets

GroundInv == TablesInv /\ CacheInv /\ PlanInv

\* A round that is saved writes the rows of its books with those of their markets.
LEMMA SaveTables == ASSUME TablesInv, NEW ok \in BOOLEAN, SaveSeries(ok) PROVE TablesInv'
<1> DEFINE seen == DOMAIN round.pairs
           kept == Restrict(round.pairs, seen \ Odd)
           rows == {<<t, kept[t]>> : t \in DOMAIN kept}
<1>1. trading' = trading /\ cache' = [books |-> cache'.books, runs |-> cache.runs]
  BY DEF SaveSeries, TablesInv
<1>2. CASE ok
  <2>1. stored' = [stored EXCEPT !.markets = @ \cup DOMAIN kept, !.books = @ \cup rows]
    BY <1>2 DEF SaveSeries
  <2> HIDE DEF kept
  <2>2. \A t, b : <<t, b>> \in rows => t \in DOMAIN kept
    OBVIOUS
  <2> HIDE DEF rows
  <2> QED  BY <1>1, <2>1, <2>2 DEF TablesInv
<1>3. CASE ~ok
  BY <1>1, <1>3 DEF SaveSeries, TablesInv
<1> QED  BY <1>2, <1>3

\* Only the commits of the two refreshes write tables.
LEMMA TablesStay == ASSUME TablesInv, [MarketDataNext]_marketVars PROVE TablesInv'
<1>1. ASSUME NEW hours \in HoursServed, NEW ok \in BOOLEAN, PersistForecast(hours, ok)
      PROVE  TablesInv'
  BY <1>1 DEF PersistForecast, TablesInv
<1>2. CASE \E ok \in BOOLEAN : SaveSeries(ok)
  BY <1>2, SaveTables
<1>3. CASE RunAgain
  BY <1>3 DEF RunAgain, TablesInv, App
<1>4. CASE UNCHANGED <<trading, cache, stored>>
  BY <1>4 DEF TablesInv
<1> QED
  BY <1>1, <1>2, <1>3, <1>4
  DEF MarketDataNext, marketVars, StartForecasts, ForecastFails, StartRound, ListingFails, RoundBreaks,
      ListMarkets, FetchBook, EvaluateMarkets, PlaceOrder, Minute

\* A row that is written or taken back remains so.
LEMMA RowsStay ==
    ASSUME TablesInv, [MarketDataNext]_marketVars
    PROVE  /\ stored.markets \subseteq stored'.markets
           /\ stored.books \subseteq stored'.books
           /\ stored.forecasts \subseteq stored'.forecasts
           /\ rolledBack \subseteq rolledBack'
<1>1. ASSUME NEW hours \in HoursServed, NEW ok \in BOOLEAN, PersistForecast(hours, ok)
      PROVE  /\ stored.markets \subseteq stored'.markets
             /\ stored.books \subseteq stored'.books
             /\ stored.forecasts \subseteq stored'.forecasts
             /\ rolledBack \subseteq rolledBack'
  BY <1>1 DEF PersistForecast, TablesInv
<1>2. ASSUME NEW ok \in BOOLEAN, SaveSeries(ok)
      PROVE  /\ stored.markets \subseteq stored'.markets
             /\ stored.books \subseteq stored'.books
             /\ stored.forecasts \subseteq stored'.forecasts
             /\ rolledBack \subseteq rolledBack'
  <2> DEFINE kept == Restrict(round.pairs, (DOMAIN round.pairs) \ Odd)
             rows == {<<t, kept[t]>> : t \in DOMAIN kept}
  <2>1. CASE ok
    <3>1. /\ stored' = [stored EXCEPT !.markets = @ \cup DOMAIN kept, !.books = @ \cup rows]
          /\ rolledBack' = rolledBack
      BY <1>2, <2>1 DEF SaveSeries
    <3> HIDE DEF kept, rows
    <3> QED  BY <3>1 DEF TablesInv
  <2>2. CASE ~ok
    <3>1. rolledBack' = rolledBack \cup (rows \ stored.books) /\ stored' = stored
      BY <1>2, <2>2 DEF SaveSeries
    <3> QED  BY <3>1
  <2> QED  BY <2>1, <2>2
<1>3. CASE UNCHANGED <<stored, rolledBack>>
  BY <1>3
<1> QED
  BY <1>1, <1>2, <1>3
  DEF MarketDataNext, marketVars, StartForecasts, ForecastFails, StartRound, ListingFails, RoundBreaks,
      ListMarkets, FetchBook, EvaluateMarkets, PlaceOrder, Minute, RunAgain

\* So what had its rows has them after any step.
LEMMA HadItsRows ==
    ASSUME TablesInv, [MarketDataNext]_marketVars
    PROVE  /\ \A t, b : HasBookRow(stored, rolledBack, t, b) => HasBookRow(stored', rolledBack', t, b)
           /\ \A key, r : HasRunRow(stored, rolledBack, key, r) => HasRunRow(stored', rolledBack', key, r)
<1>1. /\ stored.markets \subseteq stored'.markets
      /\ stored.books \subseteq stored'.books
      /\ stored.forecasts \subseteq stored'.forecasts
      /\ rolledBack \subseteq rolledBack'
  BY RowsStay
<1> QED  BY <1>1 DEF HasBookRow, HasRunRow

\* A station's answer reaches the memory with its rows, or with those that its
\* commit took back.
LEMMA PersistKeepsCache ==
    ASSUME TablesInv, CacheInv, NEW hours \in HoursServed, NEW ok \in BOOLEAN, PersistForecast(hours, ok)
    PROVE  CacheInv'
<1> DEFINE f    == Head(forecast)
           keys == {f.series} \X DaysCovered(hours)
           rows == {<<key, f.run>> : key \in keys}
           new  == [key \in keys |-> f.run]
<1>1. /\ cache' = [cache EXCEPT !.runs = Updated(@, new)] /\ gone' = gone /\ lingering' = lingering
      /\ \/ stored' = [stored EXCEPT !.forecasts = @ \cup rows] /\ rolledBack' = rolledBack
         \/ stored' = stored /\ rolledBack' = rolledBack \cup (rows \ stored.forecasts)
  BY DEF PersistForecast
<1>2. \A t \in DOMAIN cache'.books :
         Offered(t, gone', lingering') /\ HasBookRow(stored', rolledBack', t, cache'.books[t])
  <2>1. cache'.books = cache.books /\ stored'.books = stored.books /\ stored'.markets = stored.markets
        /\ rolledBack \subseteq rolledBack'
    <3> HIDE DEF rows, new
    <3> QED  BY <1>1 DEF TablesInv
  <2> QED  BY <1>1, <2>1 DEF CacheInv, HasBookRow
<1>3. ASSUME NEW key \in DOMAIN cache'.runs PROVE HasRunRow(stored', rolledBack', key, cache'.runs[key])
  <2>1. /\ cache'.runs = Updated(cache.runs, new)
        /\ stored'.forecasts \cup rolledBack' = stored.forecasts \cup rolledBack \cup rows
    <3> HIDE DEF rows, new
    <3> QED  BY <1>1 DEF TablesInv
  <2>2. CASE key \in keys
    <3>1. cache'.runs[key] = f.run /\ <<key, f.run>> \in rows
      BY <1>3, <2>1, <2>2 DEF Updated
    <3> QED  BY <2>1, <3>1 DEF HasRunRow
  <2>3. CASE key \notin keys
    <3>1. key \in DOMAIN cache.runs /\ cache'.runs[key] = cache.runs[key]
      BY <1>3, <2>1, <2>3 DEF Updated
    <3> HIDE DEF rows
    <3> QED  BY <2>1, <3>1 DEF HasRunRow, CacheInv
  <2> QED  BY <2>2, <2>3
<1> QED  BY <1>2, <1>3 DEF CacheInv

\* A round that is saved puts into the memory what it has written or lost, and
\* forgets what it did not see; a round that fails forgets nothing, and what it
\* was not shown lingers.
LEMMA SaveKeepsCache ==
    ASSUME TablesInv, CacheInv, NEW ok \in BOOLEAN, SaveSeries(ok)
    PROVE  CacheInv'
<1> DEFINE seen   == DOMAIN round.pairs
           kept   == Restrict(round.pairs, seen \ Odd)
           rows   == {<<t, kept[t]>> : t \in DOMAIN kept}
           missed == Listable(Head(round.todo)) \ seen
           known  == Updated(cache.books, kept)
<1>1. DOMAIN kept \subseteq seen /\ \A t \in DOMAIN kept : <<t, kept[t]>> \in rows
  BY DEF Restrict
<1>2. DOMAIN known = DOMAIN cache.books \cup DOMAIN kept
      /\ \A t \in DOMAIN known : known[t] = IF t \in DOMAIN kept THEN kept[t] ELSE cache.books[t]
  BY DEF Updated
<1>3. \/ /\ stored' = [stored EXCEPT !.markets = @ \cup DOMAIN kept, !.books = @ \cup rows]
         /\ cache' = [cache EXCEPT !.books = Restrict(known, DOMAIN known \ missed)]
         /\ rolledBack' = rolledBack
      \/ /\ stored' = stored /\ cache' = [cache EXCEPT !.books = known]
         /\ rolledBack' = rolledBack \cup (rows \ stored.books)
  BY DEF SaveSeries
<1>m. ListingShows(seen, missed, DOMAIN cache'.books)
  BY DEF SaveSeries
<1> HIDE DEF seen, kept, rows, missed, known
<1>4. /\ cache'.runs = cache.runs /\ stored'.forecasts = stored.forecasts
      /\ rolledBack \subseteq rolledBack'
      /\ stored.markets \subseteq stored'.markets /\ stored.books \subseteq stored'.books
  BY <1>3 DEF TablesInv
<1>5. /\ DOMAIN cache'.books \subseteq DOMAIN known
      /\ \A t \in DOMAIN cache'.books : cache'.books[t] = known[t]
  <2>1. CASE cache' = [cache EXCEPT !.books = known]
    BY <2>1 DEF TablesInv
  <2>2. CASE cache' = [cache EXCEPT !.books = Restrict(known, DOMAIN known \ missed)]
    <3>1. cache'.books = Restrict(known, DOMAIN known \ missed)
      BY <2>2 DEF TablesInv
    <3> QED  BY <3>1 DEF Restrict
  <2> QED  BY <1>3, <2>1, <2>2
<1>6. \A t \in DOMAIN kept : HasBookRow(stored', rolledBack', t, kept[t])
  <2> TAKE t \in DOMAIN kept
  <2>1. CASE stored' = [stored EXCEPT !.markets = @ \cup DOMAIN kept, !.books = @ \cup rows]
    <3>1. stored'.markets = stored.markets \cup DOMAIN kept /\ stored'.books = stored.books \cup rows
      BY <2>1 DEF TablesInv
    <3> QED  BY <1>1, <3>1 DEF HasBookRow
  <2>2. CASE stored' = stored /\ rolledBack' = rolledBack \cup (rows \ stored.books)
    BY <1>1, <2>2 DEF HasBookRow, TablesInv
  <2> QED  BY <1>3, <2>1, <2>2
<1>7. \A t \in DOMAIN cache.books : HasBookRow(stored', rolledBack', t, cache.books[t])
  BY <1>4 DEF CacheInv, HasBookRow
<1>8. ASSUME NEW t \in DOMAIN cache'.books
      PROVE  Offered(t, gone', lingering') /\ HasBookRow(stored', rolledBack', t, cache'.books[t])
  <2>1. t \in DOMAIN known /\ cache'.books[t] = known[t]
    BY <1>5
  <2>2. CASE t \in DOMAIN kept
    <3>1. Offered(t, gone', lingering')
      BY <1>1, <1>m, <1>8, <2>2 DEF ListingShows, Offered
    <3> QED  BY <1>2, <1>6, <2>1, <2>2, <3>1
  <2>3. CASE t \notin DOMAIN kept
    <3>1. t \in DOMAIN cache.books /\ cache'.books[t] = cache.books[t]
      BY <1>2, <2>1, <2>3
    <3>2. Offered(t, gone, lingering)
      BY <3>1 DEF CacheInv
    <3>3. Offered(t, gone', lingering')
      BY <1>m, <1>8, <3>2 DEF ListingShows, Offered
    <3> QED  BY <1>7, <3>1, <3>3
  <2> QED  BY <2>2, <2>3
<1> QED  BY <1>4, <1>8 DEF CacheInv, HasRunRow

\* No other step adds to the memory.
LEMMA CacheStays ==
    ASSUME TablesInv, CacheInv, [MarketDataNext]_marketVars
    PROVE  CacheInv'
<1>1. CASE \E hours \in HoursServed, ok \in BOOLEAN : PersistForecast(hours, ok)
  BY <1>1, PersistKeepsCache
<1>2. CASE \E ok \in BOOLEAN : SaveSeries(ok)
  BY <1>2, SaveKeepsCache
<1>3. CASE RunAgain
  BY <1>3 DEF RunAgain, CacheInv, App
<1>4. CASE UNCHANGED <<cache, stored, rolledBack, gone, lingering>>
  BY <1>4 DEF CacheInv, Offered, HasBookRow, HasRunRow
<1>5. CASE RoundBreaks
  <2>1. UNCHANGED <<cache, stored, rolledBack>>
    BY <1>5 DEF RoundBreaks
  <2>2. \A t \in DOMAIN cache.books : Offered(t, gone', lingering')
    <3> DEFINE seen   == DOMAIN round.pairs \cup round.left
               missed == Listable(Head(round.todo)) \ seen
    <3>1. ListingShows(seen, missed, DOMAIN cache.books) \/ UNCHANGED <<gone, lingering>>
      BY <1>5 DEF RoundBreaks
    <3>2. \A t \in DOMAIN cache.books : Offered(t, gone, lingering)
      BY DEF CacheInv
    <3> HIDE DEF seen, missed
    <3> QED  BY <3>1, <3>2 DEF ListingShows, Offered
  <2> QED  BY <2>1, <2>2 DEF CacheInv, HasBookRow, HasRunRow
<1> QED
  BY <1>1, <1>2, <1>3, <1>4, <1>5
  DEF MarketDataNext, marketVars, StartForecasts, ForecastFails, StartRound, ListingFails, RoundBreaks,
      ListMarkets, FetchBook, EvaluateMarkets, PlaceOrder, Minute

\* A plan is made from the memory.
LEMMA PlanHasItsRows ==
    ASSUME CacheInv, NEW chosen, chosen \subseteq Tradable, NEW p \in {Planned(t) : t \in chosen}
    PROVE  /\ Offered(p.market, gone, lingering)
           /\ HasBookRow(stored, rolledBack, p.market, p.book)
           /\ HasRunRow(stored, rolledBack, KeyOf(p.market), p.run)
<1>1. PICK t \in chosen : p = Planned(t)
  OBVIOUS
<1>2. t \in DOMAIN cache.books /\ KeyOf(t) \in DOMAIN cache.runs
  BY DEF Tradable
<1>3. p.market = t /\ p.book = cache.books[t] /\ p.run = cache.runs[KeyOf(t)]
  BY <1>1 DEF Planned
<1> QED  BY <1>2, <1>3 DEF CacheInv

\* Between the plan and the order nothing is lost but the market's place.
LEMMA PlanStays ==
    ASSUME GroundInv, [MarketDataNext]_marketVars
    PROVE  PlanInv'
<1>1. TablesInv /\ PlanInv /\ CacheInv /\ trading' \in {"paper", "demo"}
  BY TablesStay DEF GroundInv, TablesInv
<1>2. trading' = trading
  BY DEF MarketDataNext, marketVars, StartForecasts, ForecastFails, StartRound, ListingFails, RoundBreaks,
         ListMarkets, FetchBook, EvaluateMarkets, PlaceOrder, Minute, PersistForecast, SaveSeries, RunAgain
<1>3. CASE pending' \subseteq pending
  <2>1. \A p \in pending : /\ HasBookRow(stored', rolledBack', p.market, p.book)
                           /\ HasRunRow(stored', rolledBack', KeyOf(p.market), p.run)
    BY <1>1, HadItsRows DEF PlanInv, KeyOf
  <2> QED  BY <1>1, <1>2, <1>3, <2>1 DEF PlanInv, KeyOf
<1>4. ASSUME NEW chosen \in SUBSET Tickers, EvaluateMarkets(chosen) PROVE PlanInv'
  <2>1. CASE trading = "paper"
    BY <1>4, <2>1, <1>3 DEF EvaluateMarkets
  <2>2. CASE trading # "paper"
    <3>1. pending' = {Planned(t) : t \in chosen} /\ chosen \subseteq Tradable
          /\ UNCHANGED <<stored, rolledBack>>
      BY <1>4, <2>2 DEF EvaluateMarkets
    <3>2. \A p \in pending' : /\ HasBookRow(stored, rolledBack, p.market, p.book)
                              /\ HasRunRow(stored, rolledBack, KeyOf(p.market), p.run)
      BY <1>1, <3>1, PlanHasItsRows
    <3>3. trading = "demo"
      BY <1>1, <2>2 DEF TablesInv
    <3> QED  BY <1>2, <3>1, <3>2, <3>3 DEF PlanInv, HasBookRow, HasRunRow, KeyOf
  <2> QED  BY <2>1, <2>2
<1>5. \/ pending' \subseteq pending
      \/ \E chosen \in SUBSET Tickers : EvaluateMarkets(chosen)
  BY DEF MarketDataNext, marketVars, StartForecasts, ForecastFails, StartRound, ListingFails, RoundBreaks,
         ListMarkets, FetchBook, PlaceOrder, Minute, PersistForecast, SaveSeries, RunAgain
<1> QED  BY <1>3, <1>4, <1>5

\* The decision of a step rests on what the memory or the plan held before it.
LEMMA DecidesOnGround ==
    ASSUME GroundInv, [MarketDataNext]_marketVars, DecisionsAreGrounded
    PROVE  DecisionsAreGrounded'
<1>1. TablesInv /\ CacheInv /\ PlanInv
  BY DEF GroundInv
<1>2. CASE decided' = {}
  BY <1>2 DEF DecisionsAreGrounded
<1>3. ASSUME NEW chosen \in SUBSET Tickers, EvaluateMarkets(chosen) PROVE DecisionsAreGrounded'
  <2>1. /\ decided' \subseteq {p \in {Planned(t) : t \in chosen} : FreshEnough(p)}
        /\ chosen \subseteq Tradable
        /\ UNCHANGED <<now, trading, stored, rolledBack, gone, lingering>>
    BY <1>3 DEF EvaluateMarkets
  <2>2. \A p \in decided' : /\ Offered(p.market, gone, lingering) /\ FreshEnough(p)
                            /\ HasBookRow(stored, rolledBack, p.market, p.book)
           /\ HasRunRow(stored, rolledBack, KeyOf(p.market), p.run)
    BY <1>1, <2>1, PlanHasItsRows
  <2> QED  BY <2>1, <2>2 DEF DecisionsAreGrounded, Offered, HasBookRow, HasRunRow, FreshEnough, KeyOf
<1>4. ASSUME NEW p \in pending, PlaceOrder(p) PROVE DecisionsAreGrounded'
  <2>1. /\ decided' \subseteq {p} /\ (decided' # {} => p.market \in DOMAIN cache.books)
        /\ UNCHANGED <<now, trading, stored, rolledBack, gone, lingering>>
    BY <1>4 DEF PlaceOrder
  <2>2. /\ trading = "demo" /\ HasBookRow(stored, rolledBack, p.market, p.book)
        /\ HasRunRow(stored, rolledBack, KeyOf(p.market), p.run)
    BY <1>1 DEF PlanInv
  <2>3. decided' # {} => Offered(p.market, gone, lingering)
    BY <1>1, <2>1 DEF CacheInv
  <2> QED  BY <2>1, <2>2, <2>3 DEF DecisionsAreGrounded, Offered, HasBookRow, HasRunRow, KeyOf
<1>5. CASE UNCHANGED marketVars
  BY <1>5 DEF marketVars, DecisionsAreGrounded, KeyOf
<1>6. \/ decided' = {} \/ UNCHANGED marketVars
      \/ \E chosen \in SUBSET Tickers : EvaluateMarkets(chosen)
      \/ \E p \in pending : PlaceOrder(p)
  BY DEF MarketDataNext, StartForecasts, ForecastFails, StartRound, ListingFails, RoundBreaks,
         ListMarkets, FetchBook, Minute, PersistForecast, SaveSeries, RunAgain
<1> QED  BY <1>2, <1>3, <1>4, <1>5, <1>6

\* For any markets and stations, however the listings, the books and the answers
\* interleave with the evaluation, and whatever fails: what is filled or sent was
\* in the last listing of its series, or failed rounds have left it in the memory
\* since, and it has its rows, or those that a failed commit took back.
THEOREM GroundedDecisions == MarketDataSpec => []DecisionsAreGrounded
<1>1. MarketDataInit => GroundInv /\ DecisionsAreGrounded
  BY DEF MarketDataInit, GroundInv, TablesInv, CacheInv, PlanInv, App, EmptyTables, DecisionsAreGrounded
<1>2. GroundInv /\ DecisionsAreGrounded /\ [MarketDataNext]_marketVars
      => GroundInv' /\ DecisionsAreGrounded'
  <2> SUFFICES ASSUME GroundInv, DecisionsAreGrounded, [MarketDataNext]_marketVars
               PROVE  GroundInv' /\ DecisionsAreGrounded'
    OBVIOUS
  <2>1. TablesInv' /\ CacheInv'
    BY TablesStay, CacheStays DEF GroundInv
  <2> QED  BY <2>1, PlanStays, DecidesOnGround DEF GroundInv
<1> QED  BY <1>1, <1>2, PTL DEF MarketDataSpec

-----------------------------------------------------------------------------
(***************************************************************************)
(* A snapshot of the portfolio can be accounted for                        *)
(***************************************************************************)

\* The positions that a snapshot has still to read, with nothing for the others.
Unread(exposure, page) == [t \in Positions |-> IF t >= page THEN exposure[t] ELSE 0]

Near(x, y, moved) == x - y <= moved /\ y - x <= moved

AccountInv ==
    /\ account = [cash |-> account.cash, exposure |-> account.exposure]
    /\ account.cash \in Nat /\ account.exposure \in [Positions -> Nat]

ReadingType == [step : {"pages", "write"}, page : Nat, cash : Int, exposure : Int, moved : Nat, basis : Int]

\* What is read and what is still to be read differ from the account of the
\* tick's beginning by no more than what moved.
ReadingInv ==
    \/ reading = IDLE
    \/ /\ reading \in ReadingType /\ reading.step = "pages" /\ reading.page \in Positions
       /\ Near(reading.cash + reading.exposure + SumFunction(Unread(account.exposure, reading.page)),
               reading.basis, reading.moved)
    \/ /\ reading \in ReadingType /\ reading.step = "write" /\ reading.page <= clock
       /\ Near(reading.cash + reading.exposure, reading.basis, reading.moved)

CollateralInv == AccountInv /\ ReadingInv /\ clock \in Nat /\ CollateralIsNear

\* There are finitely many positions, and at least one.
LEMMA PositionsAreFinite == IsFiniteSet(Positions) /\ Positions \subseteq Nat /\ 1 \in Positions
<1>1. Pages \in Nat /\ Pages >= 1
  BY PortfolioAssumption
<1>2. IsFiniteSet(1..Pages)
  BY <1>1, FS_Interval
<1> QED  BY <1>1, <1>2 DEF Positions

\* What is still to be read is a number for each position.
LEMMA UnreadType ==
    ASSUME NEW E \in [Positions -> Nat], NEW p \in Nat
    PROVE  Unread(E, p) \in [Positions -> Int] /\ SumFunction(Unread(E, p)) \in Int
<1>1. Unread(E, p) \in [Positions -> Int]
  BY DEF Unread
<1> QED  BY <1>1, PositionsAreFinite, SumType

\* A move of a position disturbs what a snapshot will read by at most itself.
LEMMA MoveStaysNear ==
    ASSUME AccountInv, ReadingInv, clock \in Nat, NEW t \in Positions, NEW amount \in Nat, NEW e \in Nat,
           account' = [cash |-> account'.cash, exposure |-> [account.exposure EXCEPT ![t] = e]],
           account'.cash \in Nat, Near(e, account.exposure[t], amount), Moved(amount)
    PROVE  AccountInv' /\ ReadingInv'
<1> DEFINE E == account.exposure
           F == [account.exposure EXCEPT ![t] = e]
<1>1. E \in [Positions -> Nat] /\ F \in [Positions -> Nat] /\ account'.exposure = F /\ F[t] = e
  BY DEF AccountInv
<1>2. AccountInv'
  BY <1>1 DEF AccountInv
<1>3. clock' = clock
  BY DEF Moved
<1>4. CASE reading = IDLE
  BY <1>2, <1>4 DEF Moved, ReadingInv
<1>5. CASE reading # IDLE /\ reading.step = "pages"
  <2> DEFINE p == reading.page
             more == reading.moved + amount
             S == SumFunction(Unread(E, p))
             T == SumFunction(Unread(F, p))
             read == reading.cash + reading.exposure
  <2>1. /\ reading \in ReadingType /\ p \in Positions /\ p \in Nat
        /\ Near(read + S, reading.basis, reading.moved)
    BY <1>5, PositionsAreFinite DEF ReadingInv, ReadingType, IDLE
  <2>2. reading' = [reading EXCEPT !.moved = more] /\ more \in Nat /\ read \in Int
        /\ reading.moved \in Nat /\ reading.basis \in Int
    BY <1>5, <2>1 DEF Moved, ReadingType
  <2>3. T = S + (Unread(F, p)[t] - Unread(E, p)[t])
    <3>1. Unread(E, p) \in [Positions -> Int] /\ Unread(F, p) \in [Positions -> Int]
      BY <1>1, <2>1, UnreadType
    <3>2. \A y \in Positions \ {t} : Unread(F, p)[y] = Unread(E, p)[y]
      BY <1>1 DEF Unread
    <3> QED  BY <3>1, <3>2, PositionsAreFinite, SumChanges
  <2>4. Unread(F, p)[t] = (IF t >= p THEN e ELSE 0) /\ Unread(E, p)[t] = (IF t >= p THEN E[t] ELSE 0)
    BY <1>1 DEF Unread
  <2>5. S \in Int /\ T \in Int /\ E[t] \in Nat
    BY <1>1, <2>1, UnreadType
  <2> HIDE DEF more, S, T, read, E, F
  <2>6. Near(read + T, reading.basis, more)
    <3>1. Near(T, S, amount)
      BY <2>3, <2>4, <2>5 DEF Near, E
    <3>2. more = reading.moved + amount
      BY DEF more
    <3> QED  BY <2>1, <2>2, <2>5, <3>1, <3>2 DEF Near
  <2>7. /\ reading' \in ReadingType /\ reading'.step = "pages" /\ reading'.page = p
        /\ reading'.cash + reading'.exposure = read /\ reading'.basis = reading.basis
        /\ reading'.moved = more
    BY <1>5, <2>1, <2>2 DEF ReadingType, read
  <2>8. SumFunction(Unread(account'.exposure, reading'.page)) = T
    BY <1>1, <2>7 DEF T, F
  <2> QED  BY <1>2, <2>1, <2>6, <2>7, <2>8 DEF ReadingInv, Positions
<1>6. CASE reading # IDLE /\ reading.step = "write"
  <2> DEFINE more == reading.moved + amount
             read == reading.cash + reading.exposure
  <2>1. reading \in ReadingType /\ reading.page <= clock /\ Near(read, reading.basis, reading.moved)
    BY <1>6 DEF ReadingInv
  <2>2. reading' = [reading EXCEPT !.moved = more] /\ more \in Nat /\ read \in Int
        /\ reading.moved \in Nat /\ reading.basis \in Int
    BY <1>6, <2>1 DEF Moved, ReadingType
  <2>3. Near(read, reading.basis, more)
    BY <2>1, <2>2 DEF Near
  <2> HIDE DEF more, read
  <2>4. /\ reading' \in ReadingType /\ reading'.step = "write" /\ reading'.page = reading.page
        /\ reading'.cash + reading'.exposure = read /\ reading'.basis = reading.basis
        /\ reading'.moved = more
    BY <1>6, <2>1, <2>2 DEF ReadingType, read
  <2> QED  BY <1>2, <1>3, <2>1, <2>3, <2>4 DEF ReadingInv
<1> QED  BY <1>4, <1>5, <1>6 DEF ReadingInv

\* The venue moves one position at a time.
LEMMA VenueStaysNear ==
    ASSUME AccountInv, ReadingInv, clock \in Nat, NEW t \in Positions, Fills(t) \/ Settles(t)
    PROVE  AccountInv' /\ ReadingInv'
<1>1. account.cash \in Nat /\ account.exposure \in [Positions -> Nat] /\ account.exposure[t] \in Nat
  BY DEF AccountInv
<1>2. CASE Fills(t)
  <2> DEFINE e == account.exposure[t] + 1
  <2>1. account.cash > 0 /\ Moved(1)
        /\ account' = [account EXCEPT !.cash = @ - 1, !.exposure[t] = @ + 1]
    BY <1>2 DEF Fills
  <2>2. account' = [cash |-> account.cash - 1, exposure |-> [account.exposure EXCEPT ![t] = e]]
    BY <1>1, <2>1 DEF AccountInv
  <2>3. account' = [cash |-> account'.cash, exposure |-> [account.exposure EXCEPT ![t] = e]]
        /\ account'.cash \in Nat
    <3>1. account'.cash = account.cash - 1 /\ account.cash - 1 \in Nat
      BY <1>1, <2>1, <2>2
    <3> HIDE DEF e
    <3> QED  BY <2>2, <3>1
  <2>4. Near(e, account.exposure[t], 1) /\ e \in Nat
    BY <1>1 DEF Near
  <2> HIDE DEF e
  <2> QED  BY <2>1, <2>3, <2>4, MoveStaysNear
<1>3. CASE Settles(t)
  <2> DEFINE amount == account.exposure[t]
  <2>1. PICK gain \in {-amount, amount} :
          account' = [cash |-> account.cash + amount + gain,
                      exposure |-> [account.exposure EXCEPT ![t] = 0]]
    BY <1>3 DEF Settles
  <2>2. account.cash + amount + gain \in Nat
    BY <1>1
  <2>3. account' = [cash |-> account'.cash, exposure |-> [account.exposure EXCEPT ![t] = 0]]
        /\ account'.cash \in Nat
    BY <2>1, <2>2
  <2>4. Near(0, amount, amount) /\ amount \in Nat /\ Moved(amount)
    BY <1>1, <1>3 DEF Near, Settles
  <2> HIDE DEF amount
  <2>5. Near(0, account.exposure[t], amount)
    BY <2>4 DEF amount
  <2> QED  BY <2>3, <2>4, <2>5, MoveStaysNear
<1> QED  BY <1>2, <1>3

\* The balance is read with all of the positions still to come.
LEMMA BalanceStaysNear == ASSUME CollateralInv, ReadBalance PROVE CollateralInv'
<1> DEFINE E == account.exposure
           B == account.cash + SumFunction(E)
<1>1. account.cash \in Nat /\ E \in [Positions -> Nat] /\ SumFunction(E) \in Int
  <2>1. account.cash \in Nat /\ E \in [Positions -> Nat]
    BY DEF CollateralInv, AccountInv
  <2>2. E \in [Positions -> Int]
    BY <2>1
  <2> QED  BY <2>1, <2>2, PositionsAreFinite, SumType
<1>2. Unread(E, 1) = E
  <2>1. \A t \in Positions : t >= 1
    BY PortfolioAssumption DEF Positions
  <2>2. Unread(E, 1) = [t \in Positions |-> E[t]]
    BY <2>1 DEF Unread
  <2> QED  BY <1>1, <2>2
<1>3. /\ reading' = [step |-> "pages", page |-> 1, cash |-> account.cash, exposure |-> 0,
                   moved |-> 0, basis |-> B]
      /\ UNCHANGED <<account, clock, shot>>
  BY DEF ReadBalance
<1> HIDE DEF B
<1>4. B \in Int /\ account.cash + 0 + SumFunction(E) = B
  BY <1>1 DEF B
<1> HIDE DEF E
<1>5. Near(account.cash + 0 + SumFunction(Unread(E, 1)), B, 0)
  BY <1>2, <1>4 DEF Near
<1>6. ReadingInv'
  <2>1. reading' \in ReadingType
    BY <1>1, <1>3, <1>4 DEF ReadingType
  <2>2. reading'.cash = account.cash /\ reading'.exposure = 0 /\ reading'.page = 1 /\ reading'.basis = B
        /\ reading'.moved = 0 /\ reading'.step = "pages"
    BY <1>3
  <2>3. account'.exposure = E
    BY <1>3 DEF E
  <2> QED  BY <1>5, <2>1, <2>2, <2>3, PositionsAreFinite DEF ReadingInv, Positions
<1> QED  BY <1>3, <1>6 DEF CollateralInv, AccountInv, CollateralIsNear

\* A page moves a position from what is to be read to what is read.
LEMMA PageStaysNear == ASSUME CollateralInv, ReadPage PROVE CollateralInv'
<1> DEFINE t == reading.page
           E == account.exposure
           S == SumFunction(Unread(E, t))
           T == SumFunction(Unread(E, t + 1))
           x == reading.exposure + E[t]
<1>1. /\ reading \in ReadingType /\ t \in Positions /\ t \in Nat /\ t + 1 \in Nat
      /\ Near(reading.cash + reading.exposure + S, reading.basis, reading.moved)
  BY PositionsAreFinite DEF ReadPage, CollateralInv, ReadingInv, ReadingType, IDLE
<1>2. /\ reading.cash \in Int /\ reading.exposure \in Int /\ reading.basis \in Int /\ reading.moved \in Nat
      /\ E \in [Positions -> Nat] /\ E[t] \in Nat /\ x \in Int
  BY <1>1 DEF ReadingType, CollateralInv, AccountInv
<1>3. S \in Int /\ T \in Int
  BY <1>1, <1>2, UnreadType
<1>4. T = S - E[t]
  <2> DEFINE f == Unread(E, t)
             g == Unread(E, t + 1)
  <2>1. f \in [Positions -> Int] /\ g \in [Positions -> Int]
    BY <1>1, <1>2, UnreadType
  <2>2. \A y \in Positions \ {t} : g[y] = f[y]
    BY <1>1, PositionsAreFinite DEF Unread
  <2>3. g[t] = 0 /\ f[t] = E[t]
    BY <1>1 DEF Unread
  <2>4. IsFiniteSet(Positions) /\ t \in Positions
    BY <1>1, PositionsAreFinite
  <2> HIDE DEF f, g
  <2>5. SumFunction(g) = SumFunction(f) + (g[t] - f[t])
    BY <2>1, <2>2, <2>4, SumChanges
  <2>6. T = SumFunction(g) /\ S = SumFunction(f)
    BY DEF f, g
  <2> HIDE DEF S, T
  <2> QED  BY <1>2, <1>3, <2>3, <2>5, <2>6
<1>5. UNCHANGED <<account, shot>>
  BY DEF ReadPage
<1>6. t = Pages => T = 0
  <2> SUFFICES ASSUME t = Pages PROVE T = 0
    OBVIOUS
  <2>1. Unread(E, t + 1) = [y \in Positions |-> 0]
    BY PortfolioAssumption DEF Unread, Positions
  <2> QED  BY <2>1, PositionsAreFinite, SumOfZeros
<1>7. x = reading.exposure + E[t]
  OBVIOUS
<1> HIDE DEF S, T, x, E
<1>8. Near(reading.cash + x + T, reading.basis, reading.moved)
  BY <1>1, <1>2, <1>3, <1>4, <1>7 DEF Near
<1>9. CASE t < Pages
  <2>1. reading' = [reading EXCEPT !.exposure = x, !.page = t + 1] /\ clock' = clock
    BY <1>1, <1>9 DEF ReadPage, ReadingType, x, E
  <2>2. /\ reading' \in ReadingType /\ reading'.step = "pages" /\ reading'.page = t + 1
        /\ reading'.cash = reading.cash /\ reading'.exposure = x
        /\ reading'.basis = reading.basis /\ reading'.moved = reading.moved
    BY <1>1, <1>2, <2>1 DEF ReadPage, ReadingType
  <2>3. t + 1 \in Positions
    BY <1>1, <1>9, PortfolioAssumption DEF Positions
  <2>4. account'.exposure = E
    BY <1>5 DEF E
  <2>5. Near(reading'.cash + reading'.exposure + SumFunction(Unread(account'.exposure, reading'.page)),
             reading'.basis, reading'.moved)
    BY <1>8, <2>2, <2>4 DEF T
  <2>6. ReadingInv'
    BY <2>2, <2>3, <2>5 DEF ReadingInv, Positions
  <2> QED  BY <1>5, <2>1, <2>6 DEF CollateralInv, AccountInv, CollateralIsNear
<1>10. CASE ~(t < Pages)
  <2>1. t = Pages
    BY <1>1, <1>10, PortfolioAssumption DEF Positions
  <2>2. reading' = [reading EXCEPT !.exposure = x, !.step = "write", !.page = clock + 1] /\ clock' = clock + 1
    BY <1>1, <1>10 DEF ReadPage, ReadingType, x, E
  <2>3. clock \in Nat /\ clock + 1 \in Nat /\ clock' \in Nat /\ clock + 1 <= clock'
    BY <2>2 DEF CollateralInv
  <2>4. /\ reading' \in ReadingType /\ reading'.step = "write" /\ reading'.page = clock + 1
        /\ reading'.cash = reading.cash /\ reading'.exposure = x
        /\ reading'.basis = reading.basis /\ reading'.moved = reading.moved
    BY <1>1, <1>2, <2>2, <2>3 DEF ReadingType
  <2>5. Near(reading.cash + x, reading.basis, reading.moved)
    BY <1>2, <1>6, <1>8, <2>1
  <2>6. ReadingInv'
    BY <2>3, <2>4, <2>5 DEF ReadingInv
  <2> QED  BY <1>5, <2>3, <2>6 DEF CollateralInv, AccountInv, CollateralIsNear
<1> QED  BY <1>9, <1>10

\* Every step keeps the books of a snapshot in progress near the account.
LEMMA CollateralStays == ASSUME CollateralInv, [PortfolioNext]_portfolioVars PROVE CollateralInv'
<1>1. ASSUME NEW t \in Positions, Fills(t) \/ Settles(t) PROVE CollateralInv'
  <2>1. AccountInv' /\ ReadingInv'
    BY <1>1, VenueStaysNear DEF CollateralInv
  <2> QED  BY <1>1, <2>1 DEF CollateralInv, Fills, Settles, Moved, CollateralIsNear
<1>2. CASE ReadBalance
  BY <1>2, BalanceStaysNear
<1>3. CASE ReadPage
  BY <1>3, PageStaysNear
<1>4. CASE PageFails
  BY <1>4 DEF PageFails, CollateralInv, AccountInv, ReadingInv, CollateralIsNear
<1>5. CASE WriteSnapshot
  <2>1. Near(reading.cash + reading.exposure, reading.basis, reading.moved)
    BY <1>5 DEF WriteSnapshot, CollateralInv, ReadingInv, IDLE
  <2> QED  BY <1>5, <2>1 DEF WriteSnapshot, CollateralInv, AccountInv, ReadingInv, CollateralIsNear, Near
<1>6. CASE UNCHANGED <<account, reading, shot>> /\ clock' \in {clock, clock + 1}
  <2>1. clock \in Nat /\ clock' \in Nat /\ clock <= clock'
    BY <1>6 DEF CollateralInv
  <2>2. ReadingInv'
    <3>1. reading # IDLE /\ reading.step = "write" => reading.page <= clock'
      BY <2>1 DEF CollateralInv, ReadingInv, ReadingType
    <3> QED  BY <1>6, <3>1 DEF CollateralInv, ReadingInv, IDLE
  <2> QED  BY <1>6, <2>1, <2>2 DEF CollateralInv, AccountInv, CollateralIsNear
<1>7. \/ \E t \in Positions : Fills(t) \/ Settles(t)
      \/ ReadBalance \/ ReadPage \/ PageFails \/ WriteSnapshot
      \/ UNCHANGED <<account, reading, shot>> /\ clock' \in {clock, clock + 1}
  BY DEF PortfolioNext, portfolioVars, Answer, Backfilled, Committed, Reconciled
<1> QED  BY <1>1, <1>2, <1>3, <1>4, <1>5, <1>6, <1>7

DemoRowType ==
    [order : Nat, placed : Nat, id : Nat, natural : BOOLEAN, filled : BOOLEAN, asOf : Nat]

\* A row with a figure is one that the next figure may still fall to, and every
\* figure is older than the snapshot that is being written.
FigureOf(r) ==
    /\ r.asOf > 0 => r.natural /\ r.filled /\ r.placed <= r.asOf
    /\ r.asOf <= clock
    /\ reading.step = "write" => r.asOf < reading.page

FiguresInv ==
    /\ clock \in Nat /\ answered \subseteq Nat
    /\ reading.step = "write" => reading.page \in Nat \ {0} /\ reading.page <= clock
    /\ IsFiniteSet(booked) /\ booked \subseteq DemoRowType
    /\ \A r \in booked : FigureOf(r)
    /\ FiguresFollowOrders

\* A row that is added without a figure, or changed but for its figure and its
\* time, leaves the order of the figures alone.
LEMMA RowChangeKeepsFigures ==
    ASSUME FiguresInv, UNCHANGED reading, clock' \in {clock, clock + 1}, answered' \subseteq Nat,
           NEW out, NEW row \in DemoRowType, booked' = (booked \ out) \cup {row},
           \/ row.asOf = 0
           \/ \E r \in booked : /\ row.asOf = r.asOf /\ row.placed = r.placed
                                /\ r.natural => row.natural
                                /\ r.filled => row.filled
    PROVE  FiguresInv'
<1>1. clock \in Nat /\ clock' \in Nat /\ clock <= clock'
  BY DEF FiguresInv
<1>2. IsFiniteSet(booked') /\ booked' \subseteq DemoRowType
  <2>1. IsFiniteSet(booked \ out)
    BY FS_Difference DEF FiguresInv
  <2> QED  BY <2>1, FS_AddElement DEF FiguresInv
<1>3. \A r \in booked : FigureOf(r)'
  BY <1>1 DEF FiguresInv, FigureOf, DemoRowType
<1>4. FigureOf(row)'
  <2>1. CASE row.asOf = 0
    BY <1>1, <2>1 DEF FiguresInv, FigureOf
  <2>2. ASSUME NEW r \in booked, row.asOf = r.asOf, row.placed = r.placed,
               r.natural => row.natural, r.filled => row.filled
        PROVE  FigureOf(row)'
    <3>1. FigureOf(r)'
      BY <1>3
    <3> QED  BY <2>2, <3>1 DEF FigureOf
  <2> QED  BY <2>1, <2>2
<1>5. FiguresFollowOrders'
  <2> SUFFICES ASSUME NEW r \in booked', NEW q \in booked', r.asOf > 0, q.asOf > 0
               PROVE  r.asOf >= r.placed /\ (r.placed > q.placed => r.asOf > q.asOf)
    BY DEF FiguresFollowOrders
  <2>1. \A x \in booked' : x.asOf > 0 => \E y \in booked : y.asOf = x.asOf /\ y.placed = x.placed
    OBVIOUS
  <2>2. PICK r1 \in booked : r1.asOf = r.asOf /\ r1.placed = r.placed
    BY <2>1
  <2>3. PICK q1 \in booked : q1.asOf = q.asOf /\ q1.placed = q.placed
    BY <2>1
  <2> QED  BY <2>2, <2>3 DEF FiguresInv, FiguresFollowOrders
<1>6. reading'.step = "write" => reading'.page \in Nat \ {0} /\ reading'.page <= clock'
  BY <1>1 DEF FiguresInv
<1> QED  BY <1>1, <1>2, <1>3, <1>4, <1>5, <1>6 DEF FiguresInv

\* What the evaluation and the reconciler write has no figure, or keeps it.
LEMMA RowsKeepFigures ==
    ASSUME FiguresInv,
           \/ \E o \in answered : Backfilled(o) \/ Committed(o)
           \/ \E r \in booked : Reconciled(r)
    PROVE  FiguresInv'
<1>1. /\ clock \in Nat /\ answered \subseteq Nat /\ IsFiniteSet(booked) /\ booked \subseteq DemoRowType
      /\ Cardinality(booked) \in Nat
  BY FS_CardinalityType DEF FiguresInv
<1>2. ASSUME NEW order \in Nat, NEW placed \in Nat, NEW natural \in BOOLEAN, NEW filled \in BOOLEAN
      PROVE  DemoRow(order, placed, natural, filled) \in DemoRowType
             /\ DemoRow(order, placed, natural, filled).asOf = 0
  BY <1>1, <1>2 DEF DemoRow, DemoRowType
<1>3. ASSUME NEW o \in answered, Backfilled(o) PROVE FiguresInv'
  <2>1. PICK filled \in BOOLEAN : booked' = booked \cup {DemoRow(o, clock', FALSE, filled)}
    BY <1>3 DEF Backfilled
  <2> DEFINE row == DemoRow(o, clock', FALSE, filled)
  <2>2. clock' \in Nat /\ o \in Nat /\ clock' = clock + 1 /\ UNCHANGED <<answered, reading>>
    BY <1>1, <1>3 DEF Backfilled
  <2>3. row \in DemoRowType /\ row.asOf = 0
    BY <1>2, <2>2
  <2> HIDE DEF row
  <2>4. booked' = (booked \ {}) \cup {row}
    BY <2>1 DEF row
  <2> QED  BY <1>1, <2>2, <2>3, <2>4, RowChangeKeepsFigures
<1>4. ASSUME NEW o \in answered, Committed(o) PROVE FiguresInv'
  <2>1. answered' \subseteq Nat /\ UNCHANGED <<clock, reading>> /\ o \in Nat
    BY <1>1, <1>4 DEF Committed
  <2>2. ASSUME NEW filled \in BOOLEAN, booked' = booked \cup {DemoRow(o, o, TRUE, filled)}
        PROVE  FiguresInv'
    <3> DEFINE row == DemoRow(o, o, TRUE, filled)
    <3>1. row \in DemoRowType /\ row.asOf = 0
      BY <1>2, <2>1
    <3> HIDE DEF row
    <3>2. booked' = (booked \ {}) \cup {row}
      BY <2>2 DEF row
    <3> QED  BY <2>1, <3>1, <3>2, RowChangeKeepsFigures
  <2>3. ASSUME NEW r \in booked, booked' = (booked \ {r}) \cup {[r EXCEPT !.natural = TRUE]}
        PROVE  FiguresInv'
    <3> DEFINE row == [r EXCEPT !.natural = TRUE]
    <3>1. /\ row \in DemoRowType /\ row.natural /\ (r.filled => row.filled)
          /\ row.asOf = r.asOf /\ row.placed = r.placed
      BY <1>1 DEF DemoRowType
    <3> HIDE DEF row
    <3>2. booked' = (booked \ {r}) \cup {row}
      BY <2>3 DEF row
    <3> QED  BY <2>1, <3>1, <3>2, RowChangeKeepsFigures
  <2> QED  BY <1>4, <2>2, <2>3 DEF Committed
<1>5. ASSUME NEW r \in booked, Reconciled(r) PROVE FiguresInv'
  <2> DEFINE row == [r EXCEPT !.filled = TRUE]
  <2>1. /\ row \in DemoRowType /\ row.filled /\ (r.natural => row.natural)
        /\ row.asOf = r.asOf /\ row.placed = r.placed
    BY <1>1 DEF DemoRowType
  <2>2. booked' = (booked \ {r}) \cup {row} /\ UNCHANGED <<clock, answered, reading>>
    BY <1>5 DEF Reconciled
  <2> HIDE DEF row
  <2> QED  BY <1>1, <2>1, <2>2, RowChangeKeepsFigures
<1> QED  BY <1>3, <1>4, <1>5

\* The newest of the rows that may take a figure is one row.
LEMMA NewestIsOne ==
    ASSUME booked \subseteq DemoRowType, NEW at,
           NEW r \in Attributable(at), \A q \in Attributable(at) \ {r} : Newer(r, q),
           NEW q \in Attributable(at), \A x \in Attributable(at) \ {q} : Newer(q, x)
    PROVE  r = q
<1>1. r \in DemoRowType /\ q \in DemoRowType
  BY DEF Attributable
<1>2. r # q => Newer(r, q) /\ Newer(q, r)
  OBVIOUS
<1>3. r.placed \in Nat /\ q.placed \in Nat /\ r.id \in Nat /\ q.id \in Nat
  BY <1>1 DEF DemoRowType
<1> QED  BY <1>2, <1>3 DEF Newer

\* The row that takes the figure is the newest of those with figures, and the
\* figure is the latest.
LEMMA SnapshotKeepsFigures == ASSUME FiguresInv, WriteSnapshot PROVE FiguresInv'
<1> DEFINE at == reading.page
           Takes(r) == r \in Attributable(at) /\ \A q \in Attributable(at) \ {r} : Newer(r, q)
           Given(r) == IF Takes(r) THEN [r EXCEPT !.asOf = at] ELSE r
<1>1. /\ at \in Nat \ {0} /\ at <= clock /\ clock \in Nat /\ booked \subseteq DemoRowType
      /\ booked' = {Given(r) : r \in booked} /\ reading' = IDLE /\ UNCHANGED <<clock, answered>>
  BY DEF WriteSnapshot, FiguresInv, Attributed
<1>2. ASSUME NEW r \in booked
      PROVE  /\ Given(r) \in DemoRowType /\ Given(r).placed = r.placed
             /\ Given(r).natural = r.natural /\ Given(r).filled = r.filled
             /\ Given(r).asOf = IF Takes(r) THEN at ELSE r.asOf
  <2>1. r \in DemoRowType /\ at \in Nat
    BY <1>1
  <2> HIDE DEF Takes, at
  <2> QED  BY <2>1 DEF DemoRowType
<1>3. ASSUME NEW r \in booked, Takes(r) PROVE r.natural /\ r.filled /\ r.placed <= at
  BY <1>3 DEF Attributable
<1>4. ASSUME NEW r \in booked, r.asOf > 0 PROVE r \in Attributable(at) /\ r.asOf < at
  <2>1. FigureOf(r) /\ reading.step = "write" /\ r \in DemoRowType
    BY <1>1 DEF FiguresInv, WriteSnapshot
  <2>2. r.natural /\ r.filled /\ r.placed <= r.asOf /\ r.asOf < at
    BY <1>4, <2>1 DEF FigureOf
  <2>3. r.placed <= at
    BY <1>1, <2>1, <2>2 DEF DemoRowType
  <2> QED  BY <2>2, <2>3 DEF Attributable
<1>5. ASSUME NEW r \in booked, NEW q \in booked, Takes(r), Takes(q) PROVE r = q
  BY <1>1, <1>5, NewestIsOne
<1>6. ASSUME NEW r \in booked, NEW q \in booked, Takes(q), q # r, r.asOf > 0 PROVE r.placed <= q.placed
  <2>1. Newer(q, r)
    BY <1>4, <1>6
  <2> QED  BY <1>1, <2>1 DEF Newer, DemoRowType
<1> HIDE DEF Takes, at
<1>7. IsFiniteSet(booked') /\ booked' \subseteq DemoRowType
  <2>1. IsFiniteSet({Given(r) : r \in booked})
    <3> DEFINE T == {Given(r) : r \in booked}
               f == [r \in booked |-> Given(r)]
    <3>1. f \in Surjection(booked, T)
      <4> HIDE DEF Given
      <4> QED  BY DEF Surjection
    <3> HIDE DEF f, T
    <3>2. IsFiniteSet(T)
      BY <3>1, FS_Surjection DEF FiguresInv
    <3> QED  BY <3>2 DEF T
  <2> QED  BY <1>1, <1>2, <2>1
<1> HIDE DEF Given
<1>8. ASSUME NEW r \in booked' PROVE FigureOf(r)'
  <2>1. PICK x \in booked : r = Given(x)
    BY <1>1
  <2>2. FigureOf(x) /\ x \in DemoRowType
    BY <1>1 DEF FiguresInv
  <2>3. CASE Takes(x)
    BY <1>1, <1>2, <1>3, <2>1, <2>3 DEF FigureOf, IDLE
  <2>4. CASE ~Takes(x)
    BY <1>1, <1>2, <2>1, <2>2, <2>4 DEF FigureOf, IDLE
  <2> QED  BY <2>3, <2>4
<1>9. FiguresFollowOrders'
  <2> SUFFICES ASSUME NEW r \in booked', NEW q \in booked', r.asOf > 0, q.asOf > 0
               PROVE  r.asOf >= r.placed /\ (r.placed > q.placed => r.asOf > q.asOf)
    BY DEF FiguresFollowOrders
  <2>1. PICK x \in booked : r = Given(x)
    BY <1>1
  <2>2. PICK y \in booked : q = Given(y)
    BY <1>1
  <2>3. /\ x \in DemoRowType /\ y \in DemoRowType /\ x.placed \in Nat /\ y.placed \in Nat
        /\ x.asOf \in Nat /\ y.asOf \in Nat /\ at \in Nat
    BY <1>1 DEF DemoRowType
  <2>4. r.placed = x.placed /\ q.placed = y.placed
    BY <1>2, <2>1, <2>2
  <2>5. r.asOf = (IF Takes(x) THEN at ELSE x.asOf) /\ q.asOf = (IF Takes(y) THEN at ELSE y.asOf)
    BY <1>2, <2>1, <2>2
  <2>6. CASE Takes(x) /\ Takes(y)
    <3>1. x = y /\ x.placed <= at
      BY <1>3, <1>5, <2>6
    <3> QED  BY <2>3, <2>4, <2>5, <2>6, <3>1
  <2>7. CASE Takes(x) /\ ~Takes(y)
    <3>1. y.asOf < at /\ x.placed <= at
      BY <1>3, <1>4, <2>5, <2>7
    <3> QED  BY <2>3, <2>4, <2>5, <2>7, <3>1
  <2>8. CASE ~Takes(x) /\ Takes(y)
    <3>1. x.placed <= y.placed /\ x.asOf >= x.placed
      BY <1>6, <2>5, <2>8 DEF FiguresInv, FiguresFollowOrders
    <3> QED  BY <2>3, <2>4, <2>5, <2>8, <3>1
  <2>9. CASE ~Takes(x) /\ ~Takes(y)
    BY <2>4, <2>5, <2>9 DEF FiguresInv, FiguresFollowOrders
  <2> QED  BY <2>6, <2>7, <2>8, <2>9
<1> QED  BY <1>1, <1>7, <1>8, <1>9 DEF FiguresInv, IDLE

\* Every step keeps the figures in the order of their rows.
LEMMA FiguresStay ==
    ASSUME CollateralInv, FiguresInv, [PortfolioNext]_portfolioVars PROVE FiguresInv'
<1>1. CASE \/ \E o \in answered : Backfilled(o) \/ Committed(o)
           \/ \E r \in booked : Reconciled(r)
  BY <1>1, RowsKeepFigures
<1>2. CASE WriteSnapshot
  BY <1>2, SnapshotKeepsFigures
<1>3. CASE /\ UNCHANGED booked /\ clock' \in {clock, clock + 1} /\ answered' \subseteq answered \cup {clock'}
           /\ reading'.step # "write" \/ (reading.step = "write" /\ reading'.page = reading.page)
  <2>1. clock \in Nat /\ clock' \in Nat /\ clock <= clock'
    BY <1>3 DEF FiguresInv
  <2>2. \A r \in booked : r.asOf \in Nat
    BY DEF FiguresInv, DemoRowType
  <2> QED  BY <1>3, <2>1, <2>2 DEF FiguresInv, FigureOf, FiguresFollowOrders
<1>4. CASE ReadPage /\ reading'.step = "write"
  <2>1. reading \in ReadingType
    BY <1>4 DEF CollateralInv, ReadingInv, ReadPage, IDLE
  <2>2. /\ UNCHANGED <<booked, answered>> /\ clock' = clock + 1 /\ reading'.page = clock + 1
    BY <1>4, <2>1 DEF ReadPage, ReadingType
  <2>3. clock \in Nat /\ \A r \in booked : r.asOf \in Nat
    BY DEF FiguresInv, DemoRowType
  <2> QED  BY <1>4, <2>2, <2>3 DEF FiguresInv, FigureOf, FiguresFollowOrders
<1>5. ASSUME NEW t \in Positions, Fills(t) \/ Settles(t)
      PROVE  /\ UNCHANGED <<booked, clock, answered>>
             /\ reading'.step = reading.step /\ (reading.step = "write" => reading'.page = reading.page)
  <2>1. PICK amount : Moved(amount)
    BY <1>5 DEF Fills, Settles
  <2>2. CASE reading = IDLE
    BY <2>1, <2>2 DEF Moved, IDLE
  <2>3. CASE reading # IDLE
    <3>1. reading \in ReadingType
      BY <2>3 DEF CollateralInv, ReadingInv
    <3> QED  BY <2>1, <2>3, <3>1 DEF Moved, ReadingType
  <2> QED  BY <2>1, <2>2, <2>3 DEF Moved
<1>6. CASE \E t \in Positions : Fills(t) \/ Settles(t)
  BY <1>3, <1>5, <1>6
<1>7. CASE Answer
  BY <1>3, <1>7 DEF Answer
<1>8. CASE ReadBalance \/ PageFails
  <2>1. reading'.step # "write" /\ UNCHANGED <<booked, clock, answered>>
    BY <1>8 DEF ReadBalance, PageFails, IDLE
  <2> QED  BY <1>3, <2>1
<1>9. CASE ReadPage /\ reading'.step # "write"
  BY <1>3, <1>9 DEF ReadPage
<1>10. CASE UNCHANGED portfolioVars
  BY <1>3, <1>10 DEF portfolioVars
<1> QED  BY <1>1, <1>2, <1>4, <1>6, <1>7, <1>8, <1>9, <1>10 DEF PortfolioNext

\* For any number of positions and of orders: the collateral of every snapshot is
\* the account's but for what moved while it was read, and no figure of realized
\* P&L is of a snapshot before its row, or older than that of an earlier row.
THEOREM AccountableSnapshots == PortfolioSpec => []SnapshotIsAccountable
<1>1. PortfolioInit => CollateralInv /\ FiguresInv
  <2> SUFFICES ASSUME PortfolioInit PROVE CollateralInv /\ FiguresInv
    OBVIOUS
  <2>1. AccountInv
    BY PortfolioAssumption DEF PortfolioInit, AccountInv
  <2>2. CollateralIsNear
    <3>1. Cash + Pages \in Int
      BY PortfolioAssumption
    <3>2. shot.collateral = Cash + Pages /\ shot.basis = Cash + Pages /\ shot.moved = 0
      BY DEF PortfolioInit
    <3> QED  BY <3>1, <3>2 DEF CollateralIsNear
  <2>3. FiguresInv
    BY FS_EmptySet DEF PortfolioInit, FiguresInv, FiguresFollowOrders, IDLE
  <2> QED  BY <2>1, <2>2, <2>3 DEF PortfolioInit, CollateralInv, ReadingInv
<1>2. CollateralInv /\ FiguresInv /\ [PortfolioNext]_portfolioVars => CollateralInv' /\ FiguresInv'
  BY CollateralStays, FiguresStay
<1>3. CollateralInv /\ FiguresInv => SnapshotIsAccountable
  BY DEF CollateralInv, FiguresInv, SnapshotIsAccountable
<1> QED  BY <1>1, <1>2, <1>3, PTL DEF PortfolioSpec

-----------------------------------------------------------------------------
(***************************************************************************)
(* The backtest: decisions in their order                                  *)
(***************************************************************************)

\* A strict order of all the elements of a set, as pairs.
Orders(R, S) ==
    /\ \A x \in S : <<x, x>> \notin R
    /\ \A x, y \in S : x # y => <<x, y>> \in R \/ <<y, x>> \in R
    /\ \A x, y, z \in S : <<x, y>> \in R /\ <<y, z>> \in R => <<x, z>> \in R

Before(R, S, x) == {y \in S : <<y, x>> \in R}
PlaceIn(R, S, x) == Cardinality(Before(R, S, x))

\* Every element has a place of its own.
LEMMA PlacesAre ==
    ASSUME NEW S, IsFiniteSet(S), NEW R, Orders(R, S)
    PROVE  /\ Cardinality(S) \in Nat
           /\ \A x \in S : PlaceIn(R, S, x) \in 0..(Cardinality(S) - 1)
           /\ \A x, y \in S : PlaceIn(R, S, x) = PlaceIn(R, S, y) => x = y
           /\ \A x, y \in S : <<x, y>> \in R => PlaceIn(R, S, x) < PlaceIn(R, S, y)
<1>. DEFINE c == Cardinality(S)
<1>1. c \in Nat
  BY FS_CardinalityType
<1>2. ASSUME NEW x \in S PROVE IsFiniteSet(Before(R, S, x)) /\ PlaceIn(R, S, x) \in 0..(c - 1)
  <2>1. Before(R, S, x) \in SUBSET (S \ {x})
    BY DEF Before, Orders
  <2>2. IsFiniteSet(S \ {x}) /\ Cardinality(S \ {x}) = c - 1
    BY FS_RemoveElement
  <2>3. /\ IsFiniteSet(Before(R, S, x)) /\ Cardinality(Before(R, S, x)) <= c - 1
        /\ Cardinality(Before(R, S, x)) \in Nat
    BY <2>1, <2>2, FS_Subset, FS_CardinalityType
  <2>. QED BY <2>3, <1>1 DEF PlaceIn
<1>3. ASSUME NEW x \in S, NEW y \in S, <<x, y>> \in R PROVE PlaceIn(R, S, x) < PlaceIn(R, S, y)
  <2>1. Before(R, S, x) \in SUBSET Before(R, S, y) /\ x \in Before(R, S, y) /\ x \notin Before(R, S, x)
    BY <1>3 DEF Before, Orders
  <2>2. /\ Cardinality(Before(R, S, x)) <= Cardinality(Before(R, S, y))
        /\ Cardinality(Before(R, S, y)) = Cardinality(Before(R, S, x)) => Before(R, S, y) = Before(R, S, x)
    BY <2>1, <1>2, FS_Subset
  <2>3. PlaceIn(R, S, x) \in Int /\ PlaceIn(R, S, y) \in Int
    BY <1>1, <1>2
  <2>. QED BY <2>1, <2>2, <2>3 DEF PlaceIn
<1>4. \A x, y \in S : PlaceIn(R, S, x) = PlaceIn(R, S, y) => x = y
  <2>. SUFFICES ASSUME NEW x \in S, NEW y \in S, PlaceIn(R, S, x) = PlaceIn(R, S, y), x # y PROVE FALSE
    OBVIOUS
  <2>1. <<x, y>> \in R \/ <<y, x>> \in R
    BY DEF Orders
  <2>2. PlaceIn(R, S, x) \in Int /\ PlaceIn(R, S, y) \in Int
    BY <1>1, <1>2
  <2>. QED BY <1>3, <2>1, <2>2
<1>. QED BY <1>1, <1>2, <1>3, <1>4

\* The n-th element of a set in its order is the one before which n - 1 are.
LEMMA InOrderIs ==
    ASSUME NEW S, IsFiniteSet(S), NEW R, Orders(R, S)
    PROVE  /\ Len(InOrder(S, R)) = Cardinality(S) /\ DOMAIN InOrder(S, R) = 1..Cardinality(S)
           /\ \A n \in 1..Cardinality(S) : /\ InOrder(S, R)[n] \in S
                                           /\ PlaceIn(R, S, InOrder(S, R)[n]) = n - 1
<1>. DEFINE c == Cardinality(S)
            pos == [x \in S |-> PlaceIn(R, S, x)]
            q == InOrder(S, R)
<1>1. c \in Nat /\ pos \in [S -> 0..(c - 1)] /\ \A x, y \in S : pos[x] = pos[y] => x = y
  BY PlacesAre
<1>. HIDE DEF pos
<1>2. \A n \in 0..(c - 1) : \E x \in S : pos[x] = n
  <2>1. IsFiniteSet(0..(c - 1)) /\ Cardinality(0..(c - 1)) = c
    BY <1>1, FS_Interval
  <2>2. pos \in Injection(S, 0..(c - 1))
    BY <1>1 DEF Injection, IsInjective
  <2>3. pos \in Surjection(S, 0..(c - 1))
    BY <2>1, <2>2, FS_Injection
  <2>. QED BY <2>3 DEF Surjection
<1>3. ASSUME NEW n \in 1..c PROVE q[n] \in S /\ PlaceIn(R, S, q[n]) = n - 1
  <2>1. q[n] = CHOOSE x \in S : Cardinality({y \in S : <<y, x>> \in R}) = n - 1
    BY DEF InOrder
  <2>2. \E x \in S : Cardinality({y \in S : <<y, x>> \in R}) = n - 1
    <3>1. n - 1 \in 0..(c - 1)
      BY <1>1
    <3>. QED BY <3>1, <1>2 DEF pos, PlaceIn, Before
  <2>. HIDE DEF q
  <2>. QED BY <2>1, <2>2 DEF PlaceIn, Before
<1>4. DOMAIN q = 1..c /\ Len(q) = c
  <2>. DEFINE nth(n) == CHOOSE x \in S : Cardinality({y \in S : <<y, x>> \in R}) = n - 1
  <2>1. q = [n \in 1..c |-> nth(n)]
    BY DEF InOrder
  <2>. HIDE DEF q, nth
  <2>. QED BY <2>1, <1>1
<1>. QED BY <1>3, <1>4

\* What is earlier in the sequence is before what is later.
LEMMA InOrderRises ==
    ASSUME NEW S, IsFiniteSet(S), NEW R, Orders(R, S)
    PROVE  \A i, j \in 1..Cardinality(S) : i < j => <<InOrder(S, R)[i], InOrder(S, R)[j]>> \in R
<1>. DEFINE c == Cardinality(S)
            q == InOrder(S, R)
<1>1. \A n \in 1..c : q[n] \in S /\ PlaceIn(R, S, q[n]) = n - 1
  BY InOrderIs
<1>2. c \in Nat /\ \A x, y \in S : <<x, y>> \in R => PlaceIn(R, S, x) < PlaceIn(R, S, y)
  BY PlacesAre
<1>. HIDE DEF c, q
<1>3. ASSUME NEW i \in 1..c, NEW j \in 1..c, i < j PROVE <<q[i], q[j]>> \in R
  <2>1. q[i] # q[j]
    BY <1>1, <1>3
  <2>2. <<q[j], q[i]>> \notin R
    BY <1>1, <1>2, <1>3
  <2>. QED BY <1>1, <2>1, <2>2 DEF Orders
<1>. QED BY <1>3 DEF c, q

\* A part of a set with all that is before its elements comes first.
LEMMA InOrderStarts ==
    ASSUME NEW S, IsFiniteSet(S), NEW R, Orders(R, S), NEW U \in SUBSET S,
           \A x \in U, y \in S : <<y, x>> \in R => y \in U
    PROVE  /\ Cardinality(U) \in 0..Cardinality(S) /\ IsFiniteSet(U) /\ Orders(R, U)
           /\ \A n \in 1..Cardinality(U) : InOrder(S, R)[n] = InOrder(U, R)[n] /\ InOrder(U, R)[n] \in U
           /\ \A n \in (Cardinality(U) + 1)..Cardinality(S) : InOrder(S, R)[n] \in S \ U
<1>1. Cardinality(U) \in 0..Cardinality(S) /\ IsFiniteSet(U) /\ Orders(R, U)
  <2>1. IsFiniteSet(U) /\ Cardinality(U) <= Cardinality(S) /\ Cardinality(U) \in Nat /\ Cardinality(S) \in Nat
    BY FS_Subset, FS_CardinalityType
  <2>2. Orders(R, U)
    BY DEF Orders
  <2>. QED BY <2>1, <2>2
<1>. DEFINE c == Cardinality(S)
            d == Cardinality(U)
            q == InOrder(S, R)
            r == InOrder(U, R)
<1>2. \A n \in 1..c : q[n] \in S /\ PlaceIn(R, S, q[n]) = n - 1
  BY InOrderIs
<1>3. \A n \in 1..d : r[n] \in U /\ PlaceIn(R, U, r[n]) = n - 1
  BY <1>1, InOrderIs
<1>4. \A x \in U : PlaceIn(R, S, x) = PlaceIn(R, U, x)
  <2>. SUFFICES ASSUME NEW x \in U PROVE Before(R, S, x) = Before(R, U, x)
    BY DEF PlaceIn
  <2>. QED BY DEF Before
<1>5. /\ c \in Nat /\ d \in 0..c
      /\ \A x, y \in S : PlaceIn(R, S, x) = PlaceIn(R, S, y) => x = y
      /\ \A x \in U : PlaceIn(R, U, x) \in 0..(d - 1)
  BY <1>1, PlacesAre
<1>. HIDE DEF c, d, q, r
<1>6. ASSUME NEW n \in 1..d PROVE q[n] = r[n]
  <2>1. n \in 1..c
    BY <1>5
  <2>. QED BY <2>1, <1>2, <1>3, <1>4, <1>5
<1>7. ASSUME NEW n \in (d + 1)..c PROVE q[n] \in S \ U
  <2>1. n \in 1..c
    BY <1>5
  <2>2. n - 1 \notin 0..(d - 1)
    BY <1>5
  <2>. QED BY <2>1, <2>2, <1>2, <1>4, <1>5
<1>. QED BY <1>1, <1>3, <1>6, <1>7 DEF c, d, q, r

\* It does not matter of which order these pairs were taken.
LEMMA InOrderAlike ==
    ASSUME NEW U, NEW R, NEW Q, \A x, y \in U : <<x, y>> \in R <=> <<x, y>> \in Q
    PROVE  InOrder(U, R) = InOrder(U, Q)
<1>. DEFINE nth(n, P) == CHOOSE x \in U : Cardinality({y \in U : <<y, x>> \in P}) = n - 1
<1>1. ASSUME NEW x \in U PROVE {y \in U : <<y, x>> \in R} = {y \in U : <<y, x>> \in Q}
  OBVIOUS
<1>2. ASSUME NEW n PROVE nth(n, R) = nth(n, Q)
  <2>1. \A x \in U : (Cardinality({y \in U : <<y, x>> \in R}) = n - 1)
                     <=> (Cardinality({y \in U : <<y, x>> \in Q}) = n - 1)
    BY <1>1
  <2>. QED BY <2>1
<1>3. InOrder(U, R) = [n \in 1..Cardinality(U) |-> nth(n, R)]
  BY DEF InOrder
<1>4. InOrder(U, Q) = [n \in 1..Cardinality(U) |-> nth(n, Q)]
  BY DEF InOrder
<1>. HIDE DEF nth
<1>. QED BY <1>2, <1>3, <1>4

\* Two orders with a common part that comes first in both.
LEMMA CommonStart ==
    ASSUME NEW S, IsFiniteSet(S), NEW R, Orders(R, S), NEW T, IsFiniteSet(T), NEW Q, Orders(Q, T),
           NEW U, U \subseteq S, U \subseteq T,
           \A x \in U, y \in S : <<y, x>> \in R => y \in U,
           \A x \in U, y \in T : <<y, x>> \in Q => y \in U,
           \A x, y \in U : <<x, y>> \in R <=> <<x, y>> \in Q
    PROVE  /\ Cardinality(U) \in 0..Cardinality(S) /\ Cardinality(U) \in 0..Cardinality(T)
           /\ \A n \in 1..Cardinality(U) : InOrder(S, R)[n] = InOrder(T, Q)[n] /\ InOrder(S, R)[n] \in U
           /\ \A n \in (Cardinality(U) + 1)..Cardinality(S) : InOrder(S, R)[n] \in S \ U
           /\ \A n \in (Cardinality(U) + 1)..Cardinality(T) : InOrder(T, Q)[n] \in T \ U
<1>1. InOrder(U, R) = InOrder(U, Q)
  BY InOrderAlike
<1>2. /\ Cardinality(U) \in 0..Cardinality(S)
      /\ \A n \in 1..Cardinality(U) : InOrder(S, R)[n] = InOrder(U, R)[n] /\ InOrder(U, R)[n] \in U
      /\ \A n \in (Cardinality(U) + 1)..Cardinality(S) : InOrder(S, R)[n] \in S \ U
  BY InOrderStarts
<1>3. /\ Cardinality(U) \in 0..Cardinality(T)
      /\ \A n \in 1..Cardinality(U) : InOrder(T, Q)[n] = InOrder(U, Q)[n] /\ InOrder(U, Q)[n] \in U
      /\ \A n \in (Cardinality(U) + 1)..Cardinality(T) : InOrder(T, Q)[n] \in T \ U
  BY InOrderStarts
<1>. QED BY <1>1, <1>2, <1>3

-----------------------------------------------------------------------------
(***************************************************************************)
(* The backtest: what a decision reads                                     *)
(***************************************************************************)

\* Rows with numbers of their own.
Numbered(rows, S) ==
    /\ DOMAIN rows \in SUBSET Nat /\ IsFiniteSet(DOMAIN rows)
    /\ \A k \in DOMAIN rows : rows[k] \in S

TapeOk(tape) ==
    /\ Numbered(tape.rows, BtRows) /\ Numbered(tape.prints, BtPrints) /\ Numbered(tape.trades, BtTrades)
    /\ Len(tape.markets) \in Nat /\ DOMAIN tape.markets = 1..Len(tape.markets)
    /\ \A k \in DOMAIN tape.markets : tape.markets[k] \in BtRows
    /\ \A j, k \in DOMAIN tape.trades : j <= k => tape.trades[j].at <= tape.trades[k].at
    /\ tape.runs \subseteq Int /\ IsFiniteSet(tape.runs)
    /\ \A u \in BtTickers, r \in tape.runs : BtForecast[u][r].fair \in Int /\ BtForecast[u][r].spread \in Nat

JobOk(job) ==
    /\ job.source \in {"file", "undated", "tables", "prints", "trades"}
    /\ TapeOk(job.tape)

LEMMA JobsAreOk == ASSUME NEW job \in BtJobs PROVE JobOk(job)
<1>. DEFINE tape == job.tape
<1>1. \A s \in {tape.rows, tape.prints, tape.trades, tape.markets} : Len(s) \in Nat /\ DOMAIN s = 1..Len(s)
  BY TapeRowsAssumption
<1>2. \A s \in {tape.rows, tape.prints, tape.trades} : DOMAIN s \in SUBSET Nat /\ IsFiniteSet(DOMAIN s)
  <2>. TAKE s \in {tape.rows, tape.prints, tape.trades}
  <2>1. Len(s) \in Nat /\ DOMAIN s = 1..Len(s)
    BY <1>1
  <2>. DEFINE c == Len(s)
  <2>2. c \in Nat /\ DOMAIN s = 1..c
    BY <2>1
  <2>. HIDE DEF c
  <2>3. IsFiniteSet(1..c) /\ 1..c \in SUBSET Nat
    BY <2>2, FS_Interval
  <2>. QED BY <2>2, <2>3
<1>3. Numbered(tape.rows, BtRows)
  <2>1. \A k \in DOMAIN tape.rows : tape.rows[k] \in BtRows
    BY TapeRowsAssumption
  <2>. QED BY <2>1, <1>2 DEF Numbered
<1>4. Numbered(tape.prints, BtPrints)
  <2>1. \A k \in DOMAIN tape.prints : tape.prints[k] \in BtPrints
    BY TapeRowsAssumption
  <2>. QED BY <2>1, <1>2 DEF Numbered
<1>5. Numbered(tape.trades, BtTrades)
  <2>1. \A k \in DOMAIN tape.trades : tape.trades[k] \in BtTrades
    BY TapeRowsAssumption
  <2>. QED BY <2>1, <1>2 DEF Numbered
<1>6. /\ \A k \in DOMAIN tape.markets : tape.markets[k] \in BtRows
      /\ \A j, k \in DOMAIN tape.trades : j <= k => tape.trades[j].at <= tape.trades[k].at
      /\ tape.runs \subseteq Int /\ IsFiniteSet(tape.runs)
      /\ \A u \in BtTickers, r \in tape.runs : BtForecast[u][r].fair \in Int /\ BtForecast[u][r].spread \in Nat
      /\ job.source \in {"file", "undated", "tables", "prints", "trades"}
  BY TapeRowsAssumption
<1>7. Len(tape.markets) \in Nat /\ DOMAIN tape.markets = 1..Len(tape.markets)
  BY <1>1
<1>. HIDE DEF tape
<1>8. TapeOk(tape)
  BY <1>3, <1>4, <1>5, <1>6, <1>7 DEF TapeOk
<1>. QED BY <1>6, <1>8 DEF JobOk, tape

LEMMA UntilIs ==
    ASSUME NEW rows, NEW S, Numbered(rows, S), NEW t
    PROVE  /\ Numbered(Until(rows, t), S)
           /\ \A k \in DOMAIN rows : rows[k].at <= t <=> k \in DOMAIN Until(rows, t)
           /\ \A k \in DOMAIN Until(rows, t) : k \in DOMAIN rows /\ Until(rows, t)[k] = rows[k]
<1>. DEFINE I == {i \in DOMAIN rows : rows[i].at <= t}
<1>1. I \in SUBSET DOMAIN rows /\ IsFiniteSet(DOMAIN rows) /\ DOMAIN rows \in SUBSET Nat
  BY DEF Numbered
<1>2. IsFiniteSet(I)
  BY <1>1, FS_Subset
<1>3. Until(rows, t) = [k \in I |-> rows[k]]
  BY DEF Until
<1>. QED BY <1>1, <1>2, <1>3 DEF Numbered

LEMMA KnownIsOk == ASSUME NEW job, JobOk(job), NEW t PROVE JobOk(KnownAt(job, t))
<1>. DEFINE tape == job.tape
            known == KnownAt(job, t).tape
<1>1. /\ known.rows = (IF job.source = "undated" THEN tape.rows ELSE Until(tape.rows, t))
      /\ known.prints = Until(tape.prints, t) /\ known.trades = Until(tape.trades, t)
      /\ known.markets = tape.markets /\ known.runs = RunsKnown(job, t) /\ KnownAt(job, t).source = job.source
  BY DEF KnownAt
<1>2. TapeOk(tape)
  BY DEF JobOk
<1>. HIDE DEF known, tape
<1>3. /\ Numbered(known.rows, BtRows) /\ Numbered(known.prints, BtPrints) /\ Numbered(known.trades, BtTrades)
  BY <1>1, <1>2, UntilIs DEF TapeOk
<1>4. \A j, k \in DOMAIN known.trades : j <= k => known.trades[j].at <= known.trades[k].at
  BY <1>1, <1>2, UntilIs DEF TapeOk
<1>5. known.runs \in SUBSET tape.runs /\ IsFiniteSet(known.runs)
  <2>1. known.runs \in SUBSET tape.runs
    BY <1>1 DEF RunsKnown, tape
  <2>. QED BY <2>1, <1>2, FS_Subset DEF TapeOk
<1>6. TapeOk(known)
  BY <1>1, <1>2, <1>3, <1>4, <1>5 DEF TapeOk
<1>. QED BY <1>1, <1>6 DEF JobOk, known

\* The latest of some rows is one of them.
LEMMA LatestIs ==
    ASSUME NEW rows, NEW S, Numbered(rows, S), NEW I \in SUBSET DOMAIN rows, I # {},
           \A i \in I : rows[i].at \in Int
    PROVE  LatestOf(rows, I) \in I
<1>. DEFINE at == [i \in I |-> rows[i].at]
            V == {at[i] : i \in I}
            J == {i \in I : at[i] = Max(V)}
<1>1. IsFiniteSet(I) /\ I \in SUBSET Nat
  BY FS_Subset DEF Numbered
<1>2. V \in SUBSET Int /\ IsFiniteSet(V) /\ V # {}
  <2>1. \A i \in I : at[i] \in Int
    OBVIOUS
  <2>2. IsFiniteSet(V)
    BY <1>1, ImageIsFinite
  <2>. QED BY <2>1, <2>2
<1>3. Max(V) \in V /\ \A x \in V : x <= Max(V)
  <2>. HIDE DEF V
  <2>. QED BY <1>2, MaxOfFinite
<1>4. J \in SUBSET Nat /\ J # {}
  BY <1>1, <1>3
<1>5. PICK i \in J : \A j \in J : i <= j
  <2>. HIDE DEF J
  <2>. QED BY <1>4, LeastNatural
<1>6. i \in I /\ \A j \in I : rows[j].at < rows[i].at \/ (rows[j].at = rows[i].at /\ i <= j)
  <2>1. i \in I /\ at[i] = Max(V)
    BY <1>5
  <2>2. ASSUME NEW j \in I PROVE at[j] < at[i] \/ (at[j] = at[i] /\ i <= j)
    <3>1. at[j] <= Max(V) /\ at[j] \in Int /\ at[i] \in Int
      BY <1>3, <2>1
    <3>2. at[j] = Max(V) => i <= j
      BY <1>5
    <3>. HIDE DEF at, V
    <3>. QED BY <3>1, <3>2, <2>1
  <2>3. \A j \in I : at[j] = rows[j].at
    OBVIOUS
  <2>. HIDE DEF at, V, J
  <2>. QED BY <2>1, <2>2, <2>3
<1>. QED BY <1>6 DEF LatestOf

\* It depends on those rows only.
LEMMA LatestAlike ==
    ASSUME NEW rows, NEW other, NEW I, \A i \in I : rows[i] = other[i]
    PROVE  LatestOf(rows, I) = LatestOf(other, I)
<1>1. \A i \in I : (\A j \in I : rows[j].at < rows[i].at \/ (rows[j].at = rows[i].at /\ i <= j))
                   <=> (\A j \in I : other[j].at < other[i].at \/ (other[j].at = other[i].at /\ i <= j))
  OBVIOUS
<1>. QED BY <1>1 DEF LatestOf

\* The row that a market is decided on, in the tables or by its prints.
LEMMA BookIs ==
    ASSUME NEW tape, TapeOk(tape), NEW m \in BtRows, m.close \in Int, FreshBooks(tape, m) # {}
    PROVE  /\ DecisionBook(tape, m) \in BtRows /\ DecisionBook(tape, m).ticker = m.ticker
           /\ DecisionBook(tape, m).close = m.close /\ DecisionBook(tape, m).at <= m.close - BtLead
<1>. DEFINE i == LatestOf(tape.rows, FreshBooks(tape, m))
<1>1. Numbered(tape.rows, BtRows) /\ FreshBooks(tape, m) \in SUBSET DOMAIN tape.rows
  BY DEF TapeOk, FreshBooks
<1>2. \A k \in FreshBooks(tape, m) : tape.rows[k] \in BtRows /\ tape.rows[k].at \in Int
  BY <1>1 DEF Numbered, BtRows
<1>3. i \in FreshBooks(tape, m)
  BY <1>1, <1>2, LatestIs
<1>4. tape.rows[i] \in BtRows /\ tape.rows[i].ticker = m.ticker /\ tape.rows[i].at <= m.close - BtLead
  BY <1>2, <1>3 DEF FreshBooks
<1>5. DecisionBook(tape, m) = [tape.rows[i] EXCEPT !.close = m.close, !.result = "", !.sized = TRUE]
  BY DEF DecisionBook
<1>. HIDE DEF i
<1>. QED BY <1>4, <1>5 DEF BtRows

LEMMA PrintIs ==
    ASSUME NEW tape, TapeOk(tape), NEW m \in BtRows, m.close \in Int, FreshPrints(tape, m) # {}
    PROVE  /\ DecisionPrint(tape, m) \in BtRows /\ DecisionPrint(tape, m).ticker = m.ticker
           /\ DecisionPrint(tape, m).close = m.close /\ DecisionPrint(tape, m).at = m.close - BtLead
<1>. DEFINE i == LatestOf(tape.prints, FreshPrints(tape, m))
            price == tape.prints[i].price
            seen == {k \in PrintsOf(tape, m) : tape.prints[k].at > m.close - BtLead - BtDepthWindow}
            depth == Cardinality(seen)
<1>1. Numbered(tape.prints, BtPrints) /\ FreshPrints(tape, m) \in SUBSET DOMAIN tape.prints
      /\ seen \in SUBSET DOMAIN tape.prints
  BY DEF TapeOk, FreshPrints, PrintsOf
<1>2. \A k \in DOMAIN tape.prints : tape.prints[k] \in BtPrints /\ tape.prints[k].at \in Int
  BY <1>1 DEF Numbered, BtPrints
<1>3. i \in FreshPrints(tape, m)
  BY <1>1, <1>2, LatestIs
<1>4. price \in 0..Dollar /\ Dollar - price \in 0..Dollar
  <2>1. tape.prints[i] \in BtPrints
    BY <1>1, <1>2, <1>3
  <2>2. tape.prints[i].price \in 0..Dollar
    BY <2>1 DEF BtPrints
  <2>. HIDE DEF i
  <2>. QED BY <2>2, AskInRange
<1>5. depth \in Nat
  <2>1. IsFiniteSet(seen)
    BY <1>1, FS_Subset DEF Numbered
  <2>. QED BY <2>1, FS_CardinalityType
<1>6. DecisionPrint(tape, m) =
        [m EXCEPT !.at = m.close - BtLead, !.result = "", !.bid = price, !.noBid = Dollar - price,
                  !.bidSize = depth, !.noSize = depth, !.sized = TRUE]
  BY DEF DecisionPrint
<1>7. m.close - BtLead \in Int
  BY BtAssumption
<1>. HIDE DEF i, price, depth, seen
<1>. QED BY <1>4, <1>5, <1>6, <1>7 DEF BtRows

\* Where the rows of the tables and of the prints may be decided on.
LEMMA TablesDecide ==
    ASSUME NEW tape, TapeOk(tape), NEW ticker, NEW close \in Int
    PROVE  /\ \A k : k \in DecisionRows(FromTables(tape), ticker, close) <=>
                  /\ k \in DOMAIN tape.markets /\ FreshBooks(tape, tape.markets[k]) # {}
                  /\ tape.markets[k].ticker = ticker /\ tape.markets[k].close = close
           /\ \A k \in DecisionRows(FromTables(tape), ticker, close) :
                  FromTables(tape)[k] = DecisionBook(tape, tape.markets[k])
<1>. DEFINE n == Len(tape.markets)
            rows == FromTables(tape)
            some == {k \in Listed(tape) : FreshBooks(tape, tape.markets[k]) # {}}
<1>1. /\ n \in Nat /\ DOMAIN tape.markets = 1..n /\ some \in SUBSET (1..n) /\ Listed(tape) \in SUBSET (1..n)
      /\ \A k \in 1..n : tape.markets[k] \in BtRows
      /\ \A k \in Listed(tape) : tape.markets[k].close \in Int
  BY DEF TapeOk, Listed, BtRows
<1>2. /\ DOMAIN rows = some \cup {n + k : k \in Listed(tape)}
      /\ \A k \in some : rows[k] = DecisionBook(tape, tape.markets[k])
      /\ \A k \in Listed(tape) : rows[n + k] = Settling(tape.markets[k])
  BY <1>1 DEF FromTables
<1>. HIDE DEF rows
<1>3. ASSUME NEW k \in some
      PROVE  /\ rows[k].ticker = tape.markets[k].ticker /\ rows[k].close = tape.markets[k].close
             /\ rows[k].at <= rows[k].close - BtLead
  <2>1. tape.markets[k] \in BtRows /\ tape.markets[k].close \in Int /\ FreshBooks(tape, tape.markets[k]) # {}
    BY <1>1
  <2>2. rows[k] = DecisionBook(tape, tape.markets[k])
    BY <1>2
  <2>. QED BY <2>1, <2>2, BookIs
<1>4. ASSUME NEW k \in Listed(tape)
      PROVE  rows[n + k].at = tape.markets[k].close /\ rows[n + k].close = tape.markets[k].close
             /\ ~(tape.markets[k].close <= tape.markets[k].close - BtLead)
  <2>. DEFINE m == tape.markets[k]
  <2>1. m \in BtRows /\ m.close \in Int /\ BtLead \in Nat \ {0}
    BY <1>1, BtAssumption
  <2>2. rows[n + k] = Settling(m)
    BY <1>2
  <2>. HIDE DEF m
  <2>3. Settling(m).at = m.close /\ Settling(m).close = m.close
    BY <2>1 DEF Settling, BtRows
  <2>4. ~(m.close <= m.close - BtLead)
    BY <2>1
  <2>. QED BY <2>2, <2>3, <2>4 DEF m
<1>5. \A k : k \in DecisionRows(rows, ticker, close) <=>
               k \in DOMAIN rows /\ rows[k].ticker = ticker /\ rows[k].close = close /\ rows[k].at <= close - BtLead
  BY DEF DecisionRows
<1>6. \A k : k \in DecisionRows(rows, ticker, close) <=>
               k \in some /\ tape.markets[k].ticker = ticker /\ tape.markets[k].close = close
  <2>. TAKE k
  <2>1. CASE k \in some
    BY <2>1, <1>2, <1>3, <1>5
  <2>2. CASE k \notin some
    <3>1. k \in DecisionRows(rows, ticker, close) => \E l \in Listed(tape) : k = n + l
      BY <2>2, <1>2, <1>5
    <3>2. ASSUME NEW l \in Listed(tape), k = n + l PROVE k \notin DecisionRows(rows, ticker, close)
      BY <3>2, <1>4, <1>5
    <3>. QED BY <2>2, <3>1, <3>2
  <2>. QED BY <2>1, <2>2
<1>7. \A k \in DOMAIN tape.markets : tape.markets[k].close = close => k \in Listed(tape)
  BY BtAssumption DEF Listed
<1>. QED BY <1>1, <1>2, <1>6, <1>7 DEF rows

\* The rows that the prints make.
LEMMA PrintRowsAre ==
    ASSUME NEW tape, TapeOk(tape)
    PROVE  LET rows == FromPrints(tape)
               some == {k \in Listed(tape) : FreshPrints(tape, tape.markets[k]) # {}}
           IN  /\ DOMAIN rows = {2 * k - 1 : k \in some} \cup {2 * k : k \in Listed(tape)}
               /\ \A k \in some : rows[2 * k - 1] = DecisionPrint(tape, tape.markets[k])
               /\ \A k \in Listed(tape) : rows[2 * k] = Settling(tape.markets[k])
<1>. DEFINE rows == FromPrints(tape)
            some == {k \in Listed(tape) : FreshPrints(tape, tape.markets[k]) # {}}
            I == {2 * k - 1 : k \in some} \cup {2 * k : k \in Listed(tape)}
            row(i) == IF i % 2 = 1 THEN DecisionPrint(tape, tape.markets[(i + 1) \div 2])
                      ELSE Settling(tape.markets[i \div 2])
<1>1. some \in SUBSET Nat /\ Listed(tape) \in SUBSET Nat
  BY DEF TapeOk, Listed
<1>2. \A k \in Nat : (2 * k - 1) % 2 = 1 /\ ((2 * k - 1) + 1) \div 2 = k /\ (2 * k) % 2 = 0 /\ (2 * k) \div 2 = k
  BY SMT
<1>3. rows = [i \in I |-> row(i)]
  BY DEF FromPrints
<1>4. ASSUME NEW k \in some PROVE 2 * k - 1 \in I /\ row(2 * k - 1) = DecisionPrint(tape, tape.markets[k])
  <2>1. 2 * k - 1 \in {2 * j - 1 : j \in some} /\ k \in Nat
    BY <1>1
  <2>2. row(2 * k - 1) = DecisionPrint(tape, tape.markets[k])
    BY <1>2, <2>1
  <2>. QED BY <2>1, <2>2
<1>5. ASSUME NEW k \in Listed(tape) PROVE 2 * k \in I /\ row(2 * k) = Settling(tape.markets[k])
  <2>1. 2 * k \in {2 * j : j \in Listed(tape)} /\ k \in Nat
    BY <1>1
  <2>2. row(2 * k) = Settling(tape.markets[k])
    BY <1>2, <2>1
  <2>. QED BY <2>1, <2>2
<1>6. /\ DOMAIN rows = I
      /\ \A k \in some : rows[2 * k - 1] = DecisionPrint(tape, tape.markets[k])
      /\ \A k \in Listed(tape) : rows[2 * k] = Settling(tape.markets[k])
  <2>. HIDE DEF row, rows, some, I
  <2>. QED BY <1>3, <1>4, <1>5
<1>. QED BY <1>6

MarketsPrinted(tape, ticker, close) ==
    {k \in DOMAIN tape.markets : /\ FreshPrints(tape, tape.markets[k]) # {}
                                 /\ tape.markets[k].ticker = ticker /\ tape.markets[k].close = close}

LEMMA PrintsDecide ==
    ASSUME NEW tape, TapeOk(tape), NEW ticker, NEW close \in Int
    PROVE  /\ DecisionRows(FromPrints(tape), ticker, close) = {2 * k - 1 : k \in MarketsPrinted(tape, ticker, close)}
           /\ \A k \in MarketsPrinted(tape, ticker, close) :
                  FromPrints(tape)[2 * k - 1] = DecisionPrint(tape, tape.markets[k])
<1>. DEFINE n == Len(tape.markets)
            rows == FromPrints(tape)
            some == {k \in Listed(tape) : FreshPrints(tape, tape.markets[k]) # {}}
<1>1. /\ n \in Nat /\ DOMAIN tape.markets = 1..n /\ some \in SUBSET (1..n) /\ Listed(tape) \in SUBSET (1..n)
      /\ \A k \in 1..n : tape.markets[k] \in BtRows
      /\ \A k \in Listed(tape) : tape.markets[k].close \in Int
  BY DEF TapeOk, Listed, BtRows
<1>2. /\ DOMAIN rows = {2 * k - 1 : k \in some} \cup {2 * k : k \in Listed(tape)}
      /\ \A k \in some : rows[2 * k - 1] = DecisionPrint(tape, tape.markets[k])
      /\ \A k \in Listed(tape) : rows[2 * k] = Settling(tape.markets[k])
  BY PrintRowsAre
<1>. HIDE DEF rows
<1>3. ASSUME NEW k \in some
      PROVE  /\ rows[2 * k - 1].ticker = tape.markets[k].ticker
             /\ rows[2 * k - 1].close = tape.markets[k].close
             /\ rows[2 * k - 1].at <= rows[2 * k - 1].close - BtLead
  <2>. DEFINE m == tape.markets[k]
  <2>1. m \in BtRows /\ m.close \in Int /\ FreshPrints(tape, m) # {} /\ BtLead \in Nat
    BY <1>1, BtAssumption
  <2>2. rows[2 * k - 1] = DecisionPrint(tape, m)
    BY <1>2
  <2>. HIDE DEF m
  <2>3. /\ DecisionPrint(tape, m).ticker = m.ticker /\ DecisionPrint(tape, m).close = m.close
        /\ DecisionPrint(tape, m).at = m.close - BtLead
    BY <2>1, PrintIs
  <2>4. m.close - BtLead <= m.close - BtLead
    BY <2>1
  <2>. QED BY <2>2, <2>3, <2>4 DEF m
<1>4. ASSUME NEW k \in Listed(tape)
      PROVE  rows[2 * k].at = tape.markets[k].close /\ rows[2 * k].close = tape.markets[k].close
             /\ ~(tape.markets[k].close <= tape.markets[k].close - BtLead)
  <2>. DEFINE m == tape.markets[k]
  <2>1. m \in BtRows /\ m.close \in Int /\ BtLead \in Nat \ {0}
    BY <1>1, BtAssumption
  <2>2. rows[2 * k] = Settling(m)
    BY <1>2
  <2>. HIDE DEF m
  <2>3. Settling(m).at = m.close /\ Settling(m).close = m.close
    BY <2>1 DEF Settling, BtRows
  <2>4. ~(m.close <= m.close - BtLead)
    BY <2>1
  <2>. QED BY <2>2, <2>3, <2>4 DEF m
<1>5. \A i : i \in DecisionRows(rows, ticker, close) <=>
               i \in DOMAIN rows /\ rows[i].ticker = ticker /\ rows[i].close = close /\ rows[i].at <= close - BtLead
  BY DEF DecisionRows
<1>6. ASSUME NEW i
      PROVE  i \in DecisionRows(rows, ticker, close) <=>
               \E k \in some : i = 2 * k - 1 /\ tape.markets[k].ticker = ticker /\ tape.markets[k].close = close
  <2>1. ASSUME NEW k \in some, i = 2 * k - 1
        PROVE  i \in DecisionRows(rows, ticker, close)
                 <=> tape.markets[k].ticker = ticker /\ tape.markets[k].close = close
    BY <2>1, <1>2, <1>3, <1>5
  <2>2. ASSUME NEW k \in Listed(tape), i = 2 * k PROVE i \notin DecisionRows(rows, ticker, close)
    <3>1. rows[i].at = tape.markets[k].close /\ rows[i].close = tape.markets[k].close
      BY <2>2, <1>4
    <3>2. i \in DecisionRows(rows, ticker, close) => rows[i].close = close /\ rows[i].at <= close - BtLead
      BY <1>5
    <3>3. ~(tape.markets[k].close <= tape.markets[k].close - BtLead)
      BY <1>4
    <3>. QED BY <3>1, <3>2, <3>3
  <2>3. i \in DecisionRows(rows, ticker, close) => i \in DOMAIN rows
    BY <1>5
  <2>. QED BY <2>1, <2>2, <2>3, <1>2
<1>7. \A k \in DOMAIN tape.markets : tape.markets[k].close = close => k \in Listed(tape)
  BY BtAssumption DEF Listed
<1>. DEFINE made == MarketsPrinted(tape, ticker, close)
<1>8. \A k : k \in made <=> k \in some /\ tape.markets[k].ticker = ticker /\ tape.markets[k].close = close
  BY <1>1, <1>7 DEF MarketsPrinted
<1>9. DecisionRows(rows, ticker, close) = {2 * k - 1 : k \in made}
  <2>. HIDE DEF some, made
  <2>. QED BY <1>6, <1>8
<1>10. \A k \in made : rows[2 * k - 1] = DecisionPrint(tape, tape.markets[k])
  BY <1>2, <1>8
<1>. QED BY <1>9, <1>10 DEF rows

-----------------------------------------------------------------------------
(***************************************************************************)
(* The backtest: what was known decides alike                              *)
(***************************************************************************)

\* The rows of a source; those without a close bear no time.
SourceOk(rows) ==
    /\ DOMAIN rows \in SUBSET Nat /\ IsFiniteSet(DOMAIN rows)
    /\ \A k \in DOMAIN rows : /\ rows[k].ticker \in BtTickers
                              /\ rows[k].close # NOTIME => rows[k] \in BtRows /\ rows[k].close \in Int

LEMMA BooksAreOk == ASSUME NEW tape, TapeOk(tape) PROVE SourceOk(tape.rows)
BY DEF TapeOk, Numbered, SourceOk, BtRows

LEMMA UndatedIsOk == ASSUME NEW tape, TapeOk(tape) PROVE SourceOk(UndatedRows(tape))
<1>. DEFINE rows == UndatedRows(tape)
            at(k) == IF tape.rows[k].close = NOTIME THEN NOTIME ELSE tape.rows[k].close - BtLead
<1>1. /\ DOMAIN tape.rows \in SUBSET Nat /\ IsFiniteSet(DOMAIN tape.rows)
      /\ \A k \in DOMAIN tape.rows : tape.rows[k] \in BtRows
  BY DEF TapeOk, Numbered
<1>2. DOMAIN rows = DOMAIN tape.rows /\ \A k \in DOMAIN tape.rows : rows[k] = [tape.rows[k] EXCEPT !.at = at(k)]
  BY DEF UndatedRows
<1>3. ASSUME NEW k \in DOMAIN tape.rows
      PROVE  /\ rows[k].ticker \in BtTickers
             /\ rows[k].close # NOTIME => rows[k] \in BtRows /\ rows[k].close \in Int
  <2>. DEFINE r == tape.rows[k]
  <2>1. r \in BtRows /\ rows[k] = [r EXCEPT !.at = at(k)]
    BY <1>1, <1>2
  <2>2. r.close # NOTIME => at(k) \in Int
    <3>1. r.close # NOTIME => r.close \in Int
      BY <2>1 DEF BtRows
    <3>. QED BY <3>1, BtAssumption
  <2>. HIDE DEF r, at, rows
  <2>3. rows[k].ticker = r.ticker /\ rows[k].close = r.close
    BY <2>1 DEF BtRows
  <2>4. at(k) \in Int => rows[k] \in BtRows
    BY <2>1 DEF BtRows
  <2>5. r.ticker \in BtTickers /\ (r.close # NOTIME => r.close \in Int)
    BY <2>1 DEF BtRows
  <2>. QED BY <2>2, <2>3, <2>4, <2>5
<1>. HIDE DEF rows
<1>. QED BY <1>1, <1>2, <1>3 DEF SourceOk, rows

LEMMA SettlingIs ==
    ASSUME NEW m \in BtRows, m.close \in Int
    PROVE  Settling(m) \in BtRows /\ Settling(m).close = m.close /\ Settling(m).ticker = m.ticker
BY DEF Settling, BtRows

LEMMA TablesAreOk == ASSUME NEW tape, TapeOk(tape) PROVE SourceOk(FromTables(tape))
<1>. DEFINE n == Len(tape.markets)
            rows == FromTables(tape)
            some == {k \in Listed(tape) : FreshBooks(tape, tape.markets[k]) # {}}
<1>1. /\ n \in Nat /\ some \in SUBSET (1..n) /\ Listed(tape) \in SUBSET (1..n)
      /\ \A k \in 1..n : tape.markets[k] \in BtRows
      /\ \A k \in Listed(tape) : tape.markets[k].close \in Int
  BY DEF TapeOk, Listed, BtRows
<1>2. /\ DOMAIN rows = some \cup {n + k : k \in Listed(tape)}
      /\ \A k \in some : rows[k] = DecisionBook(tape, tape.markets[k])
      /\ \A k \in Listed(tape) : rows[n + k] = Settling(tape.markets[k])
  BY <1>1 DEF FromTables
<1>3. DOMAIN rows \in SUBSET Nat /\ IsFiniteSet(DOMAIN rows)
  <2>1. DOMAIN rows \in SUBSET (1..(n + n))
    BY <1>1, <1>2
  <2>2. IsFiniteSet(1..(n + n))
    BY <1>1, FS_Interval
  <2>. QED BY <2>1, <2>2, FS_Subset
<1>. HIDE DEF rows
<1>4. ASSUME NEW k \in some PROVE rows[k] \in BtRows /\ rows[k].close \in Int
  <2>1. tape.markets[k] \in BtRows /\ tape.markets[k].close \in Int /\ FreshBooks(tape, tape.markets[k]) # {}
    BY <1>1
  <2>2. rows[k] = DecisionBook(tape, tape.markets[k])
    BY <1>2
  <2>. QED BY <2>1, <2>2, BookIs
<1>5. ASSUME NEW k \in Listed(tape) PROVE rows[n + k] \in BtRows /\ rows[n + k].close \in Int
  <2>1. tape.markets[k] \in BtRows /\ tape.markets[k].close \in Int
    BY <1>1
  <2>2. rows[n + k] = Settling(tape.markets[k])
    BY <1>2
  <2>. QED BY <2>1, <2>2, SettlingIs
<1>6. \A k \in DOMAIN rows : rows[k] \in BtRows /\ rows[k].close \in Int
  <2>. HIDE DEF n, some
  <2>. QED BY <1>2, <1>4, <1>5
<1>7. \A k \in DOMAIN rows : rows[k].ticker \in BtTickers
  BY <1>6 DEF BtRows
<1>. QED BY <1>3, <1>6, <1>7 DEF SourceOk, rows

LEMMA PrintsAreOk == ASSUME NEW tape, TapeOk(tape) PROVE SourceOk(FromPrints(tape))
<1>. DEFINE n == Len(tape.markets)
            rows == FromPrints(tape)
            some == {k \in Listed(tape) : FreshPrints(tape, tape.markets[k]) # {}}
<1>1. /\ n \in Nat /\ some \in SUBSET (1..n) /\ Listed(tape) \in SUBSET (1..n)
      /\ \A k \in 1..n : tape.markets[k] \in BtRows
      /\ \A k \in Listed(tape) : tape.markets[k].close \in Int
  BY DEF TapeOk, Listed, BtRows
<1>2. /\ DOMAIN rows = {2 * k - 1 : k \in some} \cup {2 * k : k \in Listed(tape)}
      /\ \A k \in some : rows[2 * k - 1] = DecisionPrint(tape, tape.markets[k])
      /\ \A k \in Listed(tape) : rows[2 * k] = Settling(tape.markets[k])
  BY PrintRowsAre
<1>3. DOMAIN rows \in SUBSET Nat /\ IsFiniteSet(DOMAIN rows)
  <2>1. \A k \in 1..n : 2 * k - 1 \in 1..(n + n) /\ 2 * k \in 1..(n + n)
    BY <1>1
  <2>2. DOMAIN rows \in SUBSET (1..(n + n))
    <3>. HIDE DEF rows, n
    <3>. QED BY <2>1, <1>1, <1>2
  <2>3. IsFiniteSet(1..(n + n)) /\ 1..(n + n) \in SUBSET Nat
    BY <1>1, FS_Interval
  <2>. QED BY <2>2, <2>3, FS_Subset
<1>. HIDE DEF rows
<1>4. ASSUME NEW k \in some PROVE rows[2 * k - 1] \in BtRows /\ rows[2 * k - 1].close \in Int
  <2>1. tape.markets[k] \in BtRows /\ tape.markets[k].close \in Int /\ FreshPrints(tape, tape.markets[k]) # {}
    BY <1>1
  <2>2. rows[2 * k - 1] = DecisionPrint(tape, tape.markets[k])
    BY <1>2
  <2>. QED BY <2>1, <2>2, PrintIs
<1>5. ASSUME NEW k \in Listed(tape) PROVE rows[2 * k] \in BtRows /\ rows[2 * k].close \in Int
  <2>1. tape.markets[k] \in BtRows /\ tape.markets[k].close \in Int
    BY <1>1
  <2>2. rows[2 * k] = Settling(tape.markets[k])
    BY <1>2
  <2>. QED BY <2>1, <2>2, SettlingIs
<1>6. \A k \in DOMAIN rows : rows[k] \in BtRows /\ rows[k].close \in Int
  <2>. HIDE DEF n, some
  <2>. QED BY <1>2, <1>4, <1>5
<1>7. \A k \in DOMAIN rows : rows[k].ticker \in BtTickers
  BY <1>6 DEF BtRows
<1>. QED BY <1>3, <1>6, <1>7 DEF SourceOk, rows

LEMMA SourceIsOk ==
    ASSUME NEW job, JobOk(job), job.source # "trades"
    PROVE  SourceOk(SourceRows(job.source, job.tape))
BY BooksAreOk, UndatedIsOk, TablesAreOk, PrintsAreOk DEF JobOk, SourceRows

\* Decisions up to a time are made on the same rows of both.
DecideAlike(rows, other, t) ==
    \A ticker \in BtTickers, close \in Int :
        close - BtLead <= t =>
            /\ DecisionRows(rows, ticker, close) = DecisionRows(other, ticker, close)
            /\ \A i \in DecisionRows(rows, ticker, close) : rows[i] = other[i]

LEMMA BooksAlike ==
    ASSUME NEW tape, TapeOk(tape), NEW t \in Int
    PROVE  DecideAlike(tape.rows, Until(tape.rows, t), t)
<1>. DEFINE rows == tape.rows
            other == Until(rows, t)
<1>1. Numbered(rows, BtRows) /\ \A k \in DOMAIN rows : rows[k].at \in Int
  BY DEF TapeOk, Numbered, BtRows
<1>2. /\ \A k \in DOMAIN rows : rows[k].at <= t <=> k \in DOMAIN other
      /\ \A k \in DOMAIN other : k \in DOMAIN rows /\ other[k] = rows[k]
  BY <1>1, UntilIs
<1>. HIDE DEF rows, other
<1>3. ASSUME NEW ticker \in BtTickers, NEW close \in Int, close - BtLead <= t
      PROVE  /\ DecisionRows(rows, ticker, close) = DecisionRows(other, ticker, close)
             /\ \A i \in DecisionRows(rows, ticker, close) : rows[i] = other[i]
  <2>1. close - BtLead \in Int
    BY BtAssumption
  <2>2. \A i \in DOMAIN rows : rows[i].at <= close - BtLead => i \in DOMAIN other
    BY <1>1, <1>2, <1>3, <2>1
  <2>. QED BY <2>2, <1>2 DEF DecisionRows
<1>. QED BY <1>3 DEF DecideAlike, rows, other

\* The evidence on a market up to a time is the same in both tapes.
LEMMA EvidenceAlike ==
    ASSUME NEW job, JobOk(job), NEW t \in Int, NEW m, m.close \in Int, m.close - BtLead <= t
    PROVE  LET tape  == job.tape
               known == KnownAt(job, t).tape
           IN  /\ job.source # "undated" =>
                    FreshBooks(known, m) = FreshBooks(tape, m) /\ (FreshBooks(tape, m) # {} => DecisionBook(known, m) = DecisionBook(tape, m))
               /\ FreshPrints(known, m) = FreshPrints(tape, m) /\ (FreshPrints(tape, m) # {} => DecisionPrint(known, m) = DecisionPrint(tape, m))
<1>. DEFINE tape  == job.tape
            known == KnownAt(job, t).tape
            at == m.close - BtLead
<1>1. TapeOk(tape) /\ Numbered(tape.rows, BtRows) /\ Numbered(tape.prints, BtPrints)
  BY DEF JobOk, TapeOk
<1>2. /\ job.source # "undated" => known.rows = Until(tape.rows, t)
      /\ known.prints = Until(tape.prints, t)
  BY DEF KnownAt
<1>3. at \in Int /\ at <= t
  BY BtAssumption
<1>. HIDE DEF known, tape, at
<1>4. ASSUME NEW S, NEW rows, Numbered(rows, S), \A k \in DOMAIN rows : rows[k].at \in Int
      PROVE  /\ \A k \in DOMAIN rows : rows[k].at <= at => k \in DOMAIN Until(rows, t)
             /\ \A k \in DOMAIN Until(rows, t) : k \in DOMAIN rows /\ Until(rows, t)[k] = rows[k]
  <2>1. /\ \A k \in DOMAIN rows : rows[k].at <= t <=> k \in DOMAIN Until(rows, t)
        /\ \A k \in DOMAIN Until(rows, t) : k \in DOMAIN rows /\ Until(rows, t)[k] = rows[k]
    BY <1>4, UntilIs
  <2>2. \A k \in DOMAIN rows : rows[k].at <= at => rows[k].at <= t
    BY <1>3, <1>4
  <2>. QED BY <2>1, <2>2
<1>5. \A k \in DOMAIN tape.rows : tape.rows[k].at \in Int
  BY <1>1 DEF Numbered, BtRows
<1>6. \A k \in DOMAIN tape.prints : tape.prints[k].at \in Int
  BY <1>1 DEF Numbered, BtPrints
<1>7. ASSUME job.source # "undated"
      PROVE  FreshBooks(known, m) = FreshBooks(tape, m) /\ (FreshBooks(tape, m) # {} => DecisionBook(known, m) = DecisionBook(tape, m))
  <2>1. /\ \A k \in DOMAIN tape.rows : tape.rows[k].at <= at => k \in DOMAIN known.rows
        /\ \A k \in DOMAIN known.rows : k \in DOMAIN tape.rows /\ known.rows[k] = tape.rows[k]
    BY <1>1, <1>2, <1>4, <1>5, <1>7
  <2>2. FreshBooks(known, m) = FreshBooks(tape, m)
    BY <2>1 DEF FreshBooks, at
  <2>3. \A i \in FreshBooks(tape, m) : known.rows[i] = tape.rows[i] /\ i \in DOMAIN tape.rows
    BY <2>1, <2>2 DEF FreshBooks
  <2>4. LatestOf(known.rows, FreshBooks(tape, m)) = LatestOf(tape.rows, FreshBooks(tape, m))
    BY <2>3, LatestAlike
  <2>5. FreshBooks(tape, m) # {} =>
          known.rows[LatestOf(tape.rows, FreshBooks(tape, m))] = tape.rows[LatestOf(tape.rows, FreshBooks(tape, m))]
    <3>1. FreshBooks(tape, m) # {} => LatestOf(tape.rows, FreshBooks(tape, m)) \in FreshBooks(tape, m)
      BY <1>1, <1>5, <2>3, LatestIs
    <3>. QED BY <2>3, <3>1
  <2>. QED BY <2>2, <2>4, <2>5 DEF DecisionBook
<1>8. FreshPrints(known, m) = FreshPrints(tape, m) /\ (FreshPrints(tape, m) # {} => DecisionPrint(known, m) = DecisionPrint(tape, m))
  <2>1. /\ \A k \in DOMAIN tape.prints : tape.prints[k].at <= at => k \in DOMAIN known.prints
        /\ \A k \in DOMAIN known.prints : k \in DOMAIN tape.prints /\ known.prints[k] = tape.prints[k]
    BY <1>1, <1>2, <1>4, <1>6
  <2>2. PrintsOf(known, m) = PrintsOf(tape, m)
    BY <2>1 DEF PrintsOf, at
  <2>3. \A i \in PrintsOf(tape, m) : known.prints[i] = tape.prints[i] /\ i \in DOMAIN tape.prints
    BY <2>1, <2>2 DEF PrintsOf
  <2>4. FreshPrints(known, m) = FreshPrints(tape, m) /\ FreshPrints(tape, m) \subseteq PrintsOf(tape, m)
    BY <2>2, <2>3 DEF FreshPrints
  <2>5. LatestOf(known.prints, FreshPrints(tape, m)) = LatestOf(tape.prints, FreshPrints(tape, m))
    BY <2>3, <2>4, LatestAlike
  <2>6. FreshPrints(tape, m) # {} =>
          known.prints[LatestOf(tape.prints, FreshPrints(tape, m))] = tape.prints[LatestOf(tape.prints, FreshPrints(tape, m))]
    <3>1. FreshPrints(tape, m) # {} => LatestOf(tape.prints, FreshPrints(tape, m)) \in FreshPrints(tape, m)
      BY <1>1, <1>6, <2>3, <2>4, LatestIs
    <3>. QED BY <2>3, <2>4, <3>1
  <2>7. {i \in PrintsOf(known, m) : known.prints[i].at > m.close - BtLead - BtDepthWindow}
          = {i \in PrintsOf(tape, m) : tape.prints[i].at > m.close - BtLead - BtDepthWindow}
    BY <2>2, <2>3
  <2>. QED BY <2>4, <2>5, <2>6, <2>7 DEF DecisionPrint
<1>. QED BY <1>7, <1>8 DEF tape, known

LEMMA TablesAlike ==
    ASSUME NEW job, JobOk(job), job.source # "undated", NEW t \in Int
    PROVE  DecideAlike(FromTables(job.tape), FromTables(KnownAt(job, t).tape), t)
<1>. DEFINE tape  == job.tape
            known == KnownAt(job, t).tape
<1>1. TapeOk(tape) /\ TapeOk(known) /\ known.markets = tape.markets
  BY KnownIsOk DEF JobOk, KnownAt
<1>2. ASSUME NEW m, m.close \in Int, m.close - BtLead <= t
      PROVE  FreshBooks(known, m) = FreshBooks(tape, m) /\ (FreshBooks(tape, m) # {} => DecisionBook(known, m) = DecisionBook(tape, m))
  BY <1>2, EvidenceAlike
<1>. HIDE DEF tape, known
<1>3. ASSUME NEW ticker \in BtTickers, NEW close \in Int, close - BtLead <= t
      PROVE  /\ DecisionRows(FromTables(tape), ticker, close) = DecisionRows(FromTables(known), ticker, close)
             /\ \A i \in DecisionRows(FromTables(tape), ticker, close) : FromTables(tape)[i] = FromTables(known)[i]
  <2>1. /\ \A k : k \in DecisionRows(FromTables(tape), ticker, close) <=>
                  /\ k \in DOMAIN tape.markets /\ FreshBooks(tape, tape.markets[k]) # {}
                  /\ tape.markets[k].ticker = ticker /\ tape.markets[k].close = close
        /\ \A k \in DecisionRows(FromTables(tape), ticker, close) :
              FromTables(tape)[k] = DecisionBook(tape, tape.markets[k])
    BY <1>1, TablesDecide, SMTT(30)
  <2>2. /\ \A k : k \in DecisionRows(FromTables(known), ticker, close) <=>
                  /\ k \in DOMAIN known.markets /\ FreshBooks(known, known.markets[k]) # {}
                  /\ known.markets[k].ticker = ticker /\ known.markets[k].close = close
        /\ \A k \in DecisionRows(FromTables(known), ticker, close) :
              FromTables(known)[k] = DecisionBook(known, known.markets[k])
    BY <1>1, TablesDecide, SMTT(30)
  <2>3. \A k : tape.markets[k].close = close =>
                 /\ FreshBooks(known, tape.markets[k]) = FreshBooks(tape, tape.markets[k])
                 /\ FreshBooks(tape, tape.markets[k]) # {} =>
                      DecisionBook(known, tape.markets[k]) = DecisionBook(tape, tape.markets[k])
    BY <1>2, <1>3
  <2>4. \A k : k \in DecisionRows(FromTables(tape), ticker, close) <=> k \in DecisionRows(FromTables(known), ticker, close)
    BY <1>1, <2>1, <2>2, <2>3
  <2>5. ASSUME NEW i \in DecisionRows(FromTables(tape), ticker, close) PROVE FromTables(tape)[i] = FromTables(known)[i]
    BY <1>1, <2>1, <2>2, <2>3, <2>4
  <2>6. DecisionRows(FromTables(tape), ticker, close) = DecisionRows(FromTables(known), ticker, close)
    <3>. DEFINE A == DecisionRows(FromTables(tape), ticker, close)
                B == DecisionRows(FromTables(known), ticker, close)
    <3>. HIDE DEF A, B
    <3>1. \A k : k \in A <=> k \in B
      BY <2>4 DEF A, B
    <3>2. A = B
      BY <3>1
    <3>. QED BY <3>2 DEF A, B
  <2>. QED BY <2>5, <2>6
<1>. QED BY <1>3 DEF DecideAlike, tape, known

LEMMA PrintsAlike ==
    ASSUME NEW job, JobOk(job), NEW t \in Int
    PROVE  DecideAlike(FromPrints(job.tape), FromPrints(KnownAt(job, t).tape), t)
<1>. DEFINE tape  == job.tape
            known == KnownAt(job, t).tape
<1>1. TapeOk(tape) /\ TapeOk(known) /\ known.markets = tape.markets
  BY KnownIsOk DEF JobOk, KnownAt
<1>2. ASSUME NEW m, m.close \in Int, m.close - BtLead <= t
      PROVE  FreshPrints(known, m) = FreshPrints(tape, m) /\ (FreshPrints(tape, m) # {} => DecisionPrint(known, m) = DecisionPrint(tape, m))
  BY <1>2, EvidenceAlike
<1>. HIDE DEF tape, known
<1>3. ASSUME NEW ticker \in BtTickers, NEW close \in Int, close - BtLead <= t
      PROVE  /\ DecisionRows(FromPrints(tape), ticker, close) = DecisionRows(FromPrints(known), ticker, close)
             /\ \A i \in DecisionRows(FromPrints(tape), ticker, close) : FromPrints(tape)[i] = FromPrints(known)[i]
  <2>. DEFINE A == DecisionRows(FromPrints(tape), ticker, close)
              B == DecisionRows(FromPrints(known), ticker, close)
  <2>. DEFINE made == MarketsPrinted(tape, ticker, close)
  <2>1. A = {2 * k - 1 : k \in made} /\ \A k \in made : FromPrints(tape)[2 * k - 1] = DecisionPrint(tape, tape.markets[k])
    BY <1>1, PrintsDecide
  <2>2. /\ B = {2 * k - 1 : k \in MarketsPrinted(known, ticker, close)}
        /\ \A k \in MarketsPrinted(known, ticker, close) :
              FromPrints(known)[2 * k - 1] = DecisionPrint(known, known.markets[k])
    BY <1>1, PrintsDecide
  <2>3. \A k : tape.markets[k].close = close =>
                 /\ FreshPrints(known, tape.markets[k]) = FreshPrints(tape, tape.markets[k])
                 /\ FreshPrints(tape, tape.markets[k]) # {} =>
                      DecisionPrint(known, tape.markets[k]) = DecisionPrint(tape, tape.markets[k])
    BY <1>2, <1>3
  <2>4. MarketsPrinted(known, ticker, close) = made
    BY <1>1, <2>3 DEF MarketsPrinted
  <2>5. A = B
    BY <2>1, <2>2, <2>4
  <2>6. ASSUME NEW k \in made PROVE FromPrints(tape)[2 * k - 1] = FromPrints(known)[2 * k - 1]
    <3>1. FromPrints(tape)[2 * k - 1] = DecisionPrint(tape, tape.markets[k])
      BY <2>1
    <3>2. FromPrints(known)[2 * k - 1] = DecisionPrint(known, tape.markets[k])
      BY <1>1, <2>2, <2>4
    <3>. QED BY <3>1, <3>2, <2>3 DEF MarketsPrinted
  <2>. HIDE DEF made
  <2>7. \A i \in A : FromPrints(tape)[i] = FromPrints(known)[i]
    BY <2>1, <2>6
  <2>. QED BY <2>5, <2>7
<1>. QED BY <1>3 DEF DecideAlike, tape, known

LEMMA SourcesAlike ==
    ASSUME NEW job, JobOk(job), job.source # "trades", NEW t \in Int
    PROVE  DecideAlike(SourceRows(job.source, job.tape), SourceRows(job.source, KnownAt(job, t).tape), t)
<1>1. CASE job.source = "file"
  <2>1. KnownAt(job, t).tape.rows = Until(job.tape.rows, t)
    BY <1>1 DEF KnownAt
  <2>. QED BY <1>1, <2>1, BooksAlike DEF SourceRows, JobOk
<1>2. CASE job.source = "undated"
  <2>1. KnownAt(job, t).tape.rows = job.tape.rows
    BY <1>2 DEF KnownAt
  <2>2. UndatedRows(KnownAt(job, t).tape) = UndatedRows(job.tape)
    BY <2>1 DEF UndatedRows
  <2>. QED BY <1>2, <2>2 DEF SourceRows, DecideAlike
<1>3. CASE job.source = "tables"
  BY <1>3, TablesAlike DEF SourceRows
<1>4. CASE job.source = "prints"
  BY <1>4, PrintsAlike DEF SourceRows
<1>. QED BY <1>1, <1>2, <1>3, <1>4 DEF JobOk

-----------------------------------------------------------------------------
(***************************************************************************)
(* The backtest: its decisions                                             *)
(***************************************************************************)

\* The markets and closes that a source has a decision on.
LEMMA KeysAre ==
    ASSUME NEW rows, SourceOk(rows)
    PROVE  /\ IsFiniteSet(Keys(rows)) /\ Keys(rows) \in SUBSET (BtTickers \X Int)
           /\ \A u \in BtTickers, c \in Int : <<u, c>> \in Keys(rows) <=> DecisionRows(rows, u, c) # {}
<1>. DEFINE I == {j \in DOMAIN rows : rows[j].close # NOTIME}
            key == [i \in I |-> <<rows[i].ticker, rows[i].close>>]
            all == {<<rows[i].ticker, rows[i].close>> : i \in I}
<1>1. Keys(rows) = {k \in all : DecisionRows(rows, k[1], k[2]) # {}}
  BY DEF Keys
<1>2. IsFiniteSet(all)
  <2>1. IsFiniteSet(I)
    BY FS_Subset DEF SourceOk
  <2>2. IsFiniteSet({key[i] : i \in I})
    BY <2>1, ImageIsFinite
  <2>3. {key[i] : i \in I} = all
    OBVIOUS
  <2>. QED BY <2>2, <2>3
<1>3. all \in SUBSET (BtTickers \X Int)
  BY DEF SourceOk
<1>4. IsFiniteSet(Keys(rows)) /\ Keys(rows) \in SUBSET all
  <2>. HIDE DEF all
  <2>1. Keys(rows) \in SUBSET all
    BY <1>1
  <2>. QED BY <2>1, <1>2, FS_Subset
<1>5. ASSUME NEW u \in BtTickers, NEW c \in Int, DecisionRows(rows, u, c) # {} PROVE <<u, c>> \in all
  <2>1. PICK i \in DOMAIN rows : rows[i].ticker = u /\ rows[i].close = c
    BY <1>5 DEF DecisionRows
  <2>2. c # NOTIME
    BY BtAssumption
  <2>. QED BY <2>1, <2>2
<1>6. \A u \in BtTickers, c \in Int : <<u, c>> \in Keys(rows) <=> DecisionRows(rows, u, c) # {}
  <2>. HIDE DEF all
  <2>. TAKE u \in BtTickers, c \in Int
  <2>1. <<u, c>>[1] = u /\ <<u, c>>[2] = c
    OBVIOUS
  <2>. QED BY <1>1, <1>5, <2>1
<1>. QED BY <1>3, <1>4, <1>6

LEMMA ByCloseOrders ==
    ASSUME NEW keys \in SUBSET (BtTickers \X Int)
    PROVE  Orders(ByClose(keys), keys)
<1>. DEFINE lt(p, q) == p[2] < q[2] \/ (p[2] = q[2] /\ BtOrder[p[1]] < BtOrder[q[1]])
<1>1. \A p, q \in keys : <<p, q>> \in ByClose(keys) <=> lt(p, q)
  BY DEF ByClose
<1>2. \A p, q : <<p, q>> \in ByClose(keys) => p \in keys /\ q \in keys
  BY DEF ByClose
<1>3. \A p \in keys : p[1] \in BtTickers /\ p[2] \in Int /\ BtOrder[p[1]] \in Int /\ p = <<p[1], p[2]>>
  BY BtAssumption
<1>4. \A p \in keys : ~lt(p, p)
  BY <1>3
<1>5. ASSUME NEW p \in keys, NEW q \in keys, p # q PROVE lt(p, q) \/ lt(q, p)
  <2>1. p[2] = q[2] => p[1] # q[1]
    BY <1>3, <1>5
  <2>2. p[2] = q[2] => BtOrder[p[1]] # BtOrder[q[1]]
    BY <1>3, <2>1, BtAssumption
  <2>. QED BY <1>3, <2>2
<1>6. \A p, q, r \in keys : lt(p, q) /\ lt(q, r) => lt(p, r)
  BY <1>3
<1>. HIDE DEF lt
<1>. QED BY <1>1, <1>4, <1>5, <1>6 DEF Orders

\* A decision of the replay.
DecisionOk(d) ==
    /\ d.ticker \in BtTickers /\ d.asof \in Int /\ d.close \in Int \cup {NOTIME} /\ d.row \in BtRows

LEMMA DecisionAtIs ==
    ASSUME NEW rows, SourceOk(rows), NEW strategy, NEW k \in Keys(rows)
    PROVE  /\ DecisionOk(DecisionAt(rows, strategy, k)) /\ DecisionAt(rows, strategy, k).close = k[2]
           /\ DecisionAt(rows, strategy, k).ticker = k[1]
           /\ DecisionAt(rows, strategy, k).asof = k[2] - BtLead
           /\ DecisionAt(rows, strategy, k).row = rows[LatestOf(rows, DecisionRows(rows, k[1], k[2]))]
<1>1. k[1] \in BtTickers /\ k[2] \in Int /\ k = <<k[1], k[2]>> /\ k[2] # NOTIME /\ k[2] - BtLead \in Int
  BY KeysAre, BtAssumption
<1>. DEFINE I == DecisionRows(rows, k[1], k[2])
<1>2. I # {} /\ I \in SUBSET DOMAIN rows /\ \A i \in I : rows[i] \in BtRows
  BY <1>1, KeysAre DEF DecisionRows, SourceOk
<1>3. Numbered(rows, {rows[i] : i \in DOMAIN rows})
  BY DEF Numbered, SourceOk
<1>4. \A i \in I : rows[i].at \in Int
  BY <1>2 DEF BtRows
<1>5. LatestOf(rows, I) \in I
  <2>. HIDE DEF I
  <2>. QED BY <1>2, <1>3, <1>4, LatestIs
<1>. QED BY <1>1, <1>2, <1>5 DEF DecisionAt, DecisionOk

\* The decisions of a job.
DecisionsOk(ds) ==
    /\ Len(ds) \in Nat /\ DOMAIN ds = 1..Len(ds)
    /\ \A n \in 1..Len(ds) : DecisionOk(ds[n])
    /\ \A i, j \in 1..Len(ds) : i < j => ds[i].asof <= ds[j].asof

\* The same decisions up to a time.
SameStart(ds, es, t) ==
    \E m \in Nat :
        /\ m <= Len(ds) /\ m <= Len(es)
        /\ \A n \in 1..m : ds[n] = es[n] /\ ds[n].asof <= t
        /\ \A n \in (m + 1)..Len(ds) : ds[n].asof > t
        /\ \A n \in (m + 1)..Len(es) : es[n].asof > t

LEMMA DecisionsAre ==
    ASSUME NEW rows, SourceOk(rows), NEW strategy
    PROVE  LET sorted == InOrder(Keys(rows), ByClose(Keys(rows)))
               ds     == Decisions(rows, strategy)
           IN  /\ DecisionsOk(ds) /\ Len(ds) = Cardinality(Keys(rows))
               /\ \A n \in 1..Len(ds) : /\ sorted[n] \in Keys(rows)
                                        /\ ds[n] = DecisionAt(rows, strategy, sorted[n])
<1>. DEFINE keys   == Keys(rows)
            sorted == InOrder(keys, ByClose(keys))
            ds     == Decisions(rows, strategy)
            c      == Cardinality(keys)
<1>1. IsFiniteSet(keys) /\ keys \in SUBSET (BtTickers \X Int) /\ Orders(ByClose(keys), keys) /\ c \in Nat
  BY KeysAre, ByCloseOrders, FS_CardinalityType
<1>2. DOMAIN sorted = 1..c /\ \A n \in 1..c : sorted[n] \in keys
  BY <1>1, InOrderIs
<1>3. \A i, j \in 1..c : i < j => <<sorted[i], sorted[j]>> \in ByClose(keys)
  BY <1>1, InOrderRises
<1>4. ds = [n \in 1..c |-> DecisionAt(rows, strategy, sorted[n])]
  <2>1. ds = [n \in DOMAIN sorted |-> DecisionAt(rows, strategy, sorted[n])]
    BY DEF Decisions
  <2>. HIDE DEF ds, sorted, c
  <2>. QED BY <1>2, <2>1
<1>. HIDE DEF sorted, ds, c
<1>5. /\ Len(ds) = c /\ DOMAIN ds = 1..c
      /\ \A n \in 1..c : ds[n] = DecisionAt(rows, strategy, sorted[n])
  BY <1>1, <1>4
<1>. HIDE DEF keys
<1>6. \A n \in 1..c : DecisionOk(ds[n]) /\ ds[n].asof = sorted[n][2] - BtLead /\ sorted[n][2] \in Int
  BY <1>1, <1>2, <1>5, DecisionAtIs DEF keys
<1>7. ASSUME NEW i \in 1..c, NEW j \in 1..c, i < j PROVE ds[i].asof <= ds[j].asof
  <2>1. sorted[i][2] <= sorted[j][2]
    <3>1. \A x, y : <<x, y>> \in ByClose(keys) => x[2] < y[2] \/ x[2] = y[2]
      BY DEF ByClose
    <3>2. sorted[i][2] < sorted[j][2] \/ sorted[i][2] = sorted[j][2]
      BY <1>3, <1>7, <3>1
    <3>. QED BY <1>6, <3>2
  <2>. QED BY <2>1, <1>6, BtAssumption
<1>. QED BY <1>1, <1>2, <1>5, <1>6, <1>7 DEF DecisionsOk, keys, sorted, ds, c

\* What was known at a time decides alike up to it.
LEMMA RowsStart ==
    ASSUME NEW rows, SourceOk(rows), NEW other, SourceOk(other), NEW t \in Int, DecideAlike(rows, other, t),
           NEW strategy
    PROVE  SameStart(Decisions(rows, strategy), Decisions(other, strategy), t)
<1>. DEFINE S == Keys(rows)
            T == Keys(other)
            R == ByClose(S)
            Q == ByClose(T)
            U == {k \in S : k[2] - BtLead <= t}
            q == InOrder(S, R)
            r == InOrder(T, Q)
            m == Cardinality(U)
            ds == Decisions(rows, strategy)
            es == Decisions(other, strategy)
<1>1. /\ IsFiniteSet(S) /\ S \in SUBSET (BtTickers \X Int) /\ Orders(R, S)
      /\ IsFiniteSet(T) /\ T \in SUBSET (BtTickers \X Int) /\ Orders(Q, T)
  BY KeysAre, ByCloseOrders
<1>2. \A k \in BtTickers \X Int : k = <<k[1], k[2]>> /\ k[1] \in BtTickers /\ k[2] \in Int /\ k[2] - BtLead \in Int
  BY BtAssumption
<1>3. \A k \in BtTickers \X Int : k[2] - BtLead <= t => (k \in S <=> k \in T)
  <2>. TAKE k \in BtTickers \X Int
  <2>1. k = <<k[1], k[2]>> /\ k[1] \in BtTickers /\ k[2] \in Int
    BY <1>2
  <2>2. k \in S <=> DecisionRows(rows, k[1], k[2]) # {}
    BY <2>1, KeysAre
  <2>3. k \in T <=> DecisionRows(other, k[1], k[2]) # {}
    BY <2>1, KeysAre
  <2>. QED BY <2>1, <2>2, <2>3 DEF DecideAlike
<1>4. \A k \in U : k \in S /\ k \in T /\ k[2] - BtLead <= t
  BY <1>1, <1>3
<1>5. \A k \in T : k \notin U => ~(k[2] - BtLead <= t)
  BY <1>1, <1>3
<1>6. /\ \A x, y : <<x, y>> \in R <=>
              (x \in S /\ y \in S /\ (x[2] < y[2] \/ (x[2] = y[2] /\ BtOrder[x[1]] < BtOrder[y[1]])))
      /\ \A x, y : <<x, y>> \in Q <=>
              (x \in T /\ y \in T /\ (x[2] < y[2] \/ (x[2] = y[2] /\ BtOrder[x[1]] < BtOrder[y[1]])))
  BY DEF ByClose
<1>7. \A x, y \in BtTickers \X Int : (x[2] < y[2] \/ x[2] = y[2]) /\ y[2] - BtLead <= t => x[2] - BtLead <= t
  BY <1>2, BtAssumption
<1>. HIDE DEF R, Q, S, T
<1>8. \A x \in U, y \in S : <<y, x>> \in R => y \in U
  BY <1>1, <1>4, <1>6, <1>7
<1>9. \A x \in U, y \in T : <<y, x>> \in Q => y \in U
  BY <1>1, <1>3, <1>4, <1>6, <1>7
<1>10. \A x, y \in U : <<x, y>> \in R <=> <<x, y>> \in Q
  BY <1>4, <1>6
<1>11. /\ m \in 0..Cardinality(S) /\ m \in 0..Cardinality(T)
       /\ \A n \in 1..m : q[n] = r[n] /\ q[n] \in U
       /\ \A n \in (m + 1)..Cardinality(S) : q[n] \in S \ U
       /\ \A n \in (m + 1)..Cardinality(T) : r[n] \in T \ U
  <2>1. U \subseteq S /\ U \subseteq T
    BY <1>4
  <2>. HIDE DEF U
  <2>. QED BY <1>1, <1>8, <1>9, <1>10, <2>1, CommonStart
<1>12. /\ Len(ds) = Cardinality(S) /\ \A n \in 1..Len(ds) : q[n] \in S /\ ds[n] = DecisionAt(rows, strategy, q[n])
       /\ Len(es) = Cardinality(T) /\ \A n \in 1..Len(es) : r[n] \in T /\ es[n] = DecisionAt(other, strategy, r[n])
       /\ DecisionsOk(ds) /\ DecisionsOk(es)
  BY DecisionsAre DEF S, T, R, Q
<1>13. \A k \in U : DecisionAt(rows, strategy, k) = DecisionAt(other, strategy, k)
  <2>. SUFFICES ASSUME NEW k \in U
                PROVE  DecisionAt(rows, strategy, k) = DecisionAt(other, strategy, k)
    OBVIOUS
  <2>. DEFINE I == DecisionRows(rows, k[1], k[2])
  <2>1. k[1] \in BtTickers /\ k[2] \in Int /\ k[2] - BtLead <= t /\ k = <<k[1], k[2]>>
    BY <1>1, <1>2, <1>4
  <2>2. I = DecisionRows(other, k[1], k[2]) /\ \A i \in I : rows[i] = other[i]
    BY <2>1 DEF DecideAlike
  <2>3. DecisionAt(rows, strategy, k).row = rows[LatestOf(rows, I)] /\ I # {} /\ LatestOf(rows, I) \in I
    <3>1. I # {}
      BY <1>4, <2>1, KeysAre DEF S
    <3>2. I \in SUBSET DOMAIN rows /\ \A i \in I : rows[i].at \in Int
      <4>1. k[2] # NOTIME
        BY <2>1, BtAssumption
      <4>. QED BY <4>1 DEF DecisionRows, SourceOk, BtRows
    <3>3. Numbered(rows, {rows[i] : i \in DOMAIN rows})
      BY DEF Numbered, SourceOk
    <3>4. LatestOf(rows, I) \in I
      <4>. HIDE DEF I
      <4>. QED BY <3>1, <3>2, <3>3, LatestIs
    <3>. QED BY <3>1, <3>4 DEF DecisionAt
  <2>4. LatestOf(rows, I) = LatestOf(other, I)
    <3>. HIDE DEF I
    <3>. QED BY <2>2, LatestAlike
  <2>5. rows[LatestOf(rows, I)] = other[LatestOf(other, I)]
    BY <2>2, <2>3, <2>4
  <2>. QED BY <2>2, <2>5 DEF DecisionAt
<1>14. /\ \A k \in S : DecisionAt(rows, strategy, k).asof = k[2] - BtLead
       /\ \A k \in T : DecisionAt(other, strategy, k).asof = k[2] - BtLead
  BY DEF DecisionAt
<1>15. \A k \in BtTickers \X Int : ~(k[2] - BtLead <= t) => k[2] - BtLead > t
  BY <1>2
<1>16. \A k \in S : k \notin U => ~(k[2] - BtLead <= t)
  OBVIOUS
<1>. HIDE DEF U, q, r, m, ds, es
<1>17. /\ m \in Nat /\ m <= Len(ds) /\ m <= Len(es)
       /\ \A n \in 1..m : n \in 1..Len(ds) /\ n \in 1..Len(es)
       /\ \A n \in (m + 1)..Len(ds) : n \in 1..Len(ds)
       /\ \A n \in (m + 1)..Len(es) : n \in 1..Len(es)
  BY <1>11, <1>12 DEF DecisionsOk
<1>18. \A n \in 1..m : ds[n] = es[n] /\ ds[n].asof <= t
  BY <1>4, <1>11, <1>12, <1>13, <1>14, <1>17
<1>19. \A n \in (m + 1)..Len(ds) : ds[n].asof > t
  BY <1>1, <1>11, <1>12, <1>14, <1>15, <1>16, <1>17
<1>20. \A n \in (m + 1)..Len(es) : es[n].asof > t
  BY <1>1, <1>5, <1>11, <1>12, <1>14, <1>15, <1>17
<1>21. SameStart(ds, es, t)
  BY <1>17, <1>18, <1>19, <1>20 DEF SameStart
<1>. QED BY <1>21 DEF ds, es

LEMMA InTurnOrders == ASSUME NEW S \in SUBSET Nat PROVE Orders(InTurn(S), S)
BY DEF Orders, InTurn

\* The decision of a past trade.
LEMMA DecisionOnIs ==
    ASSUME NEW tape, TapeOk(tape), NEW strategy, NEW k \in UsableTrades(tape, strategy)
    PROVE  /\ DecisionOk(DecisionOn(tape, tape.trades[k])) /\ DecisionOn(tape, tape.trades[k]).asof = tape.trades[k].at
           /\ LatestOf(tape.rows, BooksBefore(tape, tape.trades[k])) \in BooksBefore(tape, tape.trades[k])
<1>. DEFINE tr == tape.trades[k]
            I  == BooksBefore(tape, tr)
            i  == LatestOf(tape.rows, I)
<1>1. tr \in BtTrades /\ I # {} /\ I \in SUBSET DOMAIN tape.rows
  BY DEF UsableTrades, TapeOk, Numbered, BooksBefore
<1>2. Numbered(tape.rows, BtRows) /\ \A j \in DOMAIN tape.rows : tape.rows[j] \in BtRows /\ tape.rows[j].at \in Int
  BY DEF TapeOk, Numbered, BtRows
<1>3. i \in I /\ tape.rows[i] \in BtRows
  <2>. HIDE DEF I
  <2>. QED BY <1>1, <1>2, LatestIs
<1>4. [tape.rows[i] EXCEPT !.sized = TRUE] \in BtRows
  <2>. HIDE DEF i
  <2>. QED BY <1>3 DEF BtRows
<1>5. CloseOf(tape, tr.ticker) \in Int \cup {NOTIME}
  <2>. DEFINE C == {tape.markets[j].close : j \in {l \in DOMAIN tape.markets : tape.markets[l].ticker = tr.ticker}}
  <2>1. C \in SUBSET (Int \cup {NOTIME})
    BY DEF TapeOk, BtRows
  <2>2. CloseOf(tape, tr.ticker) = IF C = {} THEN NOTIME ELSE CHOOSE c \in C : TRUE
    BY DEF CloseOf
  <2>. HIDE DEF C
  <2>. QED BY <2>1, <2>2
<1>6. tr.ticker \in BtTickers /\ tr.at \in Int
  BY <1>1 DEF BtTrades
<1>7. /\ DecisionOn(tape, tr).ticker = tr.ticker /\ DecisionOn(tape, tr).asof = tr.at
      /\ DecisionOn(tape, tr).close = CloseOf(tape, tr.ticker)
      /\ DecisionOn(tape, tr).row = [tape.rows[i] EXCEPT !.sized = TRUE]
  BY DEF DecisionOn
<1>. HIDE DEF i, I, tr
<1>8. DecisionOk(DecisionOn(tape, tr))
  BY <1>4, <1>5, <1>6, <1>7 DEF DecisionOk
<1>. QED BY <1>3, <1>7, <1>8 DEF i, I, tr

LEMMA TradeDecisionsAre ==
    ASSUME NEW tape, TapeOk(tape), NEW strategy
    PROVE  LET S  == UsableTrades(tape, strategy)
               ds == TradeDecisions(tape, strategy)
           IN  /\ DecisionsOk(ds) /\ Len(ds) = Cardinality(S) /\ IsFiniteSet(S) /\ S \in SUBSET Nat
               /\ \A n \in 1..Len(ds) : /\ InOrder(S, InTurn(S))[n] \in S
                                        /\ ds[n] = DecisionOn(tape, tape.trades[InOrder(S, InTurn(S))[n]])
<1>. DEFINE S      == UsableTrades(tape, strategy)
            sorted == InOrder(S, InTurn(S))
            ds     == TradeDecisions(tape, strategy)
            c      == Cardinality(S)
<1>1. S \in SUBSET DOMAIN tape.trades /\ DOMAIN tape.trades \in SUBSET Nat /\ IsFiniteSet(DOMAIN tape.trades)
  BY DEF UsableTrades, TapeOk, Numbered
<1>2. IsFiniteSet(S) /\ S \in SUBSET Nat /\ Orders(InTurn(S), S) /\ c \in Nat
  <2>. HIDE DEF S
  <2>1. IsFiniteSet(S) /\ S \in SUBSET Nat
    BY <1>1, FS_Subset
  <2>. QED BY <2>1, InTurnOrders, FS_CardinalityType
<1>3. DOMAIN sorted = 1..c /\ \A n \in 1..c : sorted[n] \in S
  <2>. HIDE DEF S
  <2>. QED BY <1>2, InOrderIs
<1>4. \A i, j \in 1..c : i < j => <<sorted[i], sorted[j]>> \in InTurn(S)
  <2>. HIDE DEF S
  <2>. QED BY <1>2, InOrderRises
<1>5. ds = [n \in 1..c |-> DecisionOn(tape, tape.trades[sorted[n]])]
  <2>1. ds = [n \in DOMAIN sorted |-> DecisionOn(tape, tape.trades[sorted[n]])]
    BY DEF TradeDecisions
  <2>. HIDE DEF ds, sorted, c
  <2>. QED BY <1>3, <2>1
<1>. HIDE DEF sorted, ds, c
<1>6. /\ Len(ds) = c /\ DOMAIN ds = 1..c
      /\ \A n \in 1..c : ds[n] = DecisionOn(tape, tape.trades[sorted[n]])
  BY <1>2, <1>5
<1>7. \A n \in 1..c : DecisionOk(ds[n]) /\ ds[n].asof = tape.trades[sorted[n]].at
  BY <1>3, <1>6, DecisionOnIs
<1>. HIDE DEF S
<1>8. ASSUME NEW i \in 1..c, NEW j \in 1..c, i < j PROVE ds[i].asof <= ds[j].asof
  <2>1. \A x, y : <<x, y>> \in InTurn(S) => x < y
    BY DEF InTurn
  <2>2. sorted[i] < sorted[j] /\ sorted[i] \in DOMAIN tape.trades /\ sorted[j] \in DOMAIN tape.trades
    BY <1>1, <1>3, <1>4, <1>8, <2>1
  <2>3. sorted[i] <= sorted[j]
    BY <1>1, <2>2
  <2>4. \A a, b \in DOMAIN tape.trades : a <= b => tape.trades[a].at <= tape.trades[b].at
    BY DEF TapeOk
  <2>. QED BY <1>7, <2>2, <2>3, <2>4
<1>. QED BY <1>2, <1>3, <1>6, <1>7, <1>8 DEF DecisionsOk, S, sorted, ds, c

LEMMA TradesStart ==
    ASSUME NEW job, JobOk(job), job.source = "trades", NEW t \in Int, NEW strategy
    PROVE  SameStart(TradeDecisions(job.tape, strategy), TradeDecisions(KnownAt(job, t).tape, strategy), t)
<1>. DEFINE tape  == job.tape
            known == KnownAt(job, t).tape
            S == UsableTrades(tape, strategy)
            T == UsableTrades(known, strategy)
            R == InTurn(S)
            Q == InTurn(T)
            q == InOrder(S, R)
            r == InOrder(T, Q)
            m == Cardinality(T)
            ds == TradeDecisions(tape, strategy)
            es == TradeDecisions(known, strategy)
<1>1. TapeOk(tape) /\ TapeOk(known) /\ known.markets = tape.markets
  BY KnownIsOk DEF JobOk, KnownAt
<1>2. known.rows = Until(tape.rows, t) /\ known.trades = Until(tape.trades, t)
  BY DEF KnownAt
<1>. HIDE DEF tape, known
<1>3. /\ \A k \in DOMAIN tape.rows : tape.rows[k].at <= t <=> k \in DOMAIN known.rows
      /\ \A k \in DOMAIN known.rows : k \in DOMAIN tape.rows /\ known.rows[k] = tape.rows[k]
      /\ \A k \in DOMAIN tape.trades : tape.trades[k].at <= t <=> k \in DOMAIN known.trades
      /\ \A k \in DOMAIN known.trades : k \in DOMAIN tape.trades /\ known.trades[k] = tape.trades[k]
  BY <1>1, <1>2, UntilIs DEF TapeOk
<1>4. /\ \A k \in DOMAIN tape.rows : tape.rows[k].at \in Int
      /\ \A k \in DOMAIN tape.trades : tape.trades[k].at \in Int
  BY <1>1 DEF TapeOk, Numbered, BtRows, BtTrades
<1>5. \A tr : tr.at \in Int /\ tr.at <= t => BooksBefore(known, tr) = BooksBefore(tape, tr)
  <2>. SUFFICES ASSUME NEW tr, tr.at \in Int, tr.at <= t PROVE BooksBefore(known, tr) = BooksBefore(tape, tr)
    OBVIOUS
  <2>1. \A k \in DOMAIN tape.rows : tape.rows[k].at <= tr.at => tape.rows[k].at <= t
    BY <1>4
  <2>. QED BY <1>3, <2>1 DEF BooksBefore
<1>6. \A k : k \in T <=> k \in S /\ tape.trades[k].at <= t
  <2>. TAKE k
  <2>1. CASE k \in DOMAIN known.trades
    BY <2>1, <1>3, <1>4, <1>5 DEF UsableTrades
  <2>2. CASE k \notin DOMAIN known.trades
    BY <2>2, <1>3 DEF UsableTrades
  <2>. QED BY <2>1, <2>2
<1>7. /\ DecisionsOk(ds) /\ Len(ds) = Cardinality(S) /\ IsFiniteSet(S) /\ S \in SUBSET Nat
      /\ \A n \in 1..Len(ds) : q[n] \in S /\ ds[n] = DecisionOn(tape, tape.trades[q[n]])
      /\ DecisionsOk(es) /\ Len(es) = Cardinality(T) /\ IsFiniteSet(T) /\ T \in SUBSET Nat
      /\ \A n \in 1..Len(es) : r[n] \in T /\ es[n] = DecisionOn(known, known.trades[r[n]])
  BY <1>1, TradeDecisionsAre
<1>8. \A j, k \in DOMAIN tape.trades : j <= k => tape.trades[j].at <= tape.trades[k].at
  BY <1>1 DEF TapeOk
<1>9. S \in SUBSET DOMAIN tape.trades
  BY DEF UsableTrades
<1>10. \A k \in T : DecisionOn(tape, tape.trades[k]) = DecisionOn(known, known.trades[k])
  <2>. SUFFICES ASSUME NEW k \in T PROVE DecisionOn(tape, tape.trades[k]) = DecisionOn(known, known.trades[k])
    OBVIOUS
  <2>. DEFINE tr == tape.trades[k]
              I  == BooksBefore(tape, tr)
  <2>1. known.trades[k] = tr /\ tr.at \in Int /\ tr.at <= t
    BY <1>3, <1>4, <1>6, <1>9 DEF UsableTrades
  <2>2. BooksBefore(known, tr) = I
    BY <1>5, <2>1
  <2>3. LatestOf(tape.rows, I) \in I
    BY <1>1, <1>6, DecisionOnIs
  <2>4. \A i \in I : known.rows[i] = tape.rows[i]
    BY <2>2, <1>3 DEF BooksBefore
  <2>5. LatestOf(known.rows, I) = LatestOf(tape.rows, I)
    <3>. HIDE DEF I
    <3>. QED BY <2>4, LatestAlike
  <2>6. CloseOf(known, tr.ticker) = CloseOf(tape, tr.ticker)
    BY <1>1 DEF CloseOf
  <2>7. known.rows[LatestOf(known.rows, I)] = tape.rows[LatestOf(tape.rows, I)]
    BY <2>3, <2>4, <2>5
  <2>. HIDE DEF tr, I
  <2>8. DecisionOn(known, tr) = DecisionOn(tape, tr)
    BY <2>2, <2>6, <2>7 DEF DecisionOn, I
  <2>. QED BY <2>1, <2>8 DEF tr
<1>11. /\ \A k \in S : DecisionOn(tape, tape.trades[k]).asof = tape.trades[k].at
       /\ \A k \in T : DecisionOn(known, known.trades[k]).asof = tape.trades[k].at
  <2>1. \A k \in T : k \in S
    BY <1>6
  <2>. QED BY <1>10, <2>1 DEF DecisionOn
<1>. HIDE DEF S, T
<1>12. /\ \A x \in T, y \in S : <<y, x>> \in InTurn(S) => y \in T
       /\ \A x \in T, y \in T : <<y, x>> \in InTurn(T) => y \in T
       /\ \A x, y \in T : <<x, y>> \in InTurn(S) <=> <<x, y>> \in InTurn(T)
  <2>1. ASSUME NEW x \in T, NEW y \in S, <<y, x>> \in InTurn(S) PROVE y \in T
    <3>1. y < x /\ x \in S /\ tape.trades[x].at <= t /\ x \in DOMAIN tape.trades /\ y \in DOMAIN tape.trades
      BY <1>6, <1>9, <2>1 DEF InTurn
    <3>2. tape.trades[y].at <= tape.trades[x].at
      <4>1. y <= x
        BY <1>7, <3>1
      <4>. QED BY <1>8, <3>1, <4>1
    <3>3. tape.trades[y].at <= t
      BY <1>4, <3>1, <3>2
    <3>. QED BY <1>6, <3>3
  <2>2. \A x, y \in T : <<x, y>> \in InTurn(S) <=> <<x, y>> \in InTurn(T)
    BY <1>6 DEF InTurn
  <2>. QED BY <2>1, <2>2
<1>13. /\ m \in 0..Cardinality(S) /\ m \in 0..Cardinality(T)
       /\ \A n \in 1..m : q[n] = r[n] /\ q[n] \in T
       /\ \A n \in (m + 1)..Cardinality(S) : q[n] \in S \ T
       /\ \A n \in (m + 1)..Cardinality(T) : r[n] \in T \ T
  <2>1. T \subseteq S /\ T \subseteq T /\ Orders(R, S) /\ Orders(Q, T)
    BY <1>6, <1>7, InTurnOrders
  <2>2. /\ \A x \in T, y \in S : <<y, x>> \in R => y \in T
        /\ \A x \in T, y \in T : <<y, x>> \in Q => y \in T
        /\ \A x, y \in T : <<x, y>> \in R <=> <<x, y>> \in Q
    BY <1>12
  <2>3. IsFiniteSet(S) /\ IsFiniteSet(T)
    BY <1>7
  <2>. HIDE DEF R, Q
  <2>. QED BY <2>1, <2>2, <2>3, CommonStart
<1>14. \A k \in S : k \notin T => tape.trades[k].at > t
  BY <1>4, <1>6, <1>9
<1>. HIDE DEF R, Q, q, r, m, ds, es
<1>15. /\ m \in Nat /\ m <= Len(ds) /\ m <= Len(es)
       /\ \A n \in 1..m : n \in 1..Len(ds) /\ n \in 1..Len(es)
       /\ \A n \in (m + 1)..Len(ds) : n \in 1..Len(ds)
       /\ \A n \in (m + 1)..Len(es) : n \in 1..Len(es)
  BY <1>7, <1>13 DEF DecisionsOk
<1>16. ASSUME NEW n \in 1..m PROVE ds[n] = es[n] /\ ds[n].asof <= t
  <2>1. q[n] = r[n] /\ q[n] \in T /\ q[n] \in S /\ tape.trades[q[n]].at <= t
    BY <1>6, <1>13
  <2>2. ds[n] = DecisionOn(tape, tape.trades[q[n]]) /\ es[n] = DecisionOn(known, known.trades[r[n]])
    BY <1>7, <1>15
  <2>3. ds[n].asof = tape.trades[q[n]].at
    BY <1>11, <2>1, <2>2
  <2>. QED BY <1>10, <2>1, <2>2, <2>3
<1>17. ASSUME NEW n \in (m + 1)..Len(ds) PROVE ds[n].asof > t
  <2>1. q[n] \in S /\ q[n] \notin T
    BY <1>7, <1>13
  <2>2. ds[n] = DecisionOn(tape, tape.trades[q[n]])
    BY <1>7, <1>15
  <2>3. ds[n].asof = tape.trades[q[n]].at
    BY <1>11, <2>1, <2>2
  <2>. QED BY <1>14, <2>1, <2>3
<1>18. \A n \in (m + 1)..Len(es) : es[n].asof > t
  BY <1>7, <1>13
<1>19. SameStart(ds, es, t)
  BY <1>15, <1>16, <1>17, <1>18 DEF SameStart
<1>. QED BY <1>19 DEF ds, es, tape, known

\* What a job decides, and what of it was known at a time.
LEMMA JobDecisions == ASSUME NEW job, JobOk(job) PROVE DecisionsOk(DecisionsOf(job))
<1>1. CASE job.source = "trades"
  BY <1>1, TradeDecisionsAre DEF DecisionsOf, JobOk
<1>2. CASE job.source # "trades"
  BY <1>2, SourceIsOk, DecisionsAre DEF DecisionsOf
<1>. QED BY <1>1, <1>2

LEMMA JobsStart ==
    ASSUME NEW job, JobOk(job), NEW t \in Int
    PROVE  SameStart(DecisionsOf(job), DecisionsOf(KnownAt(job, t)), t)
<1>. DEFINE kn == KnownAt(job, t)
<1>1. JobOk(kn) /\ kn.source = job.source /\ kn.strategy = job.strategy
  BY KnownIsOk DEF KnownAt
<1>2. CASE job.source = "trades"
  BY <1>1, <1>2, TradesStart DEF DecisionsOf
<1>3. CASE job.source # "trades"
  <2>1. SourceOk(SourceRows(job.source, job.tape)) /\ SourceOk(SourceRows(job.source, kn.tape))
    <3>1. SourceOk(SourceRows(kn.source, kn.tape))
      <4>. HIDE DEF kn
      <4>. QED BY <1>1, <1>3, SourceIsOk
    <3>. QED BY <1>1, <1>3, <3>1, SourceIsOk
  <2>2. DecideAlike(SourceRows(job.source, job.tape), SourceRows(job.source, kn.tape), t)
    BY <1>3, SourcesAlike
  <2>3. DecisionsOf(job) = Decisions(SourceRows(job.source, job.tape), job.strategy)
    BY <1>3 DEF DecisionsOf
  <2>4. DecisionsOf(kn) = Decisions(SourceRows(job.source, kn.tape), job.strategy)
    <3>. HIDE DEF kn
    <3>. QED BY <1>1, <1>3 DEF DecisionsOf
  <2>. HIDE DEF kn
  <2>5. SameStart(DecisionsOf(job), DecisionsOf(kn), t)
    BY <2>1, <2>2, <2>3, <2>4, RowsStart
  <2>. QED BY <2>5 DEF kn
<1>. QED BY <1>2, <1>3

\* Division rounds down.
LEMMA FloorIs ==
    ASSUME NEW x \in Int, NEW d \in Nat \ {0}
    PROVE  x \div d \in Int /\ d * (x \div d) <= x /\ x < d * (x \div d) + d
BY SMT

\* The forecast that a decision is made with was published by then.
LEMMA ForecastAlike ==
    ASSUME NEW job, JobOk(job), NEW t \in Int, NEW asof \in Int, asof <= t
    PROVE  ForecastRun(KnownAt(job, t), asof) = ForecastRun(job, asof)
<1>. DEFINE runs  == job.tape.runs
            known == RunsKnown(job, t)
<1>1. KnownAt(job, t).tape.runs = known /\ KnownAt(job, t).source = job.source
  BY DEF KnownAt
<1>2. runs \in SUBSET Int /\ known \in SUBSET runs
  BY DEF JobOk, TapeOk, RunsKnown
<1>3. CASE job.source \in {"tables", "trades"}
  <2>1. \A r \in runs : r <= asof => r <= t
    BY <1>2
  <2>2. {r \in known : r <= asof} = {r \in runs : r <= asof}
    BY <1>3, <2>1 DEF RunsKnown
  <2>. QED BY <1>1, <1>3, <2>2 DEF ForecastRun, FetchedRun
<1>4. CASE job.source \notin {"tables", "trades"}
  <2>. DEFINE c == PickCycle(asof)
  <2>1. BtCycle \in Nat \ {0} /\ BtLag \in Nat
    BY BtAssumption
  <2>2. c \in Int /\ c <= asof - BtLag
    <3>1. (asof - BtLag) \div BtCycle \in Int
          /\ BtCycle * ((asof - BtLag) \div BtCycle) <= asof - BtLag
      BY <2>1, FloorIs
    <3>. QED BY <2>1, <3>1 DEF PickCycle
  <2>3. c \in runs => c \in known
    <3>. HIDE DEF c
    <3>1. c + BtLag <= t
      BY <2>1, <2>2
    <3>. QED BY <1>4, <3>1 DEF RunsKnown
  <2>4. {c} \cap known = {c} \cap runs
    <3>. HIDE DEF c, known
    <3>. QED BY <1>2, <2>3
  <2>. QED BY <1>1, <1>4, <2>4 DEF ForecastRun
<1>. QED BY <1>3, <1>4

-----------------------------------------------------------------------------
(***************************************************************************)
(* The backtest: its orders                                                *)
(***************************************************************************)

LEMMA MedianDepthIs == ASSUME NEW S \in SUBSET BtSamples, S # {} PROVE MedianDepth(S) \in Nat
<1>. DEFINE n == Cardinality(S)
            f == [x \in S |-> x.depth]
            ranked(k) == (CHOOSE x \in S : Cardinality({y \in S : y.depth < x.depth}) < k
                                           /\ Cardinality({y \in S : y.depth <= x.depth}) >= k).depth
<1>1. IsFiniteSet(S) /\ n \in Nat /\ n > 0 /\ \A x \in S : x.depth \in Nat
  <2>1. IsFiniteSet(S)
    BY DepthAssumption, FS_Subset
  <2>. QED BY <2>1, FS_CardinalityType, FS_EmptySet, DepthAssumption
<1>2. ASSUME NEW k \in 1..n PROVE ranked(k) \in Nat
  <2>1. PICK w \in S : HasRank(S, f, k, w)
    <3>1. \A x \in S : f[x] \in Int
      BY <1>1
    <3>. HIDE DEF f
    <3>. QED BY <3>1, <1>1, <1>2, RankIsMet
  <2>2. /\ {y \in S : f[y] < f[w]} = {y \in S : y.depth < w.depth}
        /\ {y \in S : f[y] <= f[w]} = {y \in S : y.depth <= w.depth}
    OBVIOUS
  <2>3. \E z \in S : /\ Cardinality({y \in S : y.depth < z.depth}) < k
                     /\ Cardinality({y \in S : y.depth <= z.depth}) >= k
    BY <2>1, <2>2 DEF HasRank
  <2>4. ranked(k) \in {x.depth : x \in S}
    BY <2>3
  <2>. HIDE DEF ranked
  <2>. QED BY <2>4, <1>1
<1>3. MedianDepth(S) = (ranked((n + 1) \div 2) + ranked(n \div 2 + 1)) \div 2
  BY DEF MedianDepth
<1>4. (n + 1) \div 2 \in 1..n /\ n \div 2 + 1 \in 1..n
  <2>. HIDE DEF n
  <2>. QED BY <1>1, MiddleRanks
<1>. HIDE DEF ranked, n
<1>5. ranked((n + 1) \div 2) \in Nat /\ ranked(n \div 2 + 1) \in Nat
  BY <1>2, <1>4
<1>6. \A a, b \in Nat : (a + b) \div 2 \in Nat
  OBVIOUS
<1>. QED BY <1>3, <1>5, <1>6

LEMMA TableDepthIs == ASSUME NEW series, NEW lead PROVE TableDepth(series, LeadBucket(lead)) \in Nat
<1>. DEFINE bucket == LeadBucket(lead)
            all == {x \in BtSamples : x.lead >= 0 /\ LeadBucket(x.lead) = bucket}
            own == {x \in all : x.series = series}
<1>1. bucket \in 0..Cardinality(BtBounds)
  <2>. DEFINE B == {b \in BtBounds : lead > b}
  <2>1. IsFiniteSet(BtBounds) /\ B \in SUBSET BtBounds
    BY DepthAssumption
  <2>. HIDE DEF B
  <2>2. Cardinality(B) <= Cardinality(BtBounds) /\ Cardinality(B) \in Nat /\ Cardinality(BtBounds) \in Nat
    BY <2>1, FS_Subset, FS_CardinalityType
  <2>. QED BY <2>2 DEF LeadBucket, B
<1>2. all # {}
  BY <1>1, DepthAssumption
<1>3. Cardinality(own) >= BtMinSamples => own # {}
  <2>1. BtMinSamples \in Nat \ {0}
    BY BtAssumption
  <2>2. Cardinality({}) = 0
    BY FS_EmptySet
  <2>. QED BY <2>1, <2>2
<1>4. TableDepth(series, bucket) = MedianDepth(IF Cardinality(own) >= BtMinSamples THEN own ELSE all)
  BY DEF TableDepth
<1>5. all \in SUBSET BtSamples /\ own \in SUBSET BtSamples
  OBVIOUS
<1>. HIDE DEF all, own, bucket
<1>6. TableDepth(series, bucket) \in Nat
  BY <1>2, <1>3, <1>4, <1>5, MedianDepthIs
<1>. QED BY <1>6 DEF bucket

\* What a strategy is shown of a book and a forecast.
QuoteOk(q) ==
    /\ q.bid \in 0..Dollar /\ q.noBid \in 0..Dollar /\ q.fair \in Int /\ q.spread \in Nat
    /\ q.bidDepth \in Nat /\ q.noDepth \in Nat

LEMMA ShownIsOk ==
    ASSUME NEW job, JobOk(job), NEW d, DecisionOk(d), NEW run \in job.tape.runs
    PROVE  /\ QuoteOk(Shown(d, run)) /\ Shown(d, run).bid = d.row.bid /\ Shown(d, run).noBid = d.row.noBid
           /\ QuoteOk(ShownOfTrade(d, run)) /\ ShownOfTrade(d, run).bid = d.row.bid
           /\ ShownOfTrade(d, run).noBid = d.row.noBid
<1>. DEFINE q == Shown(d, run)
<1>1. d.row.bid \in 0..Dollar /\ d.row.noBid \in 0..Dollar /\ d.row.sized \in BOOLEAN
      /\ d.row.bidSize \in Nat /\ d.row.noSize \in Nat /\ d.ticker \in BtTickers
  BY DEF DecisionOk, BtRows
<1>2. BtForecast[d.ticker][run].fair \in Int /\ BtForecast[d.ticker][run].spread \in Nat
  BY <1>1 DEF JobOk, TapeOk
<1>3. DepthOf(d, "sell_yes") \in Nat /\ DepthOf(d, "buy_yes") \in Nat
  <2>1. TableDepth(BtSeriesOf[d.ticker], LeadBucket(d.close - d.row.at)) \in Nat
    BY TableDepthIs
  <2>. QED BY <1>1, <2>1 DEF DepthOf
<1>4. /\ q.bid = d.row.bid /\ q.noBid = d.row.noBid
      /\ q.bidDepth = DepthOf(d, "sell_yes") /\ q.noDepth = DepthOf(d, "buy_yes")
      /\ q.fair = BtForecast[d.ticker][run].fair /\ q.spread = BtForecast[d.ticker][run].spread
  BY DEF Shown
<1>5. LET h == ShownOfTrade(d, run)
      IN  /\ h.bid = q.bid /\ h.noBid = q.noBid /\ h.bidDepth = q.bidDepth /\ h.noDepth = q.noDepth
          /\ h.fair = q.fair /\ h.spread = q.spread
  BY DEF ShownOfTrade, Shown
<1>. HIDE DEF q
<1>. QED BY <1>1, <1>2, <1>3, <1>4, <1>5 DEF QuoteOk, q

\* An intent costs what its side asks, a contract.
LEMMA IntentIs ==
    ASSUME NEW q, QuoteOk(q), NEW left \in Int, NEW i \in BuildIntents(q, left)
    PROVE  /\ i.side \in {"buy_yes", "sell_yes"} /\ i.contracts \in Nat /\ i.price \in 0..Dollar
           /\ i.price = SizingPrice(q, i.side) /\ i.price * i.contracts \in Nat
<1>range. /\ q.bid \in Int /\ 0 <= q.bid /\ q.bid <= Dollar
          /\ q.noBid \in Int /\ 0 <= q.noBid /\ q.noBid <= Dollar
          /\ q.fair \in Int
  BY InRange, Zenon DEF QuoteOk
<1>2. PICK s \in {"buy_yes", "sell_yes"}, k \in {4, 20} :
        i = Intent(q, s, k, left) /\ i.contracts >= 1
  <2>1. EdgeSides(q) \subseteq {"buy_yes", "sell_yes"}
    BY DEF EdgeSides
  <2>2. TailsSides(q) \subseteq {"buy_yes", "sell_yes"}
    BY DEF TailsSides
  <2> QED  BY <2>1, <2>2 DEF BuildIntents
<1> DEFINE edge  == IF s = "buy_yes" THEN q.fair - YesAsk(q) ELSE q.bid - q.fair
           room  == IF s = "buy_yes" THEN Dollar - YesAsk(q) ELSE q.bid
           depth == IF s = "buy_yes" THEN q.noDepth ELSE q.bidDepth
           price == SizingPrice(q, s)
<1>3. i.contracts = Stake(q, edge, room, k, depth, price, left) /\ i.price = price /\ i.side = s
  BY <1>2 DEF Intent, SizingPrice
<1>4. edge \in Int /\ room \in Int /\ depth \in Nat /\ price \in Nat /\ price \in 0..Dollar
  <2>1. YesAsk(q) \in Nat /\ NoAsk(q) \in Nat /\ Dollar - YesAsk(q) \in Int
        /\ YesAsk(q) <= Dollar /\ NoAsk(q) <= Dollar
    BY <1>range, InRange DEF YesAsk, NoAsk
  <2>2. edge \in Int /\ room \in Int
    <3>1. q.fair - YesAsk(q) \in Int /\ q.bid - q.fair \in Int /\ q.bid \in Int
      BY <1>range, <2>1
    <3> QED  BY <2>1, <3>1
  <2>3. depth \in Nat
    BY DEF QuoteOk
  <2>4. YesAsk(q) \in 0..Dollar /\ NoAsk(q) \in 0..Dollar
    BY <2>1, InRange
  <2>5. price \in Nat /\ price \in 0..Dollar
    BY <2>1, <2>4 DEF SizingPrice
  <2> QED  BY <2>2, <2>3, <2>5
<1> HIDE DEF edge, room, depth, price
<1>5. k \in Nat \ {0} /\ q.spread \in Nat
  BY <1>2 DEF QuoteOk
<1>6. i.contracts \in Nat /\ price * i.contracts \in Nat
  <2>1. i.contracts = Stake(q, edge, room, k, depth, price, left) /\ i.contracts >= 1
    BY <1>2, <1>3
  <2>. QED BY <1>4, <1>5, <2>1, StakeIsLeast
<1>. QED BY <1>3, <1>4, <1>6 DEF price

\* An order in the ledger, what the overlays hold, and a replay.
BtOrders ==
    [ticker : BtTickers, asof : Int, side : {"buy_yes", "sell_yes"}, price : 0..Dollar, contracts : Nat,
     dollars : Nat, row : BtRows]
BtHeld ==
    [market : [BtTickers -> Int], event : [BtEvents -> Int], series : [BtSeries -> Int], aggregate : Int]
BtRuns == [ledger : Seq(BtOrders), held : BtHeld, minute : Int \cup {NOTIME}, failed : BOOLEAN]

\* The dollars of some orders, as a sum.
LEMMA DollarsAdd ==
    ASSUME NEW ledger, NEW S
    PROVE  SpentOn(ledger, S) = SumFunction([k \in S |-> ledger[k].dollars])
<1>. DEFINE f == [k \in S |-> ledger[k].dollars]
<1>1. \A g : (g = [s \in SUBSET S |-> IF s = {} THEN 0
                                     ELSE ledger[Pick(s)].dollars + g[s \ {Pick(s)}]])
               <=> Adds(f, g, S)
  BY PickTakes DEF Added, Adds
<1>2. SumFunction(f) = (CHOOSE g : Adds(f, g, S))[S]
  BY SumIsChosen
<1>. HIDE DEF f
<1>. QED BY <1>1, <1>2 DEF SpentOn, MapThenSumSet, MapThenFoldSet, Pick, f

LEMMA LossesAdd ==
    ASSUME NEW ledger, NEW S
    PROVE  MapThenSumSet(LAMBDA k : WorstLoss(ledger[k]), S) = SumFunction([k \in S |-> WorstLoss(ledger[k])])
<1>. DEFINE e(i) == WorstLoss(ledger[i])
            f == [i \in S |-> e(i)]
            Sums(g) == [s \in SUBSET S |-> IF s = {} THEN 0 ELSE e(Pick(s)) + g[s \ {Pick(s)}]]
<1>1. \A g : (g = Sums(g)) <=> Adds(f, g, S)
  BY PickTakes DEF Added, Adds
<1>2. SumFunction(f) = (CHOOSE g : Adds(f, g, S))[S]
  BY SumIsChosen
<1>3. MapThenSumSet(LAMBDA i : e(i), S) = (CHOOSE g : g = Sums(g))[S]
  BY DEF MapThenSumSet, MapThenFoldSet, Pick
<1>4. (CHOOSE g : g = Sums(g)) = (CHOOSE g : Adds(f, g, S))
  <2>. HIDE DEF Sums, f
  <2>. QED BY <1>1
<1>. QED BY <1>2, <1>3, <1>4

LEMMA LedgerIs ==
    ASSUME NEW ledger \in Seq(BtOrders)
    PROVE  /\ Len(ledger) \in Nat /\ DOMAIN ledger = 1..Len(ledger) /\ IsFiniteSet(DOMAIN ledger)
           /\ \A k \in DOMAIN ledger : /\ ledger[k] \in BtOrders /\ ledger[k].dollars \in Nat
                                       /\ ledger[k].asof \in Int /\ ledger[k].ticker \in BtTickers
<1>1. Len(ledger) \in Nat /\ DOMAIN ledger = 1..Len(ledger) /\ \A k \in DOMAIN ledger : ledger[k] \in BtOrders
  OBVIOUS
<1>2. IsFiniteSet(1..Len(ledger))
  BY <1>1, FS_Interval
<1>. QED BY <1>1, <1>2 DEF BtOrders

\* More orders hold no less.
LEMMA SpentGrows ==
    ASSUME NEW ledger \in Seq(BtOrders), NEW T \in SUBSET DOMAIN ledger, NEW S \in SUBSET T
    PROVE  SpentOn(ledger, S) \in Int /\ SpentOn(ledger, T) \in Int /\ SpentOn(ledger, S) <= SpentOn(ledger, T)
<1>. DEFINE f == [k \in T |-> ledger[k].dollars]
            g == [k \in T |-> IF k \in S THEN ledger[k].dollars ELSE 0]
            h == [k \in S |-> ledger[k].dollars]
<1>1. IsFiniteSet(T) /\ IsFiniteSet(S) /\ \A k \in T : ledger[k].dollars \in Nat
  BY LedgerIs, FS_Subset
<1>2. /\ f \in [T -> Int] /\ g \in [T -> Int] /\ h \in [S -> Int]
      /\ \A k \in T : g[k] <= f[k]
      /\ \A k \in T \ S : g[k] = 0
  BY <1>1
<1>3. [k \in S |-> g[k]] = h
  OBVIOUS
<1>4. SpentOn(ledger, S) = SumFunction(h) /\ SpentOn(ledger, T) = SumFunction(f)
  BY DollarsAdd
<1>. HIDE DEF f, g, h
<1>5. SumFunction(g) = SumFunction(h)
  BY <1>1, <1>2, <1>3, SumWithout
<1>6. SumFunction(g) <= SumFunction(f)
  BY <1>1, <1>2, SumGrows
<1>7. SumFunction(f) \in Int /\ SumFunction(h) \in Int
  BY <1>1, <1>2, SumType
<1>. QED BY <1>4, <1>5, <1>6, <1>7

LEMMA SpentOnNothing == ASSUME NEW ledger PROVE SpentOn(ledger, {}) = 0
<1>1. DOMAIN [k \in {} |-> ledger[k].dollars] = {}
  OBVIOUS
<1>. QED BY <1>1, DollarsAdd, SumOverNothing

\* An order adds its dollars.
LEMMA SpentAppends ==
    ASSUME NEW ledger \in Seq(BtOrders), NEW o \in BtOrders, NEW S \in SUBSET DOMAIN ledger
    PROVE  LET more == Append(ledger, o)
               n    == Len(ledger) + 1
           IN  /\ SpentOn(more, S) = SpentOn(ledger, S)
               /\ SpentOn(more, S \cup {n}) = SpentOn(ledger, S) + o.dollars
<1>. DEFINE more == Append(ledger, o)
            n    == Len(ledger) + 1
            f == [k \in S \cup {n} |-> more[k].dollars]
<1>1. n \notin DOMAIN ledger /\ more[n] = o /\ \A k \in DOMAIN ledger : more[k] = ledger[k]
  BY LedgerIs
<1>2. IsFiniteSet(S) /\ n \notin S /\ \A k \in S : ledger[k].dollars \in Nat
  BY <1>1, LedgerIs, FS_Subset
<1>3. o.dollars \in Nat
  BY DEF BtOrders
<1>. HIDE DEF more
<1>4. f \in [S \cup {n} -> Int] /\ f[n] = o.dollars
  BY <1>1, <1>2, <1>3
<1>5. [k \in S |-> f[k]] = [k \in S |-> ledger[k].dollars] /\ [k \in S |-> more[k].dollars] = [k \in S |-> ledger[k].dollars]
  BY <1>1
<1>. HIDE DEF f, n
<1>6. SumFunction(f) = SumFunction([k \in S |-> f[k]]) + f[n]
  BY <1>2, <1>4, SumAddsElement
<1>7. SpentOn(more, S \cup {n}) = SumFunction(f)
  BY DollarsAdd DEF f
<1>8. SpentOn(more, S) = SpentOn(ledger, S) /\ SpentOn(ledger, S) = SumFunction([k \in S |-> ledger[k].dollars])
  BY <1>5, DollarsAdd
<1>. QED BY <1>4, <1>5, <1>6, <1>7, <1>8 DEF more, n

\* What the caps are over: a market, an event, a series or all.
Groups ==
    ({"market"} \X BtTickers) \cup ({"event"} \X BtEvents) \cup ({"series"} \X BtSeries) \cup {<<"all", 0>>}

MembersOf(g) ==
    {t \in BtTickers : \/ g[1] = "market" /\ t = g[2]
                       \/ g[1] = "event" /\ BtEventOf[t] = g[2]
                       \/ g[1] = "series" /\ BtSeriesOf[t] = g[2]
                       \/ g[1] = "all"}

CapOver(g) ==
    IF g[1] = "market" THEN MarketCap
    ELSE IF g[1] = "event" THEN EventCap
    ELSE IF g[1] = "series" THEN BtSeriesCap ELSE BtAggregateCap

HeldIn(held, g) ==
    IF g[1] = "market" THEN held.market[g[2]]
    ELSE IF g[1] = "event" THEN held.event[g[2]]
    ELSE IF g[1] = "series" THEN held.series[g[2]] ELSE held.aggregate

OpenIn(ledger, asof, g) == {k \in OpenFills(ledger, asof) : ledger[k].ticker \in MembersOf(g)}

LEMMA SeededIs ==
    ASSUME NEW ledger \in Seq(BtOrders), NEW asof
    PROVE  /\ Seeded(ledger, asof) \in BtHeld
           /\ \A g \in Groups : HeldIn(Seeded(ledger, asof), g) = SpentOn(ledger, OpenIn(ledger, asof, g))
<1>. DEFINE open == OpenFills(ledger, asof)
            M(t) == {k \in open : ledger[k].ticker = t}
            E(e) == {k \in open : BtEventOf[ledger[k].ticker] = e}
            Z(s) == {k \in open : BtSeriesOf[ledger[k].ticker] = s}
            held == Seeded(ledger, asof)
<1>1. open \in SUBSET DOMAIN ledger /\ \A k \in open : ledger[k].ticker \in BtTickers
  BY LedgerIs DEF OpenFills
<1>2. held = [market |-> [t \in BtTickers |-> SpentOn(ledger, M(t))],
              event  |-> [e \in BtEvents |-> SpentOn(ledger, E(e))],
              series |-> [s \in BtSeries |-> SpentOn(ledger, Z(s))],
              aggregate |-> SpentOn(ledger, open)]
  BY DEF Seeded
<1>3. \A S \in SUBSET open : SpentOn(ledger, S) \in Int
  BY <1>1, SpentGrows
<1>4. \A x : M(x) \in SUBSET open /\ E(x) \in SUBSET open /\ Z(x) \in SUBSET open
  OBVIOUS
<1>5. \A g \in Groups : OpenIn(ledger, asof, g) =
          IF g[1] = "market" THEN M(g[2]) ELSE IF g[1] = "event" THEN E(g[2])
          ELSE IF g[1] = "series" THEN Z(g[2]) ELSE open
  <2>. SUFFICES ASSUME NEW g \in Groups
                PROVE  OpenIn(ledger, asof, g) =
                         IF g[1] = "market" THEN M(g[2]) ELSE IF g[1] = "event" THEN E(g[2])
                         ELSE IF g[1] = "series" THEN Z(g[2]) ELSE open
    OBVIOUS
  <2>1. g[1] \in {"market", "event", "series", "all"}
    BY DEF Groups
  <2>2. OpenIn(ledger, asof, g) = {k \in open : ledger[k].ticker \in MembersOf(g)}
    BY DEF OpenIn
  <2>3. \A k \in open : ledger[k].ticker \in MembersOf(g) <=>
          \/ g[1] = "market" /\ ledger[k].ticker = g[2]
          \/ g[1] = "event" /\ BtEventOf[ledger[k].ticker] = g[2]
          \/ g[1] = "series" /\ BtSeriesOf[ledger[k].ticker] = g[2]
          \/ g[1] = "all"
    BY <1>1 DEF MembersOf
  <2>. HIDE DEF open
  <2>. QED BY <2>1, <2>2, <2>3
<1>6. \A g \in Groups : /\ g[1] = "market" => g[2] \in BtTickers
                        /\ g[1] = "event" => g[2] \in BtEvents
                        /\ g[1] = "series" => g[2] \in BtSeries
  BY DEF Groups
<1>. HIDE DEF open, M, E, Z, held
<1>7. /\ \A t \in BtTickers : held.market[t] = SpentOn(ledger, M(t))
      /\ \A e \in BtEvents : held.event[e] = SpentOn(ledger, E(e))
      /\ \A s \in BtSeries : held.series[s] = SpentOn(ledger, Z(s))
      /\ held.aggregate = SpentOn(ledger, open)
  BY <1>2
<1>8. \A g \in Groups : HeldIn(held, g) = SpentOn(ledger, OpenIn(ledger, asof, g))
  BY <1>5, <1>6, <1>7 DEF HeldIn
<1>9. held \in BtHeld
  BY <1>2, <1>3, <1>4 DEF BtHeld
<1>. QED BY <1>8, <1>9 DEF held

LEMMA CarriedIs ==
    ASSUME NEW held \in BtHeld, NEW t \in BtTickers, NEW x \in Int
    PROVE  /\ Carried(held, t, x) \in BtHeld
           /\ \A g \in Groups : /\ HeldIn(held, g) \in Int
                                /\ HeldIn(Carried(held, t, x), g)
                                     = HeldIn(held, g) + IF t \in MembersOf(g) THEN x ELSE 0
<1>. DEFINE new == Carried(held, t, x)
<1>1. /\ held.market \in [BtTickers -> Int] /\ held.event \in [BtEvents -> Int]
      /\ held.series \in [BtSeries -> Int] /\ held.aggregate \in Int
  BY DEF BtHeld
<1>2. BtEventOf[t] \in BtEvents /\ BtSeriesOf[t] \in BtSeries
  BY DEF BtEvents, BtSeries
<1>3. /\ new.market = [held.market EXCEPT ![t] = @ + x]
      /\ new.event = [held.event EXCEPT ![BtEventOf[t]] = @ + x]
      /\ new.series = [held.series EXCEPT ![BtSeriesOf[t]] = @ + x]
      /\ new.aggregate = held.aggregate + x
      /\ new = [market |-> new.market, event |-> new.event, series |-> new.series, aggregate |-> new.aggregate]
  <2>. DEFINE A == [BtTickers -> Int]
              B == [BtEvents -> Int]
              C == [BtSeries -> Int]
  <2>1. held \in [market : A, event : B, series : C, aggregate : Int]
    BY DEF BtHeld
  <2>2. new = [held EXCEPT !.market = [held.market EXCEPT ![t] = held.market[t] + x],
                           !.event = [held.event EXCEPT ![BtEventOf[t]] = held.event[BtEventOf[t]] + x],
                           !.series = [held.series EXCEPT ![BtSeriesOf[t]] = held.series[BtSeriesOf[t]] + x],
                           !.aggregate = held.aggregate + x]
    BY DEF Carried
  <2>. HIDE DEF new, A, B, C
  <2>. QED BY <2>1, <2>2
<1>. HIDE DEF new
<1>4. /\ new.market \in [BtTickers -> Int] /\ new.event \in [BtEvents -> Int]
      /\ new.series \in [BtSeries -> Int] /\ new.aggregate \in Int
  BY <1>1, <1>2, <1>3
<1>5. new \in BtHeld
  BY <1>3, <1>4 DEF BtHeld
<1>6. ASSUME NEW g \in Groups
      PROVE  HeldIn(held, g) \in Int /\ HeldIn(new, g) = HeldIn(held, g) + IF t \in MembersOf(g) THEN x ELSE 0
  <2>1. CASE g[1] = "market"
    <3>1. g[2] \in BtTickers
      BY <2>1 DEF Groups
    <3>2. t \in MembersOf(g) <=> t = g[2]
      BY <2>1 DEF MembersOf
    <3>. QED BY <2>1, <3>1, <3>2, <1>1, <1>3 DEF HeldIn
  <2>2. CASE g[1] = "event"
    <3>1. g[2] \in BtEvents
      BY <2>2 DEF Groups
    <3>2. t \in MembersOf(g) <=> BtEventOf[t] = g[2]
      BY <2>2 DEF MembersOf
    <3>. QED BY <2>2, <3>1, <3>2, <1>1, <1>3 DEF HeldIn
  <2>3. CASE g[1] = "series"
    <3>1. g[2] \in BtSeries
      BY <2>3 DEF Groups
    <3>2. t \in MembersOf(g) <=> BtSeriesOf[t] = g[2]
      BY <2>3 DEF MembersOf
    <3>. QED BY <2>3, <3>1, <3>2, <1>1, <1>3 DEF HeldIn
  <2>4. CASE g[1] = "all"
    <3>1. t \in MembersOf(g)
      BY <2>4 DEF MembersOf
    <3>. QED BY <2>4, <3>1, <1>1, <1>3 DEF HeldIn
  <2>. QED BY <2>1, <2>2, <2>3, <2>4 DEF Groups
<1>. QED BY <1>5, <1>6 DEF new

\* An order costs what it loses at worst, for the settlement books its price.
LEMMA LossIsCost ==
    ASSUME NEW o \in BtOrders, o.price = SizingPrice(o.row, o.side), o.dollars = Collateral(o, o.row)
    PROVE  WorstLoss(o) = o.dollars
<1>. DEFINE n == o.contracts
            ask == Dollar - o.row.noBid
            bid == o.row.bid
<1>1. /\ o.row.noBid \in 0..Dollar /\ o.row.bid \in 0..Dollar /\ n \in Nat /\ o.price \in 0..Dollar
      /\ o.side \in {"buy_yes", "sell_yes"}
  BY DEF BtOrders, BtRows
<1>2. /\ ask \in 0..Dollar /\ bid \in 0..Dollar
  BY <1>1, AskInRange
<1>. DEFINE D == Dollar
<1>3. ask \in Int /\ bid \in Int /\ D \in Nat /\ 0 <= ask /\ ask <= D /\ 0 <= bid /\ bid <= D /\ n \in Nat
  BY <1>1, <1>2, InRange
<1>4. \A p \in Int : TakerFee(n, p) \in Int
  <2>. TAKE p \in Int
  <2>1. 7 * n * p * (D - p) \in Int
    BY <1>3
  <2>2. \A x \in Int : 10 * ((x + 999999) \div 1000000) \in Int
    OBVIOUS
  <2>. QED BY <2>1, <2>2 DEF TakerFee
<1>5. /\ NetOfOrder(o, o.row, "yes")
           = GrossPnl(o.side, IF o.side = "buy_yes" THEN ask ELSE bid, n, "yes" = "yes" <=> o.side = "buy_yes")
             - TakerFee(n, IF o.side = "buy_yes" THEN ask ELSE bid)
      /\ NetOfOrder(o, o.row, "no")
           = GrossPnl(o.side, IF o.side = "buy_yes" THEN ask ELSE bid, n, "no" = "yes" <=> o.side = "buy_yes")
             - TakerFee(n, IF o.side = "buy_yes" THEN ask ELSE bid)
  BY DEF NetOfOrder, YesAsk
<1>6. \A x, y \in Int : Min({x, y}) = IF x <= y THEN x ELSE y
  BY MinOfTwo
<1>7. CASE o.side = "buy_yes"
  <2>. DEFINE f == TakerFee(n, ask)
  <2>1. f \in Int
    BY <1>3, <1>4
  <2>2. NetOfOrder(o, o.row, "yes") = (D - ask) * n - f /\ NetOfOrder(o, o.row, "no") = (-ask) * n - f
    BY <1>5, <1>7 DEF GrossPnl
  <2>3. o.price = ask /\ o.dollars = ask * n
    BY <1>7 DEF SizingPrice, YesAsk, Collateral
  <2>4. TakerFee(n, ExecutedYes(o)) = f
    BY <1>7, <2>3 DEF ExecutedYes
  <2>. HIDE DEF f, ask, bid, n, D
  <2>5. (D - ask) * n \in Int /\ (-ask) * n \in Int /\ (D - ask) * n >= (-ask) * n /\ -((-ask) * n) = ask * n
    <3>1. (D - ask) * n = D * n + (-ask) * n /\ D * n \in Nat
      BY <1>3
    <3>2. (-ask) * n \in Int /\ -((-ask) * n) = ask * n
      BY <1>3
    <3>. QED BY <3>1, <3>2
  <2>. DEFINE x == (D - ask) * n
              y == (-ask) * n
  <2>6. Min({x - f, y - f}) = y - f
    <3>. HIDE DEF x, y
    <3>1. x \in Int /\ y \in Int /\ x >= y
      BY <2>5 DEF x, y
    <3>2. ~(x - f <= y - f) \/ x - f = y - f
      BY <2>1, <3>1
    <3>. QED BY <1>6, <2>1, <3>1, <3>2
  <2>. HIDE DEF x
  <2>7. WorstLoss(o) = -(y - f) - f
    BY <2>2, <2>4, <2>6 DEF WorstLoss, n, x
  <2>. QED BY <2>1, <2>3, <2>5, <2>7
<1>8. CASE o.side = "sell_yes"
  <2>. DEFINE f == TakerFee(n, bid)
  <2>1. f \in Int
    BY <1>3, <1>4
  <2>2. NetOfOrder(o, o.row, "yes") = (bid - D) * n - f /\ NetOfOrder(o, o.row, "no") = bid * n - f
    BY <1>5, <1>8 DEF GrossPnl
  <2>3. o.price = D - bid /\ o.dollars = (D - bid) * n
    BY <1>8 DEF SizingPrice, NoAsk, Collateral
  <2>4. TakerFee(n, ExecutedYes(o)) = f
    <3>1. ExecutedYes(o) = D - (D - bid)
      BY <1>8, <2>3 DEF ExecutedYes
    <3>2. D - (D - bid) = bid
      <4>. HIDE DEF D, bid
      <4>. QED BY <1>3
    <3>. QED BY <3>1, <3>2
  <2>. HIDE DEF f, ask, bid, n, D
  <2>5. (bid - D) * n \in Int /\ bid * n \in Int /\ (bid - D) * n <= bid * n /\ -((bid - D) * n) = (D - bid) * n
    <3>1. bid * n = D * n + (bid - D) * n /\ D * n \in Nat /\ (bid - D) * n \in Int
      BY <1>3
    <3>2. -((bid - D) * n) = (D - bid) * n
      BY <1>3
    <3>. QED BY <3>1, <3>2
  <2>. DEFINE x == (bid - D) * n
              y == bid * n
  <2>6. Min({x - f, y - f}) = x - f
    <3>. HIDE DEF x, y
    <3>1. x \in Int /\ y \in Int /\ x <= y
      BY <2>5 DEF x, y
    <3>. QED BY <1>6, <2>1, <3>1
  <2>. HIDE DEF y
  <2>7. WorstLoss(o) = -(x - f) - f
    BY <2>2, <2>4, <2>6 DEF WorstLoss, n, y
  <2>. QED BY <2>1, <2>3, <2>5, <2>7
<1>. QED BY <1>1, <1>7, <1>8

\* An order of a decision.
OrderOf(o, d) ==
    o.ticker = d.ticker /\ o.asof = d.asof /\ o.row = d.row /\ WorstLoss(o) = o.dollars

\* What a decision does to a replay: nothing, or it books an order under the caps.
BooksOne(old, new, d) ==
    \E o \in BtOrders :
        /\ OrderOf(o, d) /\ new.ledger = Append(old.ledger, o)
        /\ new.held = Carried(old.held, d.ticker, o.dollars)
        /\ \A g \in Groups : d.ticker \in MembersOf(g) => HeldIn(old.held, g) + o.dollars <= CapOver(g)

Books(old, new, d) ==
    /\ new \in BtRuns /\ new.minute = old.minute
    /\ (new.ledger = old.ledger /\ new.held = old.held) \/ BooksOne(old, new, d)

LEMMA BookedIs ==
    ASSUME NEW cycle \in BtRuns, NEW d, DecisionOk(d), NEW q, QuoteOk(q), q.bid = d.row.bid, q.noBid = d.row.noBid
    PROVE  Books(cycle, Booked(cycle, d, Signals(q)), d)
<1>. DEFINE signals == Signals(q)
            passing == {i \in signals : GatesPass(cycle.held, d, i)}
            i       == CHOOSE x \in passing : TRUE
            dollars == Collateral(i, d.row)
            o       == [ticker |-> d.ticker, asof |-> d.asof, side |-> i.side, price |-> i.price,
                        contracts |-> i.contracts, dollars |-> dollars, row |-> d.row]
            out     == Booked(cycle, d, signals)
<1>1. out = IF passing = {} THEN cycle
            ELSE [cycle EXCEPT !.ledger = Append(cycle.ledger, o), !.held = Carried(cycle.held, d.ticker, dollars)]
  BY DEF Booked
<1>2. CASE passing = {}
  <2>1. out = cycle
    BY <1>1, <1>2
  <2>. QED BY <2>1 DEF Books
<1>3. CASE passing # {}
  <2>1. i \in signals /\ GatesPass(cycle.held, d, i)
    BY <1>3
  <2>2. /\ i.side \in {"buy_yes", "sell_yes"} /\ i.contracts \in Nat /\ i.price \in 0..Dollar
        /\ i.price = SizingPrice(q, i.side) /\ i.price * i.contracts \in Nat
    <3>1. Min({MarketCap, EventCap}) \in Int
      BY CapsAreNumbers, MinOfTwo
    <3>2. i \in BuildIntents(q, Min({MarketCap, EventCap}))
      BY <2>1 DEF Signals
    <3>. HIDE DEF i
    <3>. QED BY <3>1, <3>2, IntentIs
  <2>3. SizingPrice(q, i.side) = SizingPrice(d.row, i.side)
    BY DEF SizingPrice, YesAsk, NoAsk
  <2>4. dollars = i.price * i.contracts
    BY <2>2, <2>3 DEF Collateral, SizingPrice, YesAsk, NoAsk
  <2>5. d.ticker \in BtTickers /\ d.asof \in Int /\ d.row \in BtRows
    BY DEF DecisionOk
  <2>. HIDE DEF signals, passing, i, dollars
  <2>6. o \in BtOrders
    BY <2>2, <2>4, <2>5 DEF BtOrders
  <2>7. /\ o.price = SizingPrice(o.row, o.side) /\ o.dollars = Collateral(o, o.row) /\ o.dollars = dollars
        /\ o.ticker = d.ticker /\ o.asof = d.asof /\ o.row = d.row
    BY <2>2, <2>3 DEF dollars, Collateral
  <2>. HIDE DEF o
  <2>8. OrderOf(o, d)
    BY <2>6, <2>7, LossIsCost DEF OrderOf
  <2>9. /\ cycle.ledger \in Seq(BtOrders) /\ cycle.held \in BtHeld
        /\ cycle.minute \in Int \cup {NOTIME} /\ cycle.failed \in BOOLEAN
    BY DEF BtRuns
  <2>10. dollars \in Int
    BY <2>2, <2>4
  <2>11. Append(cycle.ledger, o) \in Seq(BtOrders) /\ Carried(cycle.held, d.ticker, dollars) \in BtHeld
    BY <2>5, <2>6, <2>9, <2>10, CarriedIs
  <2>12. /\ out.ledger = Append(cycle.ledger, o) /\ out.held = Carried(cycle.held, d.ticker, dollars)
         /\ out.minute = cycle.minute /\ out.failed = cycle.failed /\ out \in BtRuns
    <3>. HIDE DEF out
    <3>1. out = [cycle EXCEPT !.ledger = Append(cycle.ledger, o), !.held = Carried(cycle.held, d.ticker, dollars)]
      BY <1>1, <1>3 DEF o
    <3>. QED BY <2>11, <3>1 DEF BtRuns
  <2>13. ASSUME NEW g \in Groups, d.ticker \in MembersOf(g)
         PROVE  HeldIn(cycle.held, g) + dollars <= CapOver(g)
    <3>1. /\ cycle.held.market[d.ticker] + dollars <= MarketCap
          /\ cycle.held.event[BtEventOf[d.ticker]] + dollars <= EventCap
          /\ cycle.held.series[BtSeriesOf[d.ticker]] + dollars <= BtSeriesCap
          /\ cycle.held.aggregate + dollars <= BtAggregateCap
      BY <2>1, <2>4 DEF GatesPass
    <3>2. /\ g[1] = "market" => d.ticker = g[2]
          /\ g[1] = "event" => BtEventOf[d.ticker] = g[2]
          /\ g[1] = "series" => BtSeriesOf[d.ticker] = g[2]
      BY <2>13 DEF MembersOf
    <3>. QED BY <3>1, <3>2 DEF HeldIn, CapOver
  <2>14. BooksOne(cycle, out, d)
    <3>. HIDE DEF out
    <3>. QED BY <2>6, <2>7, <2>8, <2>12, <2>13 DEF BooksOne
  <2>15. Books(cycle, out, d)
    <3>. HIDE DEF out
    <3>. QED BY <2>12, <2>14 DEF Books
  <2>. QED BY <2>15 DEF signals
<1>. QED BY <1>2, <1>3

LEMMA AtMinuteIs ==
    ASSUME NEW run \in BtRuns, NEW d, DecisionOk(d)
    PROVE  LET cycle == AtMinute(run, d)
           IN  /\ cycle \in BtRuns /\ cycle.ledger = run.ledger /\ cycle.minute = d.asof \div BtMinute
               /\ cycle.held = IF run.minute = d.asof \div BtMinute THEN run.held ELSE Seeded(run.ledger, d.asof)
<1>. DEFINE minute == d.asof \div BtMinute
            cycle  == AtMinute(run, d)
            seed   == Seeded(run.ledger, d.asof)
<1>1. minute \in Int
  BY FloorIs, BtAssumption DEF DecisionOk
<1>2. seed \in BtHeld
  BY SeededIs DEF BtRuns
<1>3. cycle = IF run.minute = minute THEN run ELSE [run EXCEPT !.minute = minute, !.held = seed]
  BY DEF AtMinute
<1>. HIDE DEF minute, cycle, seed
<1>4. /\ cycle \in BtRuns /\ cycle.ledger = run.ledger /\ cycle.minute = minute
      /\ cycle.held = IF run.minute = minute THEN run.held ELSE seed
  BY <1>1, <1>2, <1>3 DEF BtRuns
<1>. QED BY <1>4 DEF minute, cycle, seed

LEMMA LargestOfOne == \A x \in Int : Max({x}) = x
BY MaxIs

LEMMA DecideIs ==
    ASSUME NEW job, JobOk(job), NEW run \in BtRuns, NEW d, DecisionOk(d)
    PROVE  Books(AtMinute(run, d), Decide(job, run, d), d)
<1>. DEFINE cycle  == AtMinute(run, d)
            latest == ForecastRun(job, d.asof)
            out    == Decide(job, run, d)
<1>1. cycle \in BtRuns
  BY AtMinuteIs
<1>2. latest # {} => Max(latest) \in job.tape.runs
  <2>1. job.tape.runs \in SUBSET Int /\ IsFiniteSet(job.tape.runs)
    BY DEF JobOk, TapeOk
  <2>2. CASE job.source \in {"tables", "trades"}
    <3>. DEFINE past == {r \in job.tape.runs : r <= d.asof}
    <3>1. latest = IF past = {} THEN {} ELSE {Max(past)}
      BY <2>2 DEF ForecastRun, FetchedRun
    <3>2. past # {} => Max(past) \in past
      <4>1. past \in SUBSET job.tape.runs
        OBVIOUS
      <4>. HIDE DEF past
      <4>2. IsFiniteSet(past) /\ past \in SUBSET Int
        BY <2>1, <4>1, FS_Subset
      <4>. QED BY <4>2, MaxOfFinite
    <3>3. past # {} => Max(past) \in job.tape.runs
      BY <3>2
    <3>. HIDE DEF latest, past
    <3>4. past # {} => Max(latest) = Max(past)
      <4>. QED BY <2>1, <3>1, <3>3, LargestOfOne
    <3>. QED BY <3>1, <3>3, <3>4
  <2>3. CASE job.source \notin {"tables", "trades"}
    <3>. DEFINE c == PickCycle(d.asof)
    <3>1. latest = {c} \cap job.tape.runs
      BY <2>3 DEF ForecastRun
    <3>. HIDE DEF latest, c
    <3>2. latest # {} => latest = {c} /\ c \in job.tape.runs /\ c \in Int
      BY <2>1, <3>1
    <3>. QED BY <3>2, LargestOfOne
  <2>. QED BY <2>2, <2>3
<1>3. latest # {} =>
        /\ QuoteOk(Shown(d, Max(latest))) /\ Shown(d, Max(latest)).bid = d.row.bid
        /\ Shown(d, Max(latest)).noBid = d.row.noBid
        /\ QuoteOk(ShownOfTrade(d, Max(latest))) /\ ShownOfTrade(d, Max(latest)).bid = d.row.bid
        /\ ShownOfTrade(d, Max(latest)).noBid = d.row.noBid
  <2>. HIDE DEF latest
  <2>. QED BY <1>2, ShownIsOk
<1>4. Books(cycle, cycle, d)
  BY <1>1 DEF Books
<1>5. Books(cycle, [cycle EXCEPT !.failed = TRUE], d)
  <2>. HIDE DEF cycle
  <2>. QED BY <1>1 DEF Books, BtRuns
<1>6. out \in {cycle, [cycle EXCEPT !.failed = TRUE]}
      \/ /\ latest # {}
         /\ out \in {Booked(cycle, d, Signals(Shown(d, Max(latest)))),
                     Booked(cycle, d, Signals(ShownOfTrade(d, Max(latest))))}
  BY DEF Decide, DecideSnapshot, DecideTrade
<1>. HIDE DEF cycle, latest, out
<1>7. latest # {} =>
        /\ Books(cycle, Booked(cycle, d, Signals(Shown(d, Max(latest)))), d)
        /\ Books(cycle, Booked(cycle, d, Signals(ShownOfTrade(d, Max(latest)))), d)
  BY <1>1, <1>3, BookedIs
<1>8. Books(cycle, out, d)
  BY <1>4, <1>5, <1>6, <1>7
<1>. QED BY <1>8 DEF cycle, out

-----------------------------------------------------------------------------
(***************************************************************************)
(* The backtest: its runs                                                  *)
(***************************************************************************)

\* What is in the same minute is on the same day.
LEMMA SameDay ==
    ASSUME NEW a \in Int, NEW b \in Int, a \div BtMinute = b \div BtMinute
    PROVE  a \div BtDay = b \div BtDay
<1>. DEFINE m == BtMinute
            k == BtDay \div BtMinute
<1>1. m \in Nat \ {0} /\ BtDay \in Nat \ {0} /\ BtDay % m = 0
  BY BtAssumption
<1>2. k \in Int /\ BtDay = m * k
  BY <1>1, SMT
<1>3. k \in Nat \ {0}
  <2>1. \A x \in Int : x <= 0 => m * x <= 0
    BY <1>1, SMT
  <2>. HIDE DEF m, k
  <2>. QED BY <1>1, <1>2, <2>1
<1>. HIDE DEF k
<1>4. \A x, y \in Int : m * x < m * y => x < y
  <2>. TAKE x \in Int, y \in Int
  <2>1. x >= y => m * (x - y) >= 0
    BY <1>1, SMT
  <2>2. m * (x - y) = m * x - m * y
    BY <1>1, SMT
  <2>3. m * x \in Int /\ m * y \in Int
    BY <1>1
  <2>. QED BY <2>1, <2>2, <2>3
<1>5. \A x, y \in Int : k * x < k * y => x < y
  <2>. TAKE x \in Int, y \in Int
  <2>1. x >= y => k * (x - y) >= 0
    BY <1>3, SMT
  <2>2. k * (x - y) = k * x - k * y
    BY <1>3, SMT
  <2>3. k * x \in Int /\ k * y \in Int
    BY <1>3
  <2>. QED BY <2>1, <2>2, <2>3
<1>6. ASSUME NEW c \in Int
      PROVE  /\ c \div BtDay \in Int
             /\ k * (c \div BtDay) <= c \div m
             /\ c \div m < k * (c \div BtDay) + k
  <2>. DEFINE p == c \div BtDay
              q == c \div m
  <2>1. p \in Int /\ q \in Int /\ BtDay * p <= c /\ c < BtDay * p + BtDay /\ m * q <= c /\ c < m * q + m
    BY <1>1, FloorIs
  <2>. HIDE DEF p, q
  <2>2. BtDay * p = m * (k * p) /\ BtDay * p + BtDay = m * (k * p + k)
    BY <1>1, <1>2, <1>3, <2>1
  <2>3. m * (q + 1) = m * q + m /\ k * p \in Int /\ m * q \in Int /\ m * (k * p) \in Int /\ m * (k * p + k) \in Int
    BY <1>1, <1>3, <2>1
  <2>4. m * (k * p) < m * (q + 1) /\ m * q < m * (k * p + k)
    <3>1. m * (k * p) <= c /\ c < m * (q + 1) /\ m * q <= c /\ c < m * (k * p + k)
      BY <2>1, <2>2, <2>3
    <3>2. m * (q + 1) \in Int
      BY <1>1, <2>1
    <3>. HIDE DEF m
    <3>. QED BY <2>3, <3>1, <3>2
  <2>5. k * p < q + 1
    BY <1>4, <2>1, <2>3, <2>4
  <2>6. q < k * p + k
    BY <1>3, <1>4, <2>1, <2>3, <2>4
  <2>7. k * p <= q
    BY <2>1, <2>3, <2>5
  <2>. QED BY <2>1, <2>6, <2>7 DEF p, q
<1>7. ASSUME NEW x \in Int, NEW y \in Int, NEW q \in Int, k * x <= q, q < k * y + k PROVE x <= y
  <2>1. k * (y + 1) = k * y + k /\ k * x \in Int /\ k * y \in Int
    BY <1>3
  <2>2. k * x < k * (y + 1)
    BY <1>3, <1>7, <2>1
  <2>3. x < y + 1
    BY <1>5, <2>2
  <2>. QED BY <2>3
<1>. DEFINE p == a \div BtDay
            r == b \div BtDay
            q == a \div m
<1>8. /\ p \in Int /\ k * p <= q /\ q < k * p + k
      /\ r \in Int /\ k * r <= q /\ q < k * r + k
      /\ q \in Int
  <2>1. a \div m \in Int
    BY <1>1, FloorIs
  <2>. QED BY <1>6, <2>1
<1>. HIDE DEF p, r, q
<1>9. p <= r /\ r <= p
  BY <1>7, <1>8
<1>10. p = r
  BY <1>8, <1>9
<1>. QED BY <1>10 DEF p, r

\* What holds of a ledger and of what the overlays hold.
FromDecisions(ledger, ds, n) == \A k \in DOMAIN ledger : \E j \in 1..n : OrderOf(ledger[k], ds[j])
InTime(ledger) == \A j, k \in DOMAIN ledger : j <= k => ledger[j].asof <= ledger[k].asof
Covers(held, minute, ledger) ==
    \A a \in Int, g \in Groups :
        a \div BtMinute = minute => SpentOn(ledger, OpenIn(ledger, a, g)) <= HeldIn(held, g)
CapsKept(ledger) ==
    \A m \in DOMAIN ledger, g \in Groups :
        SpentOn(ledger, {k \in OpenIn(ledger, ledger[m].asof, g) : k <= m}) <= CapOver(g)

RunOk(ds, n, run) ==
    /\ run \in BtRuns /\ FromDecisions(run.ledger, ds, n) /\ InTime(run.ledger)
    /\ Covers(run.held, run.minute, run.ledger) /\ CapsKept(run.ledger)

LEMMA OpenIs ==
    ASSUME NEW ledger \in Seq(BtOrders), NEW a, NEW g
    PROVE  /\ OpenIn(ledger, a, g) \in SUBSET DOMAIN ledger
           /\ \A k \in DOMAIN ledger : k \in OpenIn(ledger, a, g) <=>
                 BtCutoff[ledger[k].ticker] + BtGrace > a \div BtDay /\ ledger[k].ticker \in MembersOf(g)
BY DEF OpenIn, OpenFills

LEMMA OpenAppends ==
    ASSUME NEW ledger \in Seq(BtOrders), NEW o \in BtOrders, NEW a, NEW g
    PROVE  LET more == Append(ledger, o)
               n    == Len(ledger) + 1
           IN  /\ OpenIn(more, a, g) \in {OpenIn(ledger, a, g), OpenIn(ledger, a, g) \cup {n}}
               /\ n \in OpenIn(more, a, g) => o.ticker \in MembersOf(g)
               /\ OpenIn(more, a, g) \cap DOMAIN ledger = OpenIn(ledger, a, g)
<1>. DEFINE more == Append(ledger, o)
            n    == Len(ledger) + 1
<1>1. /\ more \in Seq(BtOrders) /\ DOMAIN more = DOMAIN ledger \cup {n} /\ n \notin DOMAIN ledger
      /\ more[n] = o /\ \A k \in DOMAIN ledger : more[k] = ledger[k]
  BY LedgerIs
<1>. HIDE DEF more, n
<1>2. /\ OpenIn(more, a, g) \in SUBSET DOMAIN more /\ OpenIn(ledger, a, g) \in SUBSET DOMAIN ledger
      /\ \A k \in DOMAIN ledger : k \in OpenIn(more, a, g) <=> k \in OpenIn(ledger, a, g)
      /\ n \in OpenIn(more, a, g) => o.ticker \in MembersOf(g)
  BY <1>1, OpenIs
<1>3. OpenIn(more, a, g) \cap DOMAIN ledger = OpenIn(ledger, a, g)
  BY <1>1, <1>2
<1>4. OpenIn(more, a, g) \in {OpenIn(ledger, a, g), OpenIn(ledger, a, g) \cup {n}}
  BY <1>1, <1>2
<1>. QED BY <1>2, <1>3, <1>4 DEF more, n

\* Later on fewer orders are open, in a minute always the same.
LEMMA OpenShrinks ==
    ASSUME NEW ledger \in Seq(BtOrders), NEW a \in Int, NEW b \in Int, a <= b, NEW g
    PROVE  OpenIn(ledger, b, g) \subseteq OpenIn(ledger, a, g)
<1>1. a \div BtDay <= b \div BtDay /\ a \div BtDay \in Int /\ b \div BtDay \in Int
  BY DaysMount, FloorIs, BtAssumption
<1>2. \A k \in DOMAIN ledger : BtCutoff[ledger[k].ticker] + BtGrace \in Int
  BY LedgerIs, BtAssumption
<1>3. \A k \in DOMAIN ledger : BtCutoff[ledger[k].ticker] + BtGrace > b \div BtDay
                                  => BtCutoff[ledger[k].ticker] + BtGrace > a \div BtDay
  BY <1>1, <1>2
<1>. QED BY <1>3, OpenIs

LEMMA OpenInMinute ==
    ASSUME NEW ledger, NEW a \in Int, NEW b \in Int, a \div BtMinute = b \div BtMinute, NEW g
    PROVE  OpenIn(ledger, a, g) = OpenIn(ledger, b, g)
BY SameDay DEF OpenIn, OpenFills

LEMMA CapsAre == ASSUME NEW g PROVE CapOver(g) \in Int /\ CapOver(g) >= 0
BY CapsAreNumbers, BtAssumption DEF CapOver

\* What an order adds to what is open is no more than its dollars.
LEMMA OpenSpendsMore ==
    ASSUME NEW ledger \in Seq(BtOrders), NEW o \in BtOrders, NEW a, NEW g
    PROVE  LET more == Append(ledger, o)
           IN  SpentOn(more, OpenIn(more, a, g))
                 <= SpentOn(ledger, OpenIn(ledger, a, g)) + IF o.ticker \in MembersOf(g) THEN o.dollars ELSE 0
<1>. DEFINE more == Append(ledger, o)
            n    == Len(ledger) + 1
            O    == OpenIn(ledger, a, g)
<1>1. o.dollars \in Nat
  BY DEF BtOrders
<1>2. /\ OpenIn(more, a, g) \in {O, O \cup {n}}
      /\ n \in OpenIn(more, a, g) => o.ticker \in MembersOf(g)
  BY OpenAppends
<1>3. O \in SUBSET DOMAIN ledger
  BY OpenIs
<1>4. /\ SpentOn(more, O) = SpentOn(ledger, O)
      /\ SpentOn(more, O \cup {n}) = SpentOn(ledger, O) + o.dollars
  BY <1>3, SpentAppends
<1>5. SpentOn(ledger, O) \in Int
  BY <1>3, SpentGrows
<1>. HIDE DEF more, n, O
<1>. DEFINE x == IF o.ticker \in MembersOf(g) THEN o.dollars ELSE 0
<1>6. OpenIn(more, a, g) = O => SpentOn(more, OpenIn(more, a, g)) <= SpentOn(ledger, O) + x
  BY <1>1, <1>4, <1>5
<1>7. OpenIn(more, a, g) = O \cup {n} => SpentOn(more, OpenIn(more, a, g)) <= SpentOn(ledger, O) + x
  <2>1. OpenIn(more, a, g) = O \cup {n} => x = o.dollars
    BY <1>2
  <2>. HIDE DEF x
  <2>. QED BY <2>1, <1>1, <1>4, <1>5
<1>8. SpentOn(more, OpenIn(more, a, g)) <= SpentOn(ledger, O) + x
  <2>. HIDE DEF x
  <2>. QED BY <1>2, <1>6, <1>7
<1>. QED BY <1>8 DEF more, O

\* An order that its caps let through keeps the ledger within all caps.
LEMMA OrderKeepsCaps ==
    ASSUME NEW ledger \in Seq(BtOrders), NEW o \in BtOrders, NEW held \in BtHeld, CapsKept(ledger), InTime(ledger),
           \A k \in DOMAIN ledger : ledger[k].asof <= o.asof,
           Covers(held, o.asof \div BtMinute, ledger),
           \A g \in Groups : o.ticker \in MembersOf(g) => HeldIn(held, g) + o.dollars <= CapOver(g)
    PROVE  /\ CapsKept(Append(ledger, o)) /\ InTime(Append(ledger, o))
           /\ Covers(Carried(held, o.ticker, o.dollars), o.asof \div BtMinute, Append(ledger, o))
<1>. DEFINE more == Append(ledger, o)
            n    == Len(ledger) + 1
<1>1. /\ more \in Seq(BtOrders) /\ DOMAIN more = DOMAIN ledger \cup {n} /\ n \notin DOMAIN ledger
      /\ more[n] = o /\ \A k \in DOMAIN ledger : more[k] = ledger[k] /\ k <= n /\ k \in Int
      /\ n \in Nat /\ DOMAIN ledger = 1..(n - 1)
  BY LedgerIs
<1>2. o.dollars \in Nat /\ o.asof \in Int /\ o.ticker \in BtTickers
  BY DEF BtOrders
<1>. HIDE DEF more, n
<1>3. InTime(more)
  <2>. SUFFICES ASSUME NEW j \in DOMAIN more, NEW k \in DOMAIN more, j <= k PROVE more[j].asof <= more[k].asof
    BY DEF InTime
  <2>1. CASE k = n
    BY <1>1, <1>2, <2>1
  <2>2. CASE k # n
    <3>1. j \in DOMAIN ledger /\ k \in DOMAIN ledger
      BY <1>1, <2>2
    <3>. QED BY <1>1, <3>1 DEF InTime
  <2>. QED BY <2>1, <2>2
<1>4. \A a \in Int, g \in Groups :
          /\ SpentOn(ledger, OpenIn(ledger, a, g)) \in Int /\ SpentOn(more, OpenIn(more, a, g)) \in Int
          /\ SpentOn(more, OpenIn(more, a, g))
               <= SpentOn(ledger, OpenIn(ledger, a, g)) + IF o.ticker \in MembersOf(g) THEN o.dollars ELSE 0
  <2>. TAKE a \in Int, g \in Groups
  <2>1. SpentOn(ledger, OpenIn(ledger, a, g)) \in Int /\ SpentOn(more, OpenIn(more, a, g)) \in Int
    BY <1>1, OpenIs, SpentGrows
  <2>. QED BY <2>1, OpenSpendsMore DEF more
<1>5. \A g \in Groups : /\ HeldIn(held, g) \in Int
                        /\ HeldIn(Carried(held, o.ticker, o.dollars), g)
                             = HeldIn(held, g) + IF o.ticker \in MembersOf(g) THEN o.dollars ELSE 0
  <2>1. o.dollars \in Int
    BY <1>2
  <2>. QED BY <1>2, <2>1, CarriedIs
<1>6. Covers(Carried(held, o.ticker, o.dollars), o.asof \div BtMinute, more)
  <2>. SUFFICES ASSUME NEW a \in Int, NEW g \in Groups, a \div BtMinute = o.asof \div BtMinute
                PROVE  SpentOn(more, OpenIn(more, a, g)) <= HeldIn(Carried(held, o.ticker, o.dollars), g)
    BY DEF Covers
  <2>. DEFINE x == IF o.ticker \in MembersOf(g) THEN o.dollars ELSE 0
  <2>1. SpentOn(ledger, OpenIn(ledger, a, g)) <= HeldIn(held, g)
    BY DEF Covers
  <2>2. x \in Int
    BY <1>2
  <2>3. HeldIn(Carried(held, o.ticker, o.dollars), g) = HeldIn(held, g) + x /\ HeldIn(held, g) \in Int
    BY <1>5
  <2>4. /\ SpentOn(more, OpenIn(more, a, g)) <= SpentOn(ledger, OpenIn(ledger, a, g)) + x
        /\ SpentOn(ledger, OpenIn(ledger, a, g)) \in Int /\ SpentOn(more, OpenIn(more, a, g)) \in Int
    BY <1>4
  <2>. HIDE DEF x
  <2>. QED BY <2>1, <2>2, <2>3, <2>4
<1>7. ASSUME NEW m \in DOMAIN more, NEW g \in Groups
      PROVE  SpentOn(more, {k \in OpenIn(more, more[m].asof, g) : k <= m}) <= CapOver(g)
  <2>1. CASE m \in DOMAIN ledger
    <3>. DEFINE a == more[m].asof
                A == {k \in OpenIn(more, a, g) : k <= m}
                B == {k \in OpenIn(ledger, a, g) : k <= m}
    <3>1. a = ledger[m].asof
      BY <1>1, <2>1
    <3>2. \A k \in DOMAIN ledger : k \in OpenIn(more, a, g) <=> k \in OpenIn(ledger, a, g)
      <4>1. OpenIn(more, a, g) \cap DOMAIN ledger = OpenIn(ledger, a, g)
        BY OpenAppends DEF more
      <4>. QED BY <4>1
    <3>3. OpenIn(more, a, g) \subseteq DOMAIN more /\ OpenIn(ledger, a, g) \subseteq DOMAIN ledger
      BY <1>1, OpenIs
    <3>4. \A k \in DOMAIN more : k <= m => k \in DOMAIN ledger
      BY <1>1, <2>1
    <3>. HIDE DEF a
    <3>5. A = B /\ B \in SUBSET DOMAIN ledger
      BY <3>2, <3>3, <3>4
    <3>6. SpentOn(ledger, B) <= CapOver(g)
      BY <2>1, <3>1 DEF CapsKept
    <3>. HIDE DEF A, B
    <3>7. SpentOn(more, A) = SpentOn(ledger, B)
      BY <3>5, SpentAppends DEF more
    <3>8. SpentOn(more, A) <= CapOver(g)
      BY <3>6, <3>7
    <3>. QED BY <3>8 DEF A, a
  <2>2. CASE m = n
    <3>. DEFINE a == o.asof
    <3>1. {k \in OpenIn(more, more[m].asof, g) : k <= m} = OpenIn(more, a, g)
      <4>1. OpenIn(more, a, g) \subseteq DOMAIN more
        BY <1>1, OpenIs
      <4>2. \A k \in DOMAIN more : k <= n
        BY <1>1
      <4>. QED BY <1>1, <2>2, <4>1, <4>2
    <3>2. CASE o.ticker \in MembersOf(g)
      <4>1. SpentOn(more, OpenIn(more, a, g)) <= SpentOn(ledger, OpenIn(ledger, a, g)) + o.dollars
        BY <1>2, <1>4, <3>2
      <4>2. SpentOn(ledger, OpenIn(ledger, a, g)) <= HeldIn(held, g)
        BY <1>2 DEF Covers
      <4>3. HeldIn(held, g) + o.dollars <= CapOver(g)
        BY <3>2
      <4>4. CapOver(g) \in Int
        BY CapsAre
      <4>5. SpentOn(ledger, OpenIn(ledger, a, g)) \in Int /\ SpentOn(more, OpenIn(more, a, g)) \in Int
            /\ HeldIn(held, g) \in Int
        BY <1>2, <1>4, <1>5
      <4>6. SpentOn(more, OpenIn(more, a, g)) <= CapOver(g)
        BY <1>2, <4>1, <4>2, <4>3, <4>4, <4>5
      <4>. QED BY <3>1, <4>6
    <3>3. CASE o.ticker \notin MembersOf(g)
      <4>1. OpenIn(more, a, g) = OpenIn(ledger, a, g)
        <5>1. /\ OpenIn(more, a, g) \in {OpenIn(ledger, a, g), OpenIn(ledger, a, g) \cup {n}}
              /\ n \in OpenIn(more, a, g) => o.ticker \in MembersOf(g)
          BY OpenAppends DEF more, n
        <5>. QED BY <3>3, <5>1
      <4>2. OpenIn(ledger, a, g) \in SUBSET DOMAIN ledger
        BY OpenIs
      <4>3. SpentOn(more, OpenIn(more, a, g)) = SpentOn(ledger, OpenIn(ledger, a, g))
        BY <4>1, <4>2, SpentAppends DEF more
      <4>4. CASE DOMAIN ledger = {}
        <5>1. OpenIn(ledger, a, g) = {}
          BY <4>2, <4>4
        <5>2. CapOver(g) >= 0
          BY CapsAre
        <5>. QED BY <3>1, <4>3, <5>1, <5>2, SpentOnNothing
      <4>5. CASE DOMAIN ledger # {}
        <5>. DEFINE l == n - 1
                    T == {k \in OpenIn(ledger, ledger[l].asof, g) : k <= l}
        <5>1. l \in DOMAIN ledger /\ \A k \in DOMAIN ledger : k <= l
          BY <1>1, <4>5
        <5>2. ledger[l].asof <= a /\ ledger[l].asof \in Int /\ a \in Int
          BY <1>2, <5>1, LedgerIs
        <5>. HIDE DEF l, a
        <5>3. OpenIn(ledger, a, g) \subseteq OpenIn(ledger, ledger[l].asof, g)
          BY <5>2, OpenShrinks
        <5>4. OpenIn(ledger, a, g) \in SUBSET T /\ T \in SUBSET DOMAIN ledger
          BY <4>2, <5>1, <5>3, OpenIs
        <5>5. SpentOn(ledger, T) <= CapOver(g)
          BY <5>1 DEF CapsKept
        <5>. HIDE DEF T
        <5>6. /\ SpentOn(ledger, OpenIn(ledger, a, g)) <= SpentOn(ledger, T)
              /\ SpentOn(ledger, OpenIn(ledger, a, g)) \in Int /\ SpentOn(ledger, T) \in Int
          BY <5>4, SpentGrows
        <5>7. CapOver(g) \in Int
          BY CapsAre
        <5>8. SpentOn(more, OpenIn(more, a, g)) <= CapOver(g)
          BY <4>3, <5>5, <5>6, <5>7
        <5>. QED BY <3>1, <5>8 DEF a
      <4>. QED BY <4>4, <4>5
    <3>. QED BY <3>2, <3>3
  <2>. QED BY <1>1, <2>1, <2>2
<1>8. CapsKept(more)
  BY <1>7 DEF CapsKept
<1>. QED BY <1>3, <1>6, <1>8 DEF more

NextRun(job, run, d) == IF run.failed THEN run ELSE Decide(job, run, d)

\* A run unrolls its decisions.
LEMMA RunsAre ==
    ASSUME NEW job, Len(DecisionsOf(job)) \in Nat
    PROVE  /\ RunsOf(job)[0] = FreshRun
           /\ \A n \in 1..Len(DecisionsOf(job)) :
                 RunsOf(job)[n] = NextRun(job, RunsOf(job)[n - 1], DecisionsOf(job)[n])
<1>. DEFINE ds == DecisionsOf(job)
            N  == Len(ds)
            Unrolled(g, m) ==
                g = [n \in 0..m |->
                        IF n = 0 THEN FreshRun
                        ELSE IF g[n - 1].failed THEN g[n - 1] ELSE Decide(job, g[n - 1], ds[n])]
            D == {m \in 0..N : \E g : Unrolled(g, m)}
<1>1. N \in Nat
  OBVIOUS
<1>. HIDE DEF ds, N
<1>2. 0 \in D
  <2>. DEFINE h == [n \in 0..0 |-> FreshRun]
  <2>1. Unrolled(h, 0)
    OBVIOUS
  <2>2. 0 \in 0..N
    BY <1>1
  <2>. HIDE DEF h, Unrolled
  <2>. QED BY <2>1, <2>2
<1>3. ASSUME NEW m \in 1..N, m - 1 \in D PROVE m \in D
  <2>1. PICK g : Unrolled(g, m - 1)
    BY <1>3
  <2>. DEFINE last == IF g[m - 1].failed THEN g[m - 1] ELSE Decide(job, g[m - 1], ds[m])
              h == [n \in 0..m |-> IF n = m THEN last ELSE g[n]]
  <2>2. \A n \in 0..(m - 1) : h[n] = g[n] /\ g[n] = IF n = 0 THEN FreshRun
                ELSE IF g[n - 1].failed THEN g[n - 1] ELSE Decide(job, g[n - 1], ds[n])
    BY <2>1
  <2>3. h[m] = last /\ m # 0 /\ m - 1 \in 0..(m - 1) /\ h[m - 1] = g[m - 1]
    OBVIOUS
  <2>4. ASSUME NEW n \in 0..m
        PROVE  h[n] = IF n = 0 THEN FreshRun
                      ELSE IF h[n - 1].failed THEN h[n - 1] ELSE Decide(job, h[n - 1], ds[n])
    <3>1. CASE n = m
      BY <2>3, <3>1
    <3>2. CASE n # m
      <4>1. n \in 0..(m - 1) /\ (n # 0 => n - 1 \in 0..(m - 1))
        BY <3>2
      <4>2. n # 0 => h[n - 1] = g[n - 1]
        BY <2>2, <4>1
      <4>. HIDE DEF h
      <4>. QED BY <2>2, <4>1, <4>2
    <3>. QED BY <3>1, <3>2
  <2>5. h = [n \in 0..m |-> h[n]]
    OBVIOUS
  <2>. HIDE DEF h
  <2>6. Unrolled(h, m)
    BY <2>4, <2>5
  <2>. QED BY <2>6, <1>1
<1>4. \A m \in 0..N : m \in D
  <2>. HIDE DEF D
  <2>. QED BY <1>1, <1>2, <1>3, CountInduction
<1>5. \E g : Unrolled(g, N)
  <2>1. N \in 0..N
    BY <1>1
  <2>2. N \in D
    <3>. HIDE DEF D
    <3>. QED BY <1>4, <2>1
  <2>. HIDE DEF Unrolled
  <2>. QED BY <2>2
<1>6. RunsOf(job) = CHOOSE g : Unrolled(g, N)
  BY DEF RunsOf, ds, N
<1>7. Unrolled(RunsOf(job), N)
  BY <1>5, <1>6
<1>. DEFINE r == RunsOf(job)
<1>. HIDE DEF r
<1>8. r = [n \in 0..N |-> IF n = 0 THEN FreshRun
                          ELSE IF r[n - 1].failed THEN r[n - 1] ELSE Decide(job, r[n - 1], ds[n])]
  BY <1>7 DEF r
<1>9. \A n \in 0..N : r[n] = IF n = 0 THEN FreshRun
                          ELSE IF r[n - 1].failed THEN r[n - 1] ELSE Decide(job, r[n - 1], ds[n])
  BY <1>8
<1>10. r[0] = FreshRun
  BY <1>1, <1>9
<1>11. \A n \in 1..N : r[n] = NextRun(job, r[n - 1], ds[n])
  <2>. TAKE n \in 1..N
  <2>1. n \in 0..N /\ n # 0
    BY <1>1
  <2>. QED BY <1>9, <2>1 DEF NextRun
<1>. QED BY <1>10, <1>11 DEF r, ds, N

LEMMA FreshIsOk == ASSUME NEW ds PROVE RunOk(ds, 0, FreshRun)
<1>1. FreshRun \in BtRuns /\ FreshRun.ledger = <<>> /\ FreshRun.minute = NOTIME
  <2>1. <<>> \in Seq(BtOrders)
    OBVIOUS
  <2>2. NothingHeld \in BtHeld
    BY <2>1, SeededIs DEF NothingHeld
  <2>. QED BY <2>1, <2>2 DEF FreshRun, BtRuns
<1>2. \A a \in Int : a \div BtMinute # NOTIME
  BY FloorIs, BtAssumption
<1>3. DOMAIN FreshRun.ledger = {}
  BY <1>1
<1>. QED BY <1>1, <1>2, <1>3 DEF RunOk, FromDecisions, InTime, Covers, CapsKept

\* A decision keeps a replay as it should be.
LEMMA DecideKeeps ==
    ASSUME NEW job, JobOk(job), NEW ds, DecisionsOk(ds), NEW n \in 1..Len(ds), NEW run, RunOk(ds, n - 1, run)
    PROVE  RunOk(ds, n, NextRun(job, run, ds[n]))
<1>. DEFINE d     == ds[n]
            cycle == AtMinute(run, d)
            out   == Decide(job, run, d)
            L     == run.ledger
<1>1. DecisionOk(d) /\ run \in BtRuns /\ Len(ds) \in Nat /\ d.asof \in Int
  BY DEF DecisionsOk, RunOk, DecisionOk
<1>2. /\ cycle \in BtRuns /\ cycle.ledger = L /\ cycle.minute = d.asof \div BtMinute
      /\ cycle.held = IF run.minute = d.asof \div BtMinute THEN run.held ELSE Seeded(L, d.asof)
  BY <1>1, AtMinuteIs
<1>3. Books(cycle, out, d)
  BY <1>1, DecideIs
<1>4. /\ FromDecisions(L, ds, n - 1) /\ InTime(L) /\ Covers(run.held, run.minute, L) /\ CapsKept(L)
      /\ L \in Seq(BtOrders)
  BY <1>1 DEF RunOk, BtRuns
<1>. HIDE DEF cycle, out, L, d
<1>5. \A k \in DOMAIN L : \E j \in 1..(n - 1) : OrderOf(L[k], ds[j])
  BY <1>4 DEF FromDecisions
<1>6. \A j \in 1..(n - 1) : j \in 1..n /\ j \in 1..Len(ds) /\ j < n
  BY <1>1
<1>7. FromDecisions(L, ds, n)
  BY <1>5, <1>6 DEF FromDecisions
<1>8. Covers(cycle.held, d.asof \div BtMinute, L)
  <2>1. CASE run.minute = d.asof \div BtMinute
    BY <1>2, <1>4, <2>1
  <2>2. CASE run.minute # d.asof \div BtMinute
    <3>. SUFFICES ASSUME NEW a \in Int, NEW g \in Groups, a \div BtMinute = d.asof \div BtMinute
                  PROVE  SpentOn(L, OpenIn(L, a, g)) <= HeldIn(cycle.held, g)
      BY DEF Covers
    <3>1. HeldIn(cycle.held, g) = SpentOn(L, OpenIn(L, d.asof, g))
      BY <1>2, <1>4, <2>2, SeededIs
    <3>2. OpenIn(L, a, g) = OpenIn(L, d.asof, g)
      BY <1>1, OpenInMinute
    <3>3. SpentOn(L, OpenIn(L, a, g)) \in Int
      BY <1>4, OpenIs, SpentGrows
    <3>. QED BY <3>1, <3>2, <3>3
  <2>. QED BY <2>1, <2>2
<1>9. CASE run.failed
  <2>1. NextRun(job, run, d) = run
    BY <1>9 DEF NextRun
  <2>. QED BY <1>1, <1>4, <1>7, <2>1 DEF RunOk, L, d
<1>10. CASE ~run.failed
  <2>1. NextRun(job, run, d) = out
    BY <1>10 DEF NextRun, out
  <2>2. CASE out.ledger = L /\ out.held = cycle.held
    <3>1. RunOk(ds, n, out)
      BY <1>2, <1>3, <1>4, <1>7, <1>8, <2>2 DEF RunOk, Books
    <3>. QED BY <2>1, <3>1 DEF d
  <2>3. CASE BooksOne(cycle, out, d)
    <3>1. PICK o \in BtOrders :
            /\ OrderOf(o, d) /\ out.ledger = Append(L, o) /\ out.held = Carried(cycle.held, d.ticker, o.dollars)
            /\ \A g \in Groups : d.ticker \in MembersOf(g) => HeldIn(cycle.held, g) + o.dollars <= CapOver(g)
      BY <1>2, <2>3 DEF BooksOne
    <3>2. o.ticker = d.ticker /\ o.asof = d.asof /\ cycle.held \in BtHeld
      BY <1>2, <3>1 DEF OrderOf, BtRuns
    <3>3. \A k \in DOMAIN L : L[k].asof <= o.asof
      <4>1. \A i, j \in 1..Len(ds) : i < j => ds[i].asof <= ds[j].asof
        BY DEF DecisionsOk
      <4>2. \A j \in 1..(n - 1) : ds[j].asof <= d.asof
        BY <1>6, <4>1 DEF d
      <4>3. \A k \in DOMAIN L : \E j \in 1..(n - 1) : L[k].asof = ds[j].asof
        BY <1>5 DEF OrderOf
      <4>. QED BY <3>2, <4>2, <4>3
    <3>4. /\ CapsKept(Append(L, o)) /\ InTime(Append(L, o))
          /\ Covers(Carried(cycle.held, o.ticker, o.dollars), o.asof \div BtMinute, Append(L, o))
      BY <1>4, <1>8, <3>1, <3>2, <3>3, OrderKeepsCaps
    <3>5. FromDecisions(Append(L, o), ds, n)
      <4>1. /\ DOMAIN Append(L, o) = DOMAIN L \cup {Len(L) + 1} /\ Append(L, o)[Len(L) + 1] = o
            /\ \A k \in DOMAIN L : Append(L, o)[k] = L[k]
        BY <1>4
      <4>2. OrderOf(o, ds[n]) /\ n \in 1..n
        BY <3>1 DEF d
      <4>. HIDE DEF OrderOf
      <4>. QED BY <1>5, <1>6, <4>1, <4>2 DEF FromDecisions
    <3>6. RunOk(ds, n, out)
      BY <1>2, <1>3, <3>1, <3>2, <3>4, <3>5 DEF RunOk, Books
    <3>. QED BY <2>1, <3>6 DEF d
  <2>. QED BY <1>2, <1>3, <2>2, <2>3 DEF Books
<1>. QED BY <1>9, <1>10

LEMMA RunsAreOk ==
    ASSUME NEW job, JobOk(job)
    PROVE  \A n \in 0..Len(DecisionsOf(job)) : RunOk(DecisionsOf(job), n, RunsOf(job)[n])
<1>. DEFINE ds == DecisionsOf(job)
            D  == {n \in 0..Len(ds) : RunOk(ds, n, RunsOf(job)[n])}
<1>1. DecisionsOk(ds) /\ Len(ds) \in Nat
  BY JobDecisions DEF DecisionsOk
<1>2. 0 \in D
  BY <1>1, RunsAre, FreshIsOk
<1>3. ASSUME NEW n \in 1..Len(ds), n - 1 \in D PROVE n \in D
  <2>1. RunOk(ds, n - 1, RunsOf(job)[n - 1])
    BY <1>3
  <2>2. RunsOf(job)[n] = NextRun(job, RunsOf(job)[n - 1], ds[n])
    BY <1>1, RunsAre
  <2>3. RunOk(ds, n, RunsOf(job)[n])
    <3>. HIDE DEF ds
    <3>. QED BY <1>1, <2>1, <2>2, DecideKeeps
  <2>. QED BY <1>1, <2>3
<1>4. \A n \in 0..Len(ds) : n \in D
  <2>. HIDE DEF D, ds
  <2>. QED BY <1>1, <1>2, <1>3, CountInduction
<1>. QED BY <1>4

-----------------------------------------------------------------------------
(***************************************************************************)
(* The backtest: no look-ahead                                             *)
(***************************************************************************)

\* A decision that is made after t leaves what was ordered up to t.
LEMMA LaterLeaves ==
    ASSUME NEW job, JobOk(job), NEW run \in BtRuns, NEW d, DecisionOk(d), NEW t \in Int, d.asof > t
    PROVE  UpTo(NextRun(job, run, d).ledger, t) = UpTo(run.ledger, t)
<1>. DEFINE new == NextRun(job, run, d)
            L   == run.ledger
<1>1. L \in Seq(BtOrders) /\ d.asof \in Int
  BY DEF BtRuns, DecisionOk
<1>2. new.ledger = L \/ \E o \in BtOrders : o.asof = d.asof /\ new.ledger = Append(L, o)
  <2>1. AtMinute(run, d).ledger = L
    BY AtMinuteIs
  <2>2. Books(AtMinute(run, d), Decide(job, run, d), d)
    BY DecideIs
  <2>. QED BY <2>1, <2>2 DEF NextRun, Books, BooksOne, OrderOf
<1>. HIDE DEF new, L
<1>3. CASE new.ledger = L
  BY <1>3 DEF new, L
<1>4. ASSUME NEW o \in BtOrders, o.asof = d.asof, new.ledger = Append(L, o) PROVE UpTo(new.ledger, t) = UpTo(L, t)
  <2>1. /\ DOMAIN new.ledger = DOMAIN L \cup {Len(L) + 1} /\ new.ledger[Len(L) + 1] = o
        /\ \A k \in DOMAIN L : new.ledger[k] = L[k]
    BY <1>1, <1>4
  <2>2. ~(o.asof <= t)
    BY <1>1, <1>4
  <2>3. {j \in DOMAIN new.ledger : new.ledger[j].asof <= t} = {j \in DOMAIN L : L[j].asof <= t}
    BY <2>1, <2>2
  <2>. QED BY <2>1, <2>3 DEF UpTo
<1>. QED BY <1>2, <1>3, <1>4 DEF new, L

\* From the decision m on, nothing changes of what was ordered up to t.
LEMMA RunsLeave ==
    ASSUME NEW job, JobOk(job), NEW t \in Int, NEW m \in 0..Len(DecisionsOf(job)),
           \A n \in (m + 1)..Len(DecisionsOf(job)) : DecisionsOf(job)[n].asof > t
    PROVE  UpTo(Replayed(job).ledger, t) = UpTo(RunsOf(job)[m].ledger, t)
<1>. DEFINE ds == DecisionsOf(job)
            r  == RunsOf(job)
            c  == Len(ds) - m
            D  == {i \in 0..c : UpTo(r[m + i].ledger, t) = UpTo(r[m].ledger, t)}
<1>1. DecisionsOk(ds) /\ Len(ds) \in Nat /\ c \in Nat /\ m \in Nat
  <2>1. DecisionsOk(ds) /\ Len(ds) \in Nat
    BY JobDecisions DEF DecisionsOk
  <2>. HIDE DEF ds
  <2>. QED BY <2>1 DEF ds
<1>2. \A n \in 1..Len(ds) : r[n] = NextRun(job, r[n - 1], ds[n]) /\ DecisionOk(ds[n])
  BY <1>1, RunsAre DEF DecisionsOk
<1>3. \A n \in 0..Len(ds) : r[n] \in BtRuns
  BY RunsAreOk DEF RunOk
<1>. HIDE DEF ds, r
<1>4. 0 \in D
  BY <1>1
<1>5. ASSUME NEW i \in 1..c, i - 1 \in D PROVE i \in D
  <2>1. m + i \in 1..Len(ds) /\ m + i \in (m + 1)..Len(ds) /\ (m + i) - 1 = m + (i - 1) /\ m + (i - 1) \in 0..Len(ds)
    BY <1>1
  <2>2. r[m + i] = NextRun(job, r[m + (i - 1)], ds[m + i]) /\ DecisionOk(ds[m + i])
    BY <1>2, <2>1
  <2>3. ds[m + i].asof > t
    BY <2>1 DEF ds
  <2>4. UpTo(r[m + i].ledger, t) = UpTo(r[m + (i - 1)].ledger, t)
    BY <1>3, <2>1, <2>2, <2>3, LaterLeaves
  <2>5. UpTo(r[m + (i - 1)].ledger, t) = UpTo(r[m].ledger, t)
    BY <1>5
  <2>. QED BY <2>4, <2>5
<1>6. \A i \in 0..c : i \in D
  <2>. HIDE DEF D, c
  <2>. QED BY <1>1, <1>4, <1>5, CountInduction
<1>7. c \in D
  BY <1>1, <1>6
<1>8. m + c = Len(ds)
  BY <1>1
<1>. HIDE DEF c
<1>9. UpTo(r[Len(ds)].ledger, t) = UpTo(r[m].ledger, t)
  BY <1>7, <1>8
<1>. QED BY <1>9 DEF Replayed, r, ds

\* Both decide the same on the same forecast.
LEMMA DecideAgrees ==
    ASSUME NEW job, JobOk(job), NEW t \in Int, NEW run, NEW d, d.asof \in Int, d.asof <= t
    PROVE  NextRun(KnownAt(job, t), run, d) = NextRun(job, run, d)
<1>1. ForecastRun(KnownAt(job, t), d.asof) = ForecastRun(job, d.asof)
  BY ForecastAlike
<1>2. KnownAt(job, t).source = job.source
  BY DEF KnownAt
<1>. QED BY <1>1, <1>2 DEF NextRun, Decide, DecideSnapshot, DecideTrade

LEMMA ReplaysAgree ==
    ASSUME NEW job, JobOk(job), NEW t \in Int
    PROVE  UpTo(Replayed(KnownAt(job, t)).ledger, t) = UpTo(Replayed(job).ledger, t)
<1>. DEFINE kn == KnownAt(job, t)
            ds == DecisionsOf(job)
            es == DecisionsOf(kn)
            r  == RunsOf(job)
            q  == RunsOf(kn)
<1>1. JobOk(kn)
  BY KnownIsOk
<1>2. PICK m \in Nat :
        /\ m <= Len(ds) /\ m <= Len(es)
        /\ \A n \in 1..m : ds[n] = es[n] /\ ds[n].asof <= t
        /\ \A n \in (m + 1)..Len(ds) : ds[n].asof > t
        /\ \A n \in (m + 1)..Len(es) : es[n].asof > t
  BY JobsStart DEF SameStart
<1>3. \A run, d : d.asof \in Int /\ d.asof <= t => NextRun(kn, run, d) = NextRun(job, run, d)
  BY DecideAgrees
<1>. HIDE DEF kn
<1>4. DecisionsOk(ds) /\ Len(ds) \in Nat /\ Len(es) \in Nat /\ m \in 0..Len(ds) /\ m \in 0..Len(es)
  <2>1. DecisionsOk(ds) /\ DecisionsOk(es)
    BY <1>1, JobDecisions
  <2>2. Len(ds) \in Nat /\ Len(es) \in Nat
    BY <2>1 DEF DecisionsOk
  <2>. HIDE DEF ds, es
  <2>. QED BY <1>2, <2>1, <2>2
<1>5. /\ r[0] = FreshRun /\ \A n \in 1..Len(ds) : r[n] = NextRun(job, r[n - 1], ds[n])
      /\ q[0] = FreshRun /\ \A n \in 1..Len(es) : q[n] = NextRun(kn, q[n - 1], es[n])
  BY <1>4, RunsAre
<1>6. /\ UpTo(Replayed(job).ledger, t) = UpTo(r[m].ledger, t)
      /\ UpTo(Replayed(kn).ledger, t) = UpTo(q[m].ledger, t)
  BY <1>1, <1>2, <1>4, RunsLeave
<1>. HIDE DEF ds, es, r, q
<1>. DEFINE D == {n \in 0..m : r[n] = q[n]}
<1>7. 0 \in D
  BY <1>5
<1>8. ASSUME NEW n \in 1..m, n - 1 \in D PROVE n \in D
  <2>1. n \in 1..Len(ds) /\ n \in 1..Len(es)
    BY <1>4
  <2>2. ds[n].asof \in Int /\ ds[n].asof <= t /\ ds[n] = es[n]
    BY <1>2, <1>4, <2>1 DEF DecisionsOk, DecisionOk
  <2>3. r[n] = NextRun(job, r[n - 1], ds[n]) /\ q[n] = NextRun(kn, r[n - 1], ds[n])
    BY <1>5, <1>8, <2>1, <2>2
  <2>4. r[n] = q[n]
    BY <1>3, <2>2, <2>3
  <2>. QED BY <2>4
<1>9. \A n \in 0..m : n \in D
  <2>. HIDE DEF D
  <2>. QED BY <1>7, <1>8, CountInduction
<1>10. r[m] = q[m]
  BY <1>9
<1>. QED BY <1>6, <1>10 DEF kn

-----------------------------------------------------------------------------
(***************************************************************************)
(* The backtest is honest                                                  *)
(***************************************************************************)

\* An order is scored against the row that it was decided on.
LEMMA BaselineIs ==
    ASSUME NEW job, JobOk(job), job.source # "trades", NEW o, NEW n \in 1..Len(DecisionsOf(job)),
           OrderOf(o, DecisionsOf(job)[n])
    PROVE  BaselineRow(job.source, SourceRows(job.source, job.tape), o) = o.row
<1>. DEFINE rows   == SourceRows(job.source, job.tape)
            sorted == InOrder(Keys(rows), ByClose(Keys(rows)))
            k      == sorted[n]
            seen   == {i \in DOMAIN rows : rows[i].ticker = k[1] /\ rows[i].close = k[2] /\ rows[i].at < k[2]}
<1>1. SourceOk(rows)
  BY SourceIsOk
<1>2. DecisionsOf(job) = Decisions(rows, job.strategy)
  BY DEF DecisionsOf
<1>3. k \in Keys(rows) /\ DecisionsOf(job)[n] = DecisionAt(rows, job.strategy, k)
  BY <1>1, <1>2, DecisionsAre
<1>. HIDE DEF k, rows
<1>4. /\ o.ticker = k[1] /\ o.asof = k[2] - BtLead
      /\ o.row = rows[LatestOf(rows, DecisionRows(rows, k[1], k[2]))]
  BY <1>1, <1>3, DecisionAtIs DEF OrderOf
<1>5. k[1] \in BtTickers /\ k[2] \in Int
  BY <1>1, <1>3, KeysAre
<1>6. o.asof + BtLead = k[2]
  BY <1>4, <1>5, BtAssumption
<1>7. CASE job.source # "prints"
  <2>1. BaselineRow(job.source, rows, o) = rows[LatestOf(rows, DecisionRows(rows, k[1], k[2]))]
    BY <1>4, <1>6, <1>7 DEF BaselineRow
  <2>. QED BY <1>4, <2>1 DEF rows
<1>8. CASE job.source = "prints"
  <2>. DEFINE tape == job.tape
  <2>1. rows = FromPrints(tape) /\ TapeOk(tape)
    BY <1>8 DEF rows, SourceRows, JobOk
  <2>2. BaselineRow(job.source, rows, o) = rows[LatestOf(rows, seen)]
    BY <1>4, <1>6, <1>8 DEF BaselineRow
  <2>. HIDE DEF tape
  <2>. DEFINE some == {j \in Listed(tape) : FreshPrints(tape, tape.markets[j]) # {}}
  <2>3. /\ DOMAIN rows = {2 * j - 1 : j \in some} \cup {2 * j : j \in Listed(tape)}
        /\ \A j \in some : rows[2 * j - 1] = DecisionPrint(tape, tape.markets[j])
        /\ \A j \in Listed(tape) : rows[2 * j] = Settling(tape.markets[j])
    BY <2>1, PrintRowsAre
  <2>4. \A j \in Listed(tape) : tape.markets[j] \in BtRows /\ tape.markets[j].close \in Int
    BY <2>1 DEF TapeOk, Listed, BtRows
  <2>5. BtLead \in Nat \ {0}
    BY BtAssumption
  <2>6. ASSUME NEW j \in some
        PROVE  rows[2 * j - 1].at = rows[2 * j - 1].close - BtLead /\ rows[2 * j - 1].close \in Int
    <3>1. tape.markets[j] \in BtRows /\ tape.markets[j].close \in Int /\ FreshPrints(tape, tape.markets[j]) # {}
      BY <2>4
    <3>2. rows[2 * j - 1] = DecisionPrint(tape, tape.markets[j])
      BY <2>3
    <3>. QED BY <2>1, <3>1, <3>2, PrintIs
  <2>7. ASSUME NEW j \in Listed(tape) PROVE rows[2 * j].at = rows[2 * j].close /\ rows[2 * j].close \in Int
    <3>1. tape.markets[j] \in BtRows /\ tape.markets[j].close \in Int /\ rows[2 * j] = Settling(tape.markets[j])
      BY <2>3, <2>4
    <3>. QED BY <3>1 DEF Settling, BtRows
  <2>8. ASSUME NEW i \in DOMAIN rows, rows[i].close = k[2]
        PROVE  rows[i].at < k[2] <=> rows[i].at <= k[2] - BtLead
    <3>1. ASSUME NEW j \in some, i = 2 * j - 1 PROVE rows[i].at < k[2] <=> rows[i].at <= k[2] - BtLead
      <4>1. rows[i].at = k[2] - BtLead
        BY <2>6, <2>8, <3>1
      <4>2. k[2] - BtLead < k[2] /\ k[2] - BtLead <= k[2] - BtLead
        BY <1>5, <2>5
      <4>. QED BY <4>1, <4>2
    <3>2. \A j \in Listed(tape) : i = 2 * j => (rows[i].at < k[2] <=> rows[i].at <= k[2] - BtLead)
      BY <1>5, <2>5, <2>7, <2>8
    <3>. HIDE DEF some
    <3>. QED BY <2>3, <3>1, <3>2
  <2>9. seen = DecisionRows(rows, k[1], k[2])
    BY <2>8 DEF DecisionRows
  <2>. QED BY <1>4, <2>2, <2>9 DEF rows
<1>. QED BY <1>7, <1>8 DEF rows

\* Once a replay has failed it stays as it is.
LEMMA FailedStays ==
    ASSUME NEW job, JobOk(job), NEW n \in 0..Len(DecisionsOf(job)), RunsOf(job)[n].failed
    PROVE  Replayed(job) = RunsOf(job)[n]
<1>. DEFINE N == Len(DecisionsOf(job))
            r == RunsOf(job)
            c == N - n
            D == {i \in 0..c : r[n + i] = r[n]}
<1>1. N \in Nat
  BY JobDecisions DEF DecisionsOk
<1>2. \A j \in 1..N : r[j] = NextRun(job, r[j - 1], DecisionsOf(job)[j])
  BY <1>1, RunsAre
<1>3. n \in 0..N /\ r[n].failed
  OBVIOUS
<1>. HIDE DEF N, r
<1>4. n \in Nat /\ c \in Nat /\ n + c = N
  BY <1>1, <1>3
<1>5. 0 \in D
  BY <1>4
<1>6. ASSUME NEW i \in 1..c, i - 1 \in D PROVE i \in D
  <2>1. n + i \in 1..N /\ (n + i) - 1 = n + (i - 1) /\ i \in 0..c
    BY <1>1, <1>4
  <2>2. r[n + i] = NextRun(job, r[n + (i - 1)], DecisionsOf(job)[n + i])
    BY <1>2, <2>1
  <2>3. r[n + (i - 1)] = r[n]
    BY <1>6
  <2>. QED BY <1>3, <2>1, <2>2, <2>3 DEF NextRun
<1>7. \A i \in 0..c : i \in D
  <2>. HIDE DEF D, c
  <2>. QED BY <1>4, <1>5, <1>6, CountInduction
<1>8. r[n + c] = r[n]
  <2>1. c \in 0..c
    BY <1>4
  <2>2. c \in D
    <3>. HIDE DEF D
    <3>. QED BY <1>7, <2>1
  <2>. QED BY <2>2
<1>9. r[N] = r[n]
  <2>. HIDE DEF c
  <2>. QED BY <1>4, <1>8
<1>. QED BY <1>9 DEF N, r, Replayed

\* The decisions that are left after n of them.
QueueAt(q, ds, n) ==
    /\ q \in Seq({ds[i] : i \in DOMAIN ds}) /\ Len(q) = Len(ds) - n
    /\ \A i \in 1..Len(q) : q[i] = ds[n + i]

LEMMA QueueStarts ==
    ASSUME NEW job, JobOk(job)
    PROVE  QueueAt(DecisionsOf(job), DecisionsOf(job), 0)
<1>. DEFINE ds == DecisionsOf(job)
            S  == {ds[i] : i \in DOMAIN ds}
<1>1. Len(ds) \in Nat /\ DOMAIN ds = 1..Len(ds)
  BY JobDecisions DEF DecisionsOk
<1>2. ds = [i \in DOMAIN ds |-> ds[i]]
  BY DEF DecisionsOf, Decisions, TradeDecisions
<1>. HIDE DEF ds
<1>3. \A i \in 1..Len(ds) : ds[i] \in S /\ ds[0 + i] = ds[i]
  BY <1>1
<1>4. ds \in Seq(S)
  <2>. HIDE DEF S
  <2>1. ds \in [1..Len(ds) -> S]
    BY <1>1, <1>2, <1>3
  <2>. QED BY <1>1, <2>1
<1>. QED BY <1>1, <1>3, <1>4 DEF QueueAt, ds

LEMMA QueueIs ==
    ASSUME NEW ds, Len(ds) \in Nat, NEW n \in 0..Len(ds), NEW q, QueueAt(q, ds, n)
    PROVE  /\ q = <<>> <=> n = Len(ds)
           /\ q # <<>> => n + 1 \in 1..Len(ds) /\ Head(q) = ds[n + 1] /\ QueueAt(Tail(q), ds, n + 1)
<1>. DEFINE N == Len(ds)
            S == {ds[i] : i \in DOMAIN ds}
<1>1. /\ N \in Nat /\ n \in Nat /\ n <= N /\ q \in Seq(S) /\ Len(q) = N - n
      /\ \A i \in 1..Len(q) : q[i] = ds[n + i]
  BY DEF QueueAt
<1>. HIDE DEF N, S
<1>2. q = <<>> <=> n = N
  BY <1>1
<1>3. ASSUME q # <<>>
      PROVE  n + 1 \in 1..N /\ Head(q) = ds[n + 1] /\ QueueAt(Tail(q), ds, n + 1)
  <2>1. n + 1 \in 1..N /\ 1 \in 1..Len(q)
    BY <1>1, <1>2, <1>3
  <2>2. Head(q) = q[1]
    BY <1>1, <1>3
  <2>3. /\ Tail(q) \in Seq(S) /\ Len(Tail(q)) = N - (n + 1)
        /\ \A i \in 1..Len(Tail(q)) : Tail(q)[i] = q[i + 1]
    BY <1>1, <1>3, HeadTailProperties
  <2>4. \A i \in 1..Len(Tail(q)) : i + 1 \in 1..Len(q) /\ n + (i + 1) = (n + 1) + i
    BY <1>1, <2>3
  <2>5. \A i \in 1..Len(Tail(q)) : Tail(q)[i] = ds[(n + 1) + i]
    BY <1>1, <2>3, <2>4
  <2>6. QueueAt(Tail(q), ds, n + 1)
    BY <2>3, <2>5 DEF QueueAt, S, N
  <2>. QED BY <1>1, <2>1, <2>2, <2>6
<1>. QED BY <1>2, <1>3 DEF N

\* The replay is as far as its queue says, and what is settled is scored
\* against the rows of its decisions.
ReplayAt(n) == btRun = RunsOf(btJob)[n] /\ QueueAt(btQueue, DecisionsOf(btJob), n)

ReplayInv ==
    /\ btJob \in BtJobs
    /\ btPhase \in {"load", "replay", "settled"}
    /\ btPhase = "load" => btRun = FreshRun
    /\ btPhase # "load" => \E n \in 0..Len(DecisionsOf(btJob)) : ReplayAt(n)
    /\ \A k \in DOMAIN btScored : btScored[k].baseline = btScored[k].order.row

LEMMA ReplayStarts == BtInit => ReplayInv
<1>1. DOMAIN <<>> = {}
  OBVIOUS
<1>. QED BY <1>1 DEF BtInit, ReplayInv

LEMMA LoadReplays == ReplayInv /\ Load => ReplayInv'
<1>. SUFFICES ASSUME ReplayInv, Load PROVE ReplayInv'
  OBVIOUS
<1>1. /\ btJob' = btJob /\ btRun' = FreshRun /\ btScored' = btScored
      /\ btQueue' = DecisionsOf(btJob) /\ btPhase' = "replay" /\ JobOk(btJob)
  BY JobsAreOk DEF ReplayInv, Load
<1>2. Len(DecisionsOf(btJob)) \in Nat
  BY <1>1, JobDecisions DEF DecisionsOk
<1>3. btRun' = RunsOf(btJob)[0] /\ 0 \in 0..Len(DecisionsOf(btJob))
  BY <1>1, <1>2, RunsAre
<1>4. QueueAt(btQueue', DecisionsOf(btJob), 0)
  BY <1>1, QueueStarts
<1>5. ReplayAt(0)'
  BY <1>1, <1>3, <1>4 DEF ReplayAt
<1>6. \E n \in 0..Len(DecisionsOf(btJob')) : ReplayAt(n)'
  BY <1>1, <1>3, <1>5
<1>. QED BY <1>1, <1>6 DEF ReplayInv

LEMMA RoundReplays == ReplayInv /\ ReplayOne => ReplayInv'
<1>. SUFFICES ASSUME ReplayInv, ReplayOne PROVE ReplayInv'
  OBVIOUS
<1>. DEFINE ds == DecisionsOf(btJob)
<1>1. /\ btJob' = btJob /\ btRun' = Decide(btJob, btRun, Head(btQueue)) /\ btScored' = btScored
      /\ btQueue' = Tail(btQueue) /\ btPhase' = btPhase /\ btPhase = "replay"
      /\ btQueue # <<>> /\ ~btRun.failed /\ JobOk(btJob)
  BY JobsAreOk DEF ReplayInv, ReplayOne
<1>2. Len(ds) \in Nat
  BY <1>1, JobDecisions DEF DecisionsOk
<1>3. PICK n \in 0..Len(ds) : btRun = RunsOf(btJob)[n] /\ QueueAt(btQueue, ds, n)
  BY <1>1 DEF ReplayInv, ReplayAt
<1>. HIDE DEF ds
<1>4. n + 1 \in 1..Len(ds) /\ Head(btQueue) = ds[n + 1] /\ QueueAt(btQueue', ds, n + 1)
  BY <1>1, <1>2, <1>3, QueueIs
<1>5. (n + 1) - 1 = n /\ n + 1 \in 0..Len(ds)
  BY <1>2, <1>4
<1>6. RunsOf(btJob)[n + 1] = NextRun(btJob, RunsOf(btJob)[n], ds[n + 1])
  <2>1. \A j \in 1..Len(ds) : RunsOf(btJob)[j] = NextRun(btJob, RunsOf(btJob)[j - 1], ds[j])
    BY <1>2, RunsAre DEF ds
  <2>. QED BY <1>4, <1>5, <2>1
<1>7. btRun' = RunsOf(btJob)[n + 1]
  BY <1>1, <1>3, <1>4, <1>6 DEF NextRun
<1>8. ReplayAt(n + 1)'
  BY <1>1, <1>4, <1>7 DEF ReplayAt, ds
<1>9. \E j \in 0..Len(DecisionsOf(btJob')) : ReplayAt(j)'
  BY <1>1, <1>5, <1>8 DEF ds
<1>. QED BY <1>1, <1>9 DEF ReplayInv

LEMMA SettleReplays == ReplayInv /\ SettleAll => ReplayInv'
<1>. SUFFICES ASSUME ReplayInv, SettleAll PROVE ReplayInv'
  OBVIOUS
<1>. DEFINE ds   == DecisionsOf(btJob)
            paid == {j \in DOMAIN btRun.ledger : Settleable(btJob, btRun.ledger[j])}
<1>1. /\ btJob' = btJob /\ btRun' = btRun /\ btQueue' = btQueue /\ btPhase' = "settled" /\ btPhase = "replay"
      /\ btScored' = [k \in paid |-> Scored(btJob, btRun.ledger[k])]
      /\ btJob.source # "trades" /\ JobOk(btJob)
  BY JobsAreOk DEF ReplayInv, SettleAll
<1>2. PICK n \in 0..Len(ds) : ReplayAt(n)
  BY <1>1 DEF ReplayInv
<1>3. Len(ds) \in Nat
  BY <1>1, JobDecisions DEF DecisionsOk
<1>4. \A k \in DOMAIN btRun.ledger : \E j \in 1..n : OrderOf(btRun.ledger[k], ds[j])
  <2>1. RunOk(ds, n, btRun)
    BY <1>1, <1>2, RunsAreOk DEF ReplayAt
  <2>. QED BY <2>1 DEF RunOk, FromDecisions
<1>5. ASSUME NEW k \in paid PROVE btScored'[k].baseline = btScored'[k].order.row
  <2>. DEFINE o == btRun.ledger[k]
  <2>1. PICK j \in 1..n : OrderOf(o, ds[j])
    BY <1>4
  <2>2. j \in 1..Len(ds)
    BY <1>3
  <2>3. BaselineRow(btJob.source, SourceRows(btJob.source, btJob.tape), o) = o.row
    <3>. HIDE DEF o
    <3>. QED BY <1>1, <2>1, <2>2, BaselineIs
  <2>4. btScored'[k] = Scored(btJob, o)
    BY <1>1
  <2>. HIDE DEF o
  <2>. QED BY <2>3, <2>4 DEF Scored
<1>6. \A k \in DOMAIN btScored' : btScored'[k].baseline = btScored'[k].order.row
  <2>1. DOMAIN btScored' = paid
    BY <1>1
  <2>. QED BY <1>5, <2>1
<1>7. \E j \in 0..Len(DecisionsOf(btJob')) : ReplayAt(j)'
  BY <1>1, <1>2 DEF ReplayAt
<1>. QED BY <1>1, <1>6, <1>7 DEF ReplayInv

LEMMA ReplayGoesOn == ReplayInv /\ [BtNext]_btVars => ReplayInv'
<1>1. ReplayInv /\ UNCHANGED btVars => ReplayInv'
  BY DEF ReplayInv, ReplayAt, btVars
<1>. QED BY <1>1, LoadReplays, RoundReplays, SettleReplays DEF BtNext

\* The run that is over is the replay, and every run is as it should be.
LEMMA RunNow ==
    ASSUME ReplayInv
    PROVE  /\ JobOk(btJob) /\ \E ds, n : RunOk(ds, n, btRun)
           /\ btPhase = "replay" /\ (btQueue = <<>> \/ btRun.failed) => btRun = Replayed(btJob)
<1>. DEFINE ds == DecisionsOf(btJob)
<1>1. JobOk(btJob)
  BY JobsAreOk DEF ReplayInv
<1>2. Len(ds) \in Nat
  BY <1>1, JobDecisions DEF DecisionsOk
<1>3. CASE btPhase = "load"
  <2>1. RunOk(ds, 0, btRun)
    BY <1>3, FreshIsOk DEF ReplayInv
  <2>. QED BY <1>1, <1>3, <2>1
<1>4. CASE btPhase # "load"
  <2>1. PICK n \in 0..Len(ds) : btRun = RunsOf(btJob)[n] /\ QueueAt(btQueue, ds, n)
    BY <1>4 DEF ReplayInv, ReplayAt
  <2>2. RunOk(ds, n, btRun)
    BY <1>1, <2>1, RunsAreOk
  <2>3. btQueue = <<>> => btRun = Replayed(btJob)
    <3>1. btQueue = <<>> => n = Len(ds)
      <4>. HIDE DEF ds
      <4>. QED BY <1>2, <2>1, QueueIs
    <3>. QED BY <2>1, <3>1 DEF Replayed
  <2>4. btRun.failed => btRun = Replayed(btJob)
    BY <1>1, <2>1, FailedStays
  <2>. QED BY <1>1, <2>2, <2>3, <2>4
<1>. QED BY <1>3, <1>4

LEMMA ReplayKnowsNothingLater == ReplayInv => NoLookAhead
<1>. SUFFICES ASSUME ReplayInv PROVE NoLookAhead
  OBVIOUS
<1>1. JobOk(btJob) /\ btRun \in BtRuns
  BY RunNow DEF RunOk
<1>2. \A k \in DOMAIN btRun.ledger : btRun.ledger[k].asof \in Int
  BY <1>1, LedgerIs DEF BtRuns
<1>3. ASSUME btPhase = "replay", btQueue = <<>> \/ btRun.failed,
             NEW k \in DOMAIN btRun.ledger
      PROVE  LET t == btRun.ledger[k].asof
             IN  UpTo(Replayed(KnownAt(btJob, t)).ledger, t) = UpTo(btRun.ledger, t)
  <2>1. btRun = Replayed(btJob)
    BY <1>3, RunNow
  <2>2. UpTo(Replayed(KnownAt(btJob, btRun.ledger[k].asof)).ledger, btRun.ledger[k].asof)
          = UpTo(Replayed(btJob).ledger, btRun.ledger[k].asof)
    BY <1>1, <1>2, <1>3, ReplaysAgree
  <2>. QED BY <2>1, <2>2
<1>4. \A k \in DOMAIN btScored : btScored[k].baseline = btScored[k].order.row
  BY DEF ReplayInv
<1>. QED BY <1>3, <1>4 DEF NoLookAhead

\* What orders lose at worst is what they cost.
LEMMA LossesAreSpent ==
    ASSUME NEW ledger, NEW S, \A k \in S : WorstLoss(ledger[k]) = ledger[k].dollars
    PROVE  MapThenSumSet(LAMBDA k : WorstLoss(ledger[k]), S) = SpentOn(ledger, S)
<1>1. [k \in S |-> WorstLoss(ledger[k])] = [k \in S |-> ledger[k].dollars]
  OBVIOUS
<1>. QED BY <1>1, LossesAdd, DollarsAdd

LEMMA ReplayStaysWithinCaps == ReplayInv => LossesWithinCaps
<1>. SUFFICES ASSUME ReplayInv, NEW n \in DOMAIN btRun.ledger
              PROVE  LET open == {k \in OpenFills(btRun.ledger, btRun.ledger[n].asof) : k <= n}
                         loss(S) == MapThenSumSet(LAMBDA k : WorstLoss(btRun.ledger[k]), S)
                     IN  /\ \A t \in BtTickers : loss({k \in open : btRun.ledger[k].ticker = t}) <= MarketCap
                         /\ \A e \in BtEvents :
                               loss({k \in open : BtEventOf[btRun.ledger[k].ticker] = e}) <= EventCap
                         /\ \A s \in BtSeries :
                               loss({k \in open : BtSeriesOf[btRun.ledger[k].ticker] = s}) <= BtSeriesCap
                         /\ loss(open) <= BtAggregateCap
  BY DEF LossesWithinCaps
<1>. DEFINE L    == btRun.ledger
            a    == L[n].asof
            open == {k \in OpenFills(L, a) : k <= n}
            loss(S) == MapThenSumSet(LAMBDA k : WorstLoss(L[k]), S)
            Of(g) == {k \in OpenIn(L, a, g) : k <= n}
<1>1. PICK ds, m : RunOk(ds, m, btRun)
  BY RunNow
<1>2. L \in Seq(BtOrders) /\ CapsKept(L) /\ \A k \in DOMAIN L : WorstLoss(L[k]) = L[k].dollars
  BY <1>1 DEF RunOk, BtRuns, FromDecisions, OrderOf
<1>. HIDE DEF L
<1>3. open \subseteq DOMAIN L /\ n \in DOMAIN L /\ \A k \in open : L[k].ticker \in BtTickers
  BY <1>2, LedgerIs DEF OpenFills, L
<1>4. \A S \in SUBSET open : loss(S) = SpentOn(L, S)
  <2>. SUFFICES ASSUME NEW S \in SUBSET open PROVE loss(S) = SpentOn(L, S)
    OBVIOUS
  <2>1. \A k \in S : WorstLoss(L[k]) = L[k].dollars
    BY <1>2, <1>3
  <2>. HIDE DEF open
  <2>. QED BY <2>1, LossesAreSpent
<1>5. \A g \in Groups : SpentOn(L, Of(g)) <= CapOver(g)
  BY <1>2, <1>3 DEF CapsKept
<1>6. \A g : Of(g) = {k \in open : L[k].ticker \in MembersOf(g)}
  BY DEF OpenIn
<1>. HIDE DEF open, loss, Of
<1>7. ASSUME NEW t \in BtTickers PROVE loss({k \in open : L[k].ticker = t}) <= MarketCap
  <2>. DEFINE g == <<"market", t>>
  <2>1. g \in Groups /\ CapOver(g) = MarketCap /\ MembersOf(g) = {t}
    BY DEF Groups, CapOver, MembersOf
  <2>. HIDE DEF g
  <2>2. Of(g) = {k \in open : L[k].ticker = t}
    BY <1>6, <2>1
  <2>. QED BY <1>4, <1>5, <2>1, <2>2
<1>8. ASSUME NEW e \in BtEvents PROVE loss({k \in open : BtEventOf[L[k].ticker] = e}) <= EventCap
  <2>. DEFINE g == <<"event", e>>
  <2>1. g \in Groups /\ CapOver(g) = EventCap /\ MembersOf(g) = {u \in BtTickers : BtEventOf[u] = e}
    BY DEF Groups, CapOver, MembersOf
  <2>. HIDE DEF g
  <2>2. Of(g) = {k \in open : BtEventOf[L[k].ticker] = e}
    BY <1>3, <1>6, <2>1
  <2>. QED BY <1>4, <1>5, <2>1, <2>2
<1>9. ASSUME NEW s \in BtSeries PROVE loss({k \in open : BtSeriesOf[L[k].ticker] = s}) <= BtSeriesCap
  <2>. DEFINE g == <<"series", s>>
  <2>1. g \in Groups /\ CapOver(g) = BtSeriesCap /\ MembersOf(g) = {u \in BtTickers : BtSeriesOf[u] = s}
    BY DEF Groups, CapOver, MembersOf
  <2>. HIDE DEF g
  <2>2. Of(g) = {k \in open : BtSeriesOf[L[k].ticker] = s}
    BY <1>3, <1>6, <2>1
  <2>. QED BY <1>4, <1>5, <2>1, <2>2
<1>10. loss(open) <= BtAggregateCap
  <2>. DEFINE g == <<"all", 0>>
  <2>1. g \in Groups /\ CapOver(g) = BtAggregateCap /\ MembersOf(g) = BtTickers
    BY DEF Groups, CapOver, MembersOf
  <2>. HIDE DEF g
  <2>2. Of(g) = open
    BY <1>3, <1>6, <2>1
  <2>. QED BY <1>4, <1>5, <2>1, <2>2
<1>. QED BY <1>7, <1>8, <1>9, <1>10 DEF open, loss, L

\* Of every job, at every moment of its replay: the replay of what was known
\* at the instant of an order makes the same orders up to it, an order is
\* scored against the row that it was decided on, and what the open orders
\* lose at worst stays under the caps (bot/backtest, run_replay and replay).
THEOREM BacktestHonest == BtSpec => []BacktestIsHonest
<1>1. ReplayInv => BacktestIsHonest
  BY ReplayKnowsNothingLater, ReplayStaysWithinCaps DEF BacktestIsHonest
<1>. QED BY <1>1, ReplayStarts, ReplayGoesOn, PTL DEF BtSpec
==============================================================================
