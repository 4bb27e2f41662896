------------------------------ MODULE Strategy -------------------------------
(***************************************************************************)
(* From the book and the fair value of a market to a sized intent and the  *)
(* gates that it must pass: _build_intents and _gate_ctx_for of            *)
(* bot/main.py, bot/strategy/edge.py, tails.py and sizing.py,              *)
(* bot/execution/fees.py and friction.py.  One market of one event is      *)
(* evaluated again and again while what it holds grows.  Prices and money  *)
(* are in mills, ten to the cent; spreads in whole degrees.  Only the      *)
(* caps of the market and of the event are here: the stake is made to fit  *)
(* those two, the other two are PaperTrader's.                             *)
(***************************************************************************)
EXTENDS Integers, Sequences, FiniteSetsExt

CONSTANTS
    Quotes,         \* what a refresh and a forecast may show of the market
    Bankroll,
    Median,         \* SIGMA_T_MEDIAN_BY_LEAD_H of the lead time
    OtherHeld,      \* what the other markets of the event may hold at first
    MaxFills        \* bound on the fills

Dollar == 1000

ASSUME StrategyAssumption ==
    /\ \A q \in Quotes :
        /\ q.bid \in 0..Dollar /\ q.noBid \in 0..Dollar /\ q.bid + q.noBid <= Dollar
        /\ q.fair \in 0..Dollar
        /\ q.bidDepth \in Nat /\ q.noDepth \in Nat /\ q.spread \in Nat
    /\ {Bankroll, MaxFills} \subseteq Nat /\ Median \in Nat \ {0}
    /\ OtherHeld \subseteq Nat

VARIABLES
    signal,     \* <<>>, or <<an intent>> before its gates
    inMarket,   \* dollars held in the market
    inEvent,    \* dollars held in its event
    fills

strategyVars == <<signal, inMarket, inEvent, fills>>

MarketCap == (Bankroll * 15) \div 1000
EventCap  == (Bankroll * 30) \div 1000

\* _orderbook_from_payload: each ask is what the other side's bid leaves.
YesAsk(q) == Dollar - q.noBid
NoAsk(q)  == Dollar - q.bid

-----------------------------------------------------------------------------
(***************************************************************************)
(* Fees and friction                                                       *)
(***************************************************************************)

\* taker_fee: seven hundredths of n p (1 - p), up to the next cent.
TakerFee(n, p) == 10 * ((7 * n * p * (Dollar - p) + 999999) \div 1000000)

HalfTick == 5

\* required_edge: an order beyond the depth pays for what it moves.
RequiredEdge(p, depth, n) ==
    LET d        == Max({depth, 1})
        overflow == (10 * (n - depth) + d - 1) \div d
    IN  TakerFee(1, p) + HalfTick + IF n <= depth THEN 0 ELSE Min({overflow, 50})

-----------------------------------------------------------------------------
(***************************************************************************)
(* Sizing and the two strategies                                           *)
(***************************************************************************)

\* compute_stake_contracts, a fraction 1/k of Kelly of an edge over a room:
\* the least of the Kelly stake, what the budget buys, half the depth.
Stake(q, edge, room, k, depth, price, budget) ==
    LET shrunk == IF q.spread <= Median THEN edge * Bankroll
                  ELSE (edge * Median * Bankroll) \div q.spread
        kelly  == shrunk \div (k * (room * price))
    IN  IF edge <= 0 \/ room <= 0 \/ room >= Dollar \/ price <= 0 THEN 0
        ELSE Min({kelly, Max({0, budget}) \div price, depth \div 2})

\* Mutant: a sale is sized at the price of the YES side.
SizingPriceYes(q, side) == IF side = "buy_yes" THEN YesAsk(q) ELSE q.bid

\* The price per contract that _build_intents sizes with.
SizingPrice(q, side) == IF side = "buy_yes" THEN YesAsk(q) ELSE NoAsk(q)

DirectionCushion == 40
EdgeThreshold    == 80

\* Sides on which bot/strategy/edge.py would trade.
EdgeSides(q) ==
    IF \/ q.blacklisted \/ q.sameDay \/ q.spread <= 1
       \/ 2 * q.fair - (YesAsk(q) + q.bid) \in -(2 * EdgeThreshold)..(2 * EdgeThreshold)
    THEN {}
    ELSE IF q.fair > YesAsk(q) + DirectionCushion THEN {"buy_yes"}
    ELSE IF q.fair < q.bid - DirectionCushion THEN {"sell_yes"}
    ELSE {}

\* Mutant: the floor is the fair value's limit, without the margin.
YesBidFloorLow == 70

AskThreshold == 100
FairThreshold == 70
YesBidFloor == FairThreshold + 25

\* Sides on which bot/strategy/tails.py would trade, an hour before the close.
TailsSides(q) ==
    IF /\ YesAsk(q) > AskThreshold /\ q.noBid > 0
       /\ q.bid >= YesBidFloor /\ q.fair < FairThreshold
       /\ ~q.sameDay /\ ~q.blacklisted
       /\ Dollar - q.fair > q.noBid
       /\ NoAsk(q) # Dollar
    THEN {"sell_yes"} ELSE {}

\* The intent of a side: edge, price and depth as _gate_ctx_for sees them.
Intent(q, side, k, budget) ==
    LET buy   == side = "buy_yes"
        depth == IF buy THEN q.noDepth ELSE q.bidDepth
        edge  == IF buy THEN q.fair - YesAsk(q) ELSE q.bid - q.fair
    IN  [side  |-> side,
         edge  |-> edge,
         price |-> IF buy THEN YesAsk(q) ELSE NoAsk(q),
         depth |-> depth,
         contracts |-> Stake(q, edge, IF buy THEN Dollar - YesAsk(q) ELSE q.bid,
                             k, depth, SizingPrice(q, side), budget)]

\* _build_intents: a tail market is for one strategy, any other for the other.
BuildIntents(q, budget) ==
    LET sides == IF q.tail THEN TailsSides(q) ELSE EdgeSides(q)
        k     == IF q.tail THEN 20 ELSE 4
    IN  {i \in {Intent(q, s, k, budget) : s \in sides} : i.depth > 0 /\ i.contracts >= 1}

\* What is left of the market's and of the event's budget.
BudgetLeft == Min({EventCap - inEvent, MarketCap - inMarket})

-----------------------------------------------------------------------------
(***************************************************************************)
(* The gates and the fills                                                 *)
(***************************************************************************)

\* The gates that block in every mode; the others are left to choice.
Passes(i) ==
    /\ i.edge >= RequiredEdge(i.price, i.depth, i.contracts)
    /\ inMarket + i.price * i.contracts <= MarketCap
    /\ inEvent + i.price * i.contracts <= EventCap

StrategyInit ==
    /\ signal = <<>>
    /\ inMarket = 0
    /\ inEvent \in OtherHeld
    /\ fills = 0

\* A cycle builds its intent from the book of the last refresh.
BuildOn(q) ==
    /\ signal = <<>> /\ fills < MaxFills
    /\ \E i \in BuildIntents(q, BudgetLeft) : signal' = <<i>>
    /\ UNCHANGED <<inMarket, inEvent, fills>>

\* All of it is filled, or, at a venue, a part.
FillIntent(n) ==
    /\ signal # <<>>
    /\ Passes(signal[1]) /\ n \in 1..signal[1].contracts
    /\ inMarket' = inMarket + signal[1].price * n
    /\ inEvent' = inEvent + signal[1].price * n
    /\ fills' = fills + 1
    /\ signal' = <<>>

\* Another gate blocks it, the book is stale, or the venue fills nothing.
DropIntent ==
    /\ signal # <<>>
    /\ signal' = <<>>
    /\ UNCHANGED <<inMarket, inEvent, fills>>

StrategyNext ==
    \/ \E q \in Quotes : BuildOn(q)
    \/ \E n \in {1} \cup {signal[k].contracts : k \in DOMAIN signal} : FillIntent(n)
    \/ DropIntent

StrategySpec == StrategyInit /\ [][StrategyNext]_strategyVars

-----------------------------------------------------------------------------
(***************************************************************************)
(* Properties                                                              *)
(***************************************************************************)

\* Whatever the strategies sign pays its friction: the thresholds of edge.py
\* and the floor of tails.py ("load-bearing", as its comment says) leave at
\* least the fee to the cent and the half tick at the prices where they bind,
\* so that the gate never turns down what a strategy has sized.
SignalsSurviveFriction ==
    \A k \in DOMAIN signal :
        signal[k].edge >= RequiredEdge(signal[k].price, signal[k].depth, signal[k].contracts)

\* A stake that was cut to what is left of the market's and the event's budget
\* fits under both caps at the price that the gates and the books charge, after
\* any run of whole and partial fills.
SignalsFitTheirBudgets ==
    \A k \in DOMAIN signal :
        LET cost == signal[k].price * signal[k].contracts
        IN  inMarket + cost <= MarketCap /\ inEvent + cost <= EventCap
=============================================================================
