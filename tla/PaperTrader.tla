----------------------------- MODULE PaperTrader ------------------------------
(***************************************************************************)
(* Paper mode, from the risk caps to the settlement (bot/main.py): an      *)
(* evaluation sums the exposure of the unsettled trades and lays every     *)
(* trade of its own over it; the settlement loop and the runs that SIGUSR1 *)
(* asks for read the unsettled trades, ask the weather service for the     *)
(* highs and book the P&L.  An evaluation in paper mode awaits nothing     *)
(* (the lock of the database is free whenever it is asked for), so it is   *)
(* one step.  Time is in days.                                             *)
(***************************************************************************)
EXTENDS Naturals, Sequences, FiniteSets, Functions

CONSTANTS
    Markets,
    EventOf,        \* the event of a market: one station on one day
    SeriesOf,       \* the series of an event: one station
    DateOf,         \* the day of an event
    MarketCap, EventCap, SeriesCap, AggregateCap,
    SettleDays,     \* _SETTLEMENT_GRACE_DAYS of bot/main.py
    ExposureDays,   \* SETTLEMENT_GRACE_DAYS of bot/storage/positions.py
    Settlers,       \* LOOP, the settlement loop, and runs asked for by a signal
    LOOP,
    NOBODY,         \* holder of a lock that is free
    MaxIntents,     \* bound on the intents of an evaluation
    MaxTrades,      \* bound on the trades
    MaxDay          \* bound on the days

Events == {EventOf[m] : m \in Markets}
Series == {SeriesOf[e] : e \in Events}

ASSUME PaperAssumption ==
    /\ {MarketCap, EventCap, SeriesCap, AggregateCap} \subseteq Nat
    /\ {SettleDays, ExposureDays, MaxIntents, MaxTrades, MaxDay} \subseteq Nat
    /\ DateOf \in [Events -> Nat] /\ DOMAIN SeriesOf = Events
    /\ LOOP \in Settlers /\ NOBODY \notin Settlers

VARIABLES
    day,
    trades,     \* paper_trades
    pnl,        \* per id of a trade its rows of simulated_pnl
    highs,      \* the events whose high the weather service has
    lock,       \* reconcile_lock
    settler     \* the runs of reconcile_settled_trades

paperVars == <<day, trades, pnl, highs, lock, settler>>

NoRun         == [pc |-> "idle", asof |-> 0, eligible |-> {}, ask |-> {}, observed |-> {}]
Wanting(asof) == [NoRun EXCEPT !.pc = "want", !.asof = asof]

\* A process starts: run_loop begins with a run of the settlement loop.
Boot(today) == [s \in Settlers |-> IF s = LOOP THEN Wanting(today) ELSE NoRun]

PaperInit ==
    /\ day = 0
    /\ trades = <<>> /\ pnl = [i \in 1..MaxTrades |-> 0]
    /\ highs = {}
    /\ lock = NOBODY
    /\ settler = Boot(0)

EventOfTrade(i) == EventOf[trades[i].market]

-----------------------------------------------------------------------------
(***************************************************************************)
(* Evaluation                                                              *)
(***************************************************************************)

\* open_exposures: the unsettled trades in some markets, not too long ago.
Open(among) ==
    {i \in DOMAIN trades :
        /\ pnl[i] = 0 /\ DateOf[EventOfTrade(i)] + ExposureDays >= day
        /\ trades[i].market \in among}

CostOf(among) ==
    SumFunction([i \in 1..MaxTrades |-> IF i \in Open(among) THEN trades[i].cost ELSE 0])

MarketsOf(e)  == {m \in Markets : EventOf[m] = e}
MarketsIn(s)  == {m \in Markets : SeriesOf[EventOf[m]] = s}

Exposure == [
    market    |-> [m \in Markets |-> CostOf({m})],
    event     |-> [e \in Events  |-> CostOf(MarketsOf(e))],
    series    |-> [s \in Series  |-> CostOf(MarketsIn(s))],
    aggregate |-> CostOf(Markets) ]

\* Mutant: the overlay of the event is forgotten.
OverlaidButEvent(x, i) ==
    LET e == EventOf[i.market]
    IN  [x EXCEPT !.market[i.market]    = @ + i.cost,
                  !.series[SeriesOf[e]] = @ + i.cost,
                  !.aggregate           = @ + i.cost]

\* The exposure with the fill of an intent of this cycle.
Overlaid(x, i) ==
    LET e == EventOf[i.market]
    IN  [market    |-> [x.market EXCEPT ![i.market] = @ + i.cost],
         event     |-> [x.event EXCEPT ![e] = @ + i.cost],
         series    |-> [x.series EXCEPT ![SeriesOf[e]] = @ + i.cost],
         aggregate |-> x.aggregate + i.cost]

\* The four gates of CAP_GATE_NAMES, for an intent that would cost "asked".
WithinCaps(x, i) ==
    LET e == EventOf[i.market]
    IN  /\ x.market[i.market] + i.asked <= MarketCap
        /\ x.event[e] + i.asked <= EventCap
        /\ x.series[SeriesOf[e]] + i.asked <= SeriesCap
        /\ x.aggregate + i.asked <= AggregateCap

\* An intent adds to the exposure and to the trades, or a gate blocks it; a
\* fill of nothing (a stale book, no depth) adds no trade.
Consider(before, i) ==
    IF i.cost > 0 /\ WithinCaps(before.exposure, i)
    THEN [exposure |-> Overlaid(before.exposure, i),
          rows     |-> Append(before.rows, [market |-> i.market, cost |-> i.cost])]
    ELSE before

\* The intents in their order.
Considered(intents) ==
    LET after[n \in 0..Len(intents)] ==
            IF n = 0 THEN [exposure |-> Exposure, rows |-> <<>>]
            ELSE Consider(after[n - 1], intents[n])
    IN  after[Len(intents)]

\* At most one intent per market; the simulator fills at most what was asked.
Intents ==
    {x \in UNION {[1..n -> [market : Markets, asked : 1..MarketCap, cost : 0..MarketCap]] :
                    n \in 1..MaxIntents} :
        /\ \A k \in DOMAIN x : x[k].cost <= x[k].asked
        /\ \A k, l \in DOMAIN x : x[k].market = x[l].market => k = l}

\* The market of each is still listed.
Listed(intents) == \A k \in DOMAIN intents : DateOf[EventOf[intents[k].market]] >= day

\* evaluate_strategies and _commit_phase2
Evaluate(intents) ==
    LET rows == Considered(intents).rows
    IN  /\ Listed(intents) /\ rows # <<>> /\ Len(trades) + Len(rows) <= MaxTrades
        /\ trades' = trades \o rows
        /\ UNCHANGED <<day, pnl, highs, lock, settler>>

-----------------------------------------------------------------------------
(***************************************************************************)
(* Settlement                                                              *)
(***************************************************************************)

NextDay ==
    /\ day < MaxDay
    /\ day' = day + 1
    /\ UNCHANGED <<trades, pnl, highs, lock, settler>>

\* The weather service has the high of an event, some time after its day.
PublishHigh(e) ==
    /\ e \notin highs /\ DateOf[e] < day
    /\ highs' = highs \cup {e}
    /\ UNCHANGED <<day, trades, pnl, lock, settler>>

\* A run wants the lock; the loop has read the clock before it.
Want(s) ==
    /\ settler[s].pc = "idle"
    /\ settler' = [settler EXCEPT ![s] = Wanting(day)]
    /\ UNCHANGED <<day, trades, pnl, highs, lock>>

\* The trades a run of that day would settle.
Eligible(asof) ==
    {i \in DOMAIN trades : pnl[i] = 0 /\ DateOf[EventOfTrade(i)] + SettleDays <= asof}

\* It has read the unsettled trades and lists the highs to ask for.
Started(asof) ==
    [pc |-> "fetch", asof |-> asof, eligible |-> Eligible(asof),
     ask |-> {EventOfTrade(i) : i \in Eligible(asof)}, observed |-> {}]

\* Mutant: a run that a signal asks for does not take the lock.
EnterUnlocked(s) ==
    /\ settler[s].pc = "want"
    /\ s = LOOP => lock = NOBODY
    /\ lock' = IF s = LOOP THEN s ELSE lock
    /\ settler' = [settler EXCEPT ![s] = Started(IF s = LOOP THEN @.asof ELSE day)]
    /\ UNCHANGED <<day, trades, pnl, highs>>

\* It has the lock; a run that a signal asks for reads the clock now.
Enter(s) ==
    /\ settler[s].pc = "want" /\ lock = NOBODY
    /\ lock' = s
    /\ settler' = [settler EXCEPT ![s] = Started(IF s = LOOP THEN @.asof ELSE day)]
    /\ UNCHANGED <<day, trades, pnl, highs>>

\* fetch_daily_high: the high, or none yet, or an error.
FetchHigh(s, e) ==
    /\ settler[s].pc = "fetch" /\ e \in settler[s].ask \cap highs
    /\ settler' = [settler EXCEPT ![s].ask = @ \ {e}, ![s].observed = @ \cup {e}]
    /\ UNCHANGED <<day, trades, pnl, highs, lock>>

FetchNothing(s, e) ==
    /\ settler[s].pc = "fetch" /\ e \in settler[s].ask
    /\ settler' = [settler EXCEPT ![s].ask = @ \ {e}]
    /\ UNCHANGED <<day, trades, pnl, highs, lock>>

Settled(s) ==
    {i \in settler[s].eligible : EventOfTrade(i) \in settler[s].observed}

\* The P&L rows and the commit, and the lock is free again.
Book(s) ==
    /\ settler[s].pc = "fetch" /\ settler[s].ask = {}
    /\ pnl' = [i \in DOMAIN pnl |-> IF i \in Settled(s) THEN pnl[i] + 1 ELSE pnl[i]]
    /\ settler' = [settler EXCEPT ![s] = NoRun]
    /\ lock' = IF lock = s THEN NOBODY ELSE lock
    /\ UNCHANGED <<day, trades, highs>>

\* Mutant: a run that raises keeps the lock.
FailHolding(s) ==
    /\ settler[s].pc = "fetch"
    /\ settler' = [settler EXCEPT ![s] = NoRun]
    /\ UNCHANGED <<day, trades, pnl, highs, lock>>

\* A request raises what is not caught, or the transaction fails.
Fail(s) ==
    /\ settler[s].pc = "fetch"
    /\ settler' = [settler EXCEPT ![s] = NoRun]
    /\ lock' = IF lock = s THEN NOBODY ELSE lock
    /\ UNCHANGED <<day, trades, pnl, highs>>

\* The process dies and starts again.
Die ==
    /\ settler' = Boot(day)
    /\ lock' = NOBODY
    /\ UNCHANGED <<day, trades, pnl, highs>>

PaperNext ==
    \/ \E intents \in Intents : Evaluate(intents)
    \/ NextDay
    \/ \E e \in Events : PublishHigh(e)
    \/ \E s \in Settlers :
        \/ Want(s) \/ Enter(s) \/ Book(s) \/ Fail(s)
        \/ \E e \in Events : FetchHigh(s, e) \/ FetchNothing(s, e)
    \/ Die

PaperSpec == PaperInit /\ [][PaperNext]_paperVars

-----------------------------------------------------------------------------
(* Properties *)

\* What is open never exceeds a cap, of a market, an event, a series or in all:
\* several intents of one evaluation add up, whatever part of each is filled
\* (the overlays of evaluate_strategies, which no transaction guards).
CapsHold ==
    /\ \A m \in Markets : Exposure.market[m] <= MarketCap
    /\ \A e \in Events  : Exposure.event[e] <= EventCap
    /\ \A s \in Series  : Exposure.series[s] <= SeriesCap
    /\ Exposure.aggregate <= AggregateCap

\* No trade is settled twice, though a run reads the unsettled trades, awaits
\* the weather service once per event and books them at its end, and another
\* run may want the same at any time (reconcile_lock; the table has no key).
SettledOnce == \A i \in 1..MaxTrades : pnl[i] <= 1

Booked(i) == i \in DOMAIN trades /\ pnl[i] > 0
Due(i)    == i \in DOMAIN trades /\ EventOfTrade(i) \in highs

Disturbed == Die \/ \E s \in Settlers : Fail(s)

\* A trade whose high is known is settled in the end, if the service answers
\* and processes no longer die or fail: no run that died or failed before, and
\* no run of a signal, keeps the loop out (_settlement_loop,
\* _on_demand_reconcile).
EventuallySettled ==
    <>[][~Disturbed]_paperVars => \A i \in 1..MaxTrades : Due(i) ~> Booked(i)
=============================================================================
