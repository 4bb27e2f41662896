------------------------------ MODULE DemoOrders ------------------------------
(***************************************************************************)
(* The demo-mode order path of bot/main.py: an evaluation cycle that       *)
(* places immediate-or-cancel orders one after the other and commits them  *)
(* at its end, a reconciler that polls fills and orders behind a watermark *)
(* and commits what it saw, the venue between them, and restarts.          *)
(*                                                                         *)
(* The process runs one asyncio event loop: code between two awaits is     *)
(* atomic, every session runs between awaits under app.db_lock, so a       *)
(* transaction is one step and each request to the venue separates two.    *)
(***************************************************************************)
EXTENDS DemoRows, Functions

CONSTANTS
    Orders,      \* client order ids; one per strategy, leg, market and date
    NoOrders,    \* those that buy the NO leg
    Tickers,
    TickerOf,    \* the market of an order
    Lag,         \* ticks until what the venue booked is in all its listings
    Overlap,     \* _WATERMARK_OVERLAP_SECONDS in ticks
    ColdStart,   \* _COLD_START_FALLBACK in ticks
    OmitsId,     \* the venue may leave the order id out of an answer
    MaxTime      \* bound on the clock

VenueOrder == [ requested : Contracts,
                filled    : 0..MaxContracts,
                at        : Nat,              \* the venue's timestamp
                listed    : BOOLEAN,          \* in GET /portfolio/orders
                fills     : 0..MaxContracts ] \* contracts in GET /portfolio/fills

\* What an evaluation commits: an order whose answer told its fills, or the row,
\* with its order id, of one whose answer told none.
Commitment == {"told", "untold"}

ASSUME OrdersAssumption ==
    /\ NoOrders \subseteq Orders
    /\ TickerOf \in [Orders -> Tickers]
    /\ NONE \notin Orders \cup VenueOrder \cup Commitment
    /\ OmitsId \in BOOLEAN
    /\ ColdStart \in Nat /\ MaxTime \in Nat

\* What the overlap is for: a record the venue stamped before the watermark
\* was in its listings when the watermark was taken.
ASSUME OverlapCoversLag == Lag \in Nat /\ Overlap \in Nat /\ Lag <= Overlap

VARIABLES
    clock,
    exch,           \* the venue's orders
    stale,          \* requests on the wire that nobody waits for any more
    demo_orders,    \* per order its rows of demo_orders and paper_trades
    last_poll_ts,   \* the persisted watermark, a row of reconciler_state
    watermark,      \* the reconcile loop's watermark, lost with the process
    phase,          \* of the process
    eval,           \* the evaluation cycle
    rec,            \* the reconcile in progress
    committed       \* history: per order what an evaluation committed of its acceptance

venueVars == <<clock, exch, stale>>
dbVars    == <<demo_orders, last_poll_ts, committed>>
vars      == <<venueVars, dbVars, watermark, phase, eval, rec>>

SideOf(o) == IF o \in NoOrders THEN "no" ELSE "yes"

Placed(o) == exch[o] # NONE

\* An immediate-or-cancel order is terminal when it is accepted.
VenueStatus(x) == IF x.filled = x.requested THEN "executed" ELSE "canceled"

\* The order payload of the venue, once its fills are booked and before.
FinalSnapshot(x, named) ==
    [named |-> named, requested |-> x.requested,
     filled |-> x.filled, status |-> VenueStatus(x)]
EarlySnapshot(x, named) ==
    [named |-> named, requested |-> x.requested,
     filled |-> 0, status |-> "resting"]
Snapshots(x) ==
    {s \in {FinalSnapshot(x, n) : n \in BOOLEAN} \cup
           {EarlySnapshot(x, n) : n \in BOOLEAN} : s.named \/ OmitsId}

Published(o) ==
    Placed(o) => exch[o].listed /\ exch[o].fills = exch[o].filled

EvalIdle(tried, results) ==
    [pc |-> "idle", order |-> NONE, contracts |-> 1, reply |-> NONE,
     tried |-> tried, results |-> results]
NoCycle == EvalIdle({}, [o \in Orders |-> NONE])
RecIdle == [pc |-> "idle", started |-> 0,
            fills |-> [o \in Orders |-> 0], orders |-> {}]

Init ==
    /\ clock = 0
    /\ exch = [o \in Orders |-> NONE]
    /\ stale = {}
    /\ demo_orders = [o \in Orders |-> EmptyEntry]
    /\ last_poll_ts = NONE
    /\ watermark = 0
    /\ phase = "down"
    /\ eval = NoCycle
    /\ rec = RecIdle
    /\ committed = [o \in Orders |-> NONE]

-----------------------------------------------------------------------------
(***************************************************************************)
(* The venue                                                               *)
(***************************************************************************)

NewOrder(n, f) ==
    [requested |-> n, filled |-> f, at |-> clock, listed |-> FALSE, fills |-> 0]

\* Everything stamped Lag ticks ago is listed before the clock moves on.
Tick ==
    /\ clock < MaxTime
    /\ \A o \in Orders : Placed(o) /\ exch[o].at + Lag <= clock => Published(o)
    /\ clock' = clock + 1
    /\ UNCHANGED <<exch, stale, dbVars, watermark, phase, eval, rec>>

PublishOrder(o) ==
    /\ Placed(o) /\ ~exch[o].listed
    /\ exch' = [exch EXCEPT ![o].listed = TRUE]
    /\ UNCHANGED <<clock, stale, dbVars, watermark, phase, eval, rec>>

PublishFill(o) ==
    /\ Placed(o) /\ exch[o].fills < exch[o].filled
    /\ exch' = [exch EXCEPT ![o].fills = @ + 1]
    /\ UNCHANGED <<clock, stale, dbVars, watermark, phase, eval, rec>>

\* The venue books the order the evaluation waits for and answers 201.
Accept ==
    /\ eval.pc = "posted" /\ ~Placed(eval.order)
    /\ \E f \in 0..eval.contracts :
          LET x == NewOrder(eval.contracts, f) IN
          /\ exch' = [exch EXCEPT ![eval.order] = x]
          /\ \E s \in Snapshots(x) :
                eval' = [eval EXCEPT !.pc = "created", !.reply = s]
    /\ UNCHANGED <<clock, stale, dbVars, watermark, phase, rec>>

\* It answers 409 when the client id was used before.
Conflict ==
    /\ eval.pc = "posted" /\ Placed(eval.order)
    /\ eval' = [eval EXCEPT !.pc = "conflict"]
    /\ UNCHANGED <<venueVars, dbVars, watermark, phase, rec>>

\* A request whose sender timed out or died reaches the venue after all.
AcceptStale(o, n) ==
    /\ <<o, n>> \in stale
    /\ stale' = stale \ {<<o, n>>}
    /\ IF Placed(o)
       THEN UNCHANGED exch
       ELSE \E f \in 0..n : exch' = [exch EXCEPT ![o] = NewOrder(n, f)]
    /\ UNCHANGED <<clock, dbVars, watermark, phase, eval, rec>>

-----------------------------------------------------------------------------
(***************************************************************************)
(* evaluate_strategies: phase one places, phase two commits                *)
(***************************************************************************)

EndCall(tried, results) == eval' = EvalIdle(tried, results)

\* Requests that were on the wire when their sender stopped waiting.
Abandoned == IF eval.pc = "posted" THEN {<<eval.order, eval.contracts>>} ELSE {}

\* The next intent of the cycle is posted.  Which intents survive sizing,
\* gates, the market cache and the rate-limit breaker is left open.
EvalPost(o, n) ==
    /\ phase = "run" /\ eval.pc = "idle" /\ o \notin eval.tried
    /\ eval' = [eval EXCEPT !.pc = "posted", !.order = o, !.contracts = n,
                            !.tried = @ \cup {o}]
    /\ UNCHANGED <<venueVars, dbVars, watermark, phase, rec>>

\* 201: the order joins the results of the cycle.
EvalCreated ==
    /\ eval.pc = "created"
    /\ EndCall(eval.tried, [eval.results EXCEPT ![eval.order] = eval.reply])
    /\ UNCHANGED <<venueVars, dbVars, watermark, phase, rec>>

\* Any other answer but 409 (rejected, retries of 429 used up): no result.
EvalRejected ==
    /\ eval.pc = "posted"
    /\ EndCall(eval.tried, eval.results)
    /\ UNCHANGED <<venueVars, dbVars, watermark, phase, rec>>

\* The call raises, the client's timeout included; place_orders_resilient
\* goes on with the next intent.
EvalRaises ==
    /\ eval.pc # "idle"
    /\ stale' = stale \cup Abandoned
    /\ EndCall(eval.tried, eval.results)
    /\ UNCHANGED <<clock, exch, dbVars, watermark, phase, rec>>

\* Mutant: an order of another size is adopted.
AdoptableAnySize(o, n) == exch[o].listed /\ VenueStatus(exch[o]) # "canceled"

\* The order the client id placed before, when its state allows adoption.
Adoptable(o, n) ==
    /\ exch[o].listed
    /\ VenueStatus(exch[o]) # "canceled"
    /\ exch[o].requested = n

\* 409: the existing order is fetched and its row inserted or adopted.
EvalConflict ==
    /\ eval.pc = "conflict"
    /\ \E named \in BOOLEAN :
          LET o    == eval.order
              e    == demo_orders[o]
              snap == FinalSnapshot(exch[o], named)
          IN  /\ named \/ OmitsId
              /\ IF Adoptable(o, eval.contracts) /\ ~InsertCollides(e, snap)
                 THEN demo_orders' = [demo_orders EXCEPT ![o] =
                                        IdempotentInsert(e, snap, eval.contracts)]
                 ELSE UNCHANGED demo_orders
    /\ EndCall(eval.tried, eval.results)
    /\ UNCHANGED <<venueVars, last_poll_ts, committed, watermark, phase, rec>>

Accepted == {o \in Orders : eval.results[o] # NONE}

\* _commit_phase2: one transaction for the whole cycle.  The savepoints of some
\* demo rows may fail: the rest of the cycle is committed.
EvalCommit ==
    /\ eval.pc = "idle" /\ eval.tried # {}
    /\ \E failed \in SUBSET Accepted :
          /\ demo_orders' = [o \in Orders |->
                IF o \in Accepted
                THEN CommitOrder(SideOf(o), demo_orders[o], eval.results[o], o \in failed)
                ELSE demo_orders[o]]
          /\ committed' = [o \in Orders |->
                IF o \in Accepted /\ eval.results[o].filled > 0 THEN "told"
                ELSE IF o \in Accepted \ failed /\ eval.results[o].named THEN "untold"
                ELSE committed[o]]
    /\ eval' = NoCycle
    /\ UNCHANGED <<venueVars, last_poll_ts, watermark, phase, rec>>

\* The cycle raises before its commit; run_loop starts the next one.
EvalAborts ==
    /\ eval.pc = "idle" /\ eval.tried # {}
    /\ eval' = NoCycle
    /\ UNCHANGED <<venueVars, dbVars, watermark, phase, rec>>

-----------------------------------------------------------------------------
(***************************************************************************)
(* _reconcile_once: fills, then orders, then one transaction               *)
(***************************************************************************)

\* Mutant: the next watermark is the poll's own start.
PollFillsWithoutOverlap ==
    /\ phase \in {"boot", "run"} /\ rec.pc = "idle"
    /\ rec' = [rec EXCEPT
                 !.pc      = "fills",
                 !.started = clock,
                 !.fills   = [o \in Orders |->
                                IF Placed(o) /\ exch[o].at >= watermark
                                THEN exch[o].fills ELSE 0]]
    /\ UNCHANGED <<venueVars, dbVars, watermark, phase, eval>>

\* poll_fills, a page at a time, after the next watermark was taken.
PollFills ==
    /\ phase \in {"boot", "run"} /\ rec.pc = "idle"
    /\ rec' = [rec EXCEPT
                 !.pc      = "fills",
                 !.started = clock - Overlap,
                 !.fills   = [o \in Orders |->
                                IF Placed(o) /\ exch[o].at >= watermark
                                THEN exch[o].fills ELSE 0]]
    /\ UNCHANGED <<venueVars, dbVars, watermark, phase, eval>>

\* Mutant: canceled orders are not asked for.
PollExecutedOrders ==
    /\ rec.pc = "fills"
    /\ rec' = [rec EXCEPT
                 !.pc     = "orders",
                 !.orders = {o \in Orders : /\ Placed(o) /\ exch[o].listed
                                            /\ VenueStatus(exch[o]) = "executed"
                                            /\ exch[o].at >= watermark}]
    /\ UNCHANGED <<venueVars, dbVars, watermark, phase, eval>>

\* poll_open_orders: executed and canceled orders, so every listed one.
PollOrders ==
    /\ rec.pc = "fills"
    /\ rec' = [rec EXCEPT
                 !.pc     = "orders",
                 !.orders = {o \in Orders : /\ Placed(o) /\ exch[o].listed
                                            /\ exch[o].at >= watermark}]
    /\ UNCHANGED <<venueVars, dbVars, watermark, phase, eval>>

\* The entry of an order after the transaction.
Reconciled(o, e) ==
    LET listed == o \in rec.orders
        seen   == IF listed
                  THEN UpsertExchangeRecord(e, FinalSnapshot(exch[o], TRUE))
                  ELSE e
        status == IF listed THEN VenueStatus(exch[o]) ELSE "executed"
    IN  ReconcileFills(SideOf(o), seen, rec.fills[o], listed, status)

RecCollides ==
    \E o \in rec.orders :
        UpsertCollides(demo_orders[o], FinalSnapshot(exch[o], TRUE))

RecCommit ==
    /\ rec.pc = "orders" /\ ~RecCollides
    /\ demo_orders' = [o \in Orders |-> Reconciled(o, demo_orders[o])]
    /\ last_poll_ts' = rec.started
    /\ watermark' = rec.started
    /\ rec' = RecIdle
    /\ phase' = IF phase = "boot" THEN "check" ELSE phase
    /\ UNCHANGED <<venueVars, committed, eval>>

\* A poll or the transaction raises: the loop tries again with the same
\* watermark, the startup backfill gives up.
RecFails ==
    /\ rec.pc # "idle"
    /\ rec' = RecIdle
    /\ phase' = IF phase = "boot" THEN "down" ELSE phase
    /\ UNCHANGED <<venueVars, dbVars, watermark, eval>>

-----------------------------------------------------------------------------
(***************************************************************************)
(* The process                                                             *)
(***************************************************************************)

\* _load_reconciler_watermark, before _demo_startup_backfill.
Boot ==
    /\ phase = "down"
    /\ phase' = "boot"
    /\ watermark' = IF last_poll_ts = NONE THEN clock - ColdStart ELSE last_poll_ts
    /\ UNCHANGED <<venueVars, dbVars, eval, rec>>

Signed(o, contracts) == IF SideOf(o) = "no" THEN -contracts ELSE contracts
FilledOf(row) == IF row = NONE THEN 0 ELSE row.filled
OrdersOf(t) == {o \in Orders : TickerOf[o] = t}

\* poll_positions
VenuePosition(t) ==
    SumFunction([o \in OrdersOf(t) |->
                    IF Placed(o) THEN Signed(o, exch[o].filled) ELSE 0])

\* Mutant: the contracts of both legs are added up.
LocalPositionUnsigned(t) ==
    SumFunction([o \in OrdersOf(t) |-> FilledOf(demo_orders[o].own)
                                       + FilledOf(demo_orders[o].backfill)])

\* local_position_aggregate
LocalPosition(t) ==
    SumFunction([o \in OrdersOf(t) |->
                    Signed(o, FilledOf(demo_orders[o].own)
                              + FilledOf(demo_orders[o].backfill))])

\* Markets the venue holds a position in that the rows do not add up to.
Mismatched ==
    {t \in Tickers : VenuePosition(t) # 0 /\ VenuePosition(t) # LocalPosition(t)}

\* _assert_boot_position_invariant: parity, or an operator who waived it.
BootCheck ==
    /\ phase = "check"
    /\ \E waived \in BOOLEAN :
          phase' = IF Mismatched = {} \/ waived THEN "run" ELSE "down"
    /\ UNCHANGED <<venueVars, dbVars, watermark, eval, rec>>

\* The process dies or is stopped: run cancels its tasks where they wait.
Crash ==
    /\ phase # "down"
    /\ phase' = "down"
    /\ stale' = stale \cup Abandoned
    /\ eval' = NoCycle
    /\ rec' = RecIdle
    /\ UNCHANGED <<clock, exch, dbVars, watermark>>

-----------------------------------------------------------------------------
Venue ==
    \/ Tick \/ Accept \/ Conflict
    \/ \E o \in Orders : PublishOrder(o) \/ PublishFill(o)
    \/ \E o \in Orders, n \in Contracts : AcceptStale(o, n)

Evaluation ==
    \/ \E o \in Orders, n \in Contracts : EvalPost(o, n)
    \/ EvalCreated \/ EvalRejected \/ EvalRaises \/ EvalConflict
    \/ EvalCommit \/ EvalAborts

Reconciler == PollFills \/ PollOrders \/ RecCommit \/ RecFails

Process == Boot \/ BootCheck \/ Crash

Next == Venue \/ Evaluation \/ Reconciler \/ Process

Spec == Init /\ [][Next]_vars

\* The venue publishes what it booked, its polls are not unlucky for ever at
\* the same point, a stopped process is started again and a refused boot is
\* eventually waived or repaired.
Fairness ==
    /\ \A o \in Orders : WF_vars(PublishOrder(o)) /\ WF_vars(PublishFill(o))
    /\ WF_vars(Boot) /\ SF_vars(BootCheck /\ phase' = "run")
    /\ SF_vars(PollFills) /\ SF_vars(PollOrders) /\ SF_vars(RecCommit)

FairSpec == Spec /\ Fairness

-----------------------------------------------------------------------------
(***************************************************************************)
(* Correctness                                                             *)
(***************************************************************************)

TypeOK ==
    /\ clock \in Nat
    /\ exch \in [Orders -> VenueOrder \cup {NONE}]
    /\ stale \subseteq Orders \X Contracts
    /\ demo_orders \in [Orders -> Entry]
    /\ last_poll_ts \in Int \cup {NONE}
    /\ watermark \in Int
    /\ phase \in {"down", "boot", "check", "run"}
    /\ eval \in [ pc        : {"idle", "posted", "created", "conflict"},
                  order     : Orders \cup {NONE},
                  contracts : Contracts,
                  reply     : Snapshot \cup {NONE},
                  tried     : SUBSET Orders,
                  results   : [Orders -> Snapshot \cup {NONE}] ]
    /\ rec \in [ pc      : {"idle", "fills", "orders"},
                 started : Int,
                 fills   : [Orders -> 0..MaxContracts],
                 orders  : SUBSET Orders ]
    /\ committed \in [Orders -> Commitment \cup {NONE}]

Mirrors(row, x) == row.filled = x.filled /\ row.status = VenueStatus(x)

Mirrored(o) ==
    LET row == RowByEid(demo_orders[o])
    IN  row # NONE /\ Mirrors(row, exch[o])

Behind(o, ts) == Placed(o) /\ ts # NONE /\ exch[o].at < ts

\* The reconciler never asks again for what is older than its watermark, so
\* every order the venue stamped before the persisted watermark has a row
\* bound to its exchange id, with the venue's fills and status: no crash,
\* lost answer, late listing or commit of the evaluation in between undoes it.
BehindWatermark == \A o \in Orders : Behind(o, last_poll_ts) => Mirrored(o)

\* One exchange order never has two rows, or local_position_aggregate counts
\* its fills twice: the reconciler's kw-backfill row and the row of the
\* evaluation are merged whichever is written first.
OneRowPerOrder ==
    \A o \in Orders : demo_orders[o].own = NONE \/ demo_orders[o].backfill = NONE

\* A row asks for as many contracts as the order the venue holds, although
\* the intent is sized anew in every cycle: an order is adopted after a 409
\* only by an intent of its own size.
RowsAgreeOnSize ==
    \A o \in Orders :
        LET e == demo_orders[o] IN
        /\ e.own # NONE => Placed(o) /\ e.own.requested = exch[o].requested
        /\ e.backfill # NONE => Placed(o) /\ e.backfill.requested = exch[o].requested

\* The exposure that the risk gates read never counts a fill that the venue
\* did not book.
PaperNeverOvercounts ==
    \A o \in Orders :
        LET e == demo_orders[o] IN
        e.paper # NONE => Placed(o) /\ e.paper.contracts <= exch[o].filled

\* What the tables say of an order never exceeds the order at the venue: the rows
\* ask for what it asked for, and no more of it is counted than was filled.
RowsNeverExceedTheVenue == RowsAgreeOnSize /\ PaperNeverOvercounts

\* What an evaluation committed is in the exposure.  An order whose answer told
\* its fills is counted with all of them at once, though the savepoint of its
\* demo row failed or the answer had no order id.  An order whose answer came
\* before its fills were booked is counted when the watermark has passed it, if
\* its demo row was committed with its id: with what the first poll to see fills
\* saw of them, for the first paper row stays, and never with nothing.
CommittedFillsCounted ==
    \A o \in Orders :
        LET paper == demo_orders[o].paper
        IN  /\ committed[o] = "told" => paper # NONE /\ paper.contracts = exch[o].filled
            /\ committed[o] = "untold" /\ Behind(o, last_poll_ts) /\ exch[o].filled > 0
                 => paper # NONE

\* At boot a market's rows differ from the venue's position only on account of
\* an order that the startup backfill could not see yet.
BootMismatchIsRecent ==
    phase = "check" =>
        \A t \in Mismatched : \E o \in OrdersOf(t) :
            Placed(o) /\ ~Behind(o, last_poll_ts)

\* Every order the venue books reaches the tables with its fills, whatever
\* becomes of the process that placed it.
EventuallyMirrored == \A o \in Orders : Placed(o) ~> Mirrored(o)

\* The promise of OrderLedger, kept through crashes and restarts.
Ledger == INSTANCE OrderLedger WITH
    now        <- clock,
    placedAt   <- [o \in Orders |-> IF Placed(o) THEN exch[o].at ELSE NONE],
    recorded   <- {o \in Orders : \/ demo_orders[o].own # NONE
                                  \/ demo_orders[o].backfill # NONE},
    attributed <- {o \in Orders : /\ demo_orders[o].own # NONE
                                  /\ demo_orders[o].own.intent},
    counted    <- [o \in Orders |-> IF demo_orders[o].paper = NONE THEN NONE
                                    ELSE demo_orders[o].paper.contracts],
    horizon    <- last_poll_ts

\* The tables only ever learn: an order once recorded, attributed to its
\* strategy or counted in the exposure stays so, with the same contracts,
\* through merges of rows, aborted transactions, failed savepoints and restarts;
\* the reconciler counts no order whose strategy is unknown, and the persisted
\* watermark moves forward over recorded orders only.
LedgerSpec == Ledger!Spec

\* Paper rows of demo orders carry YES prices, as the tests of the translators
\* say they must.
PaperInYesFrame ==
    \A o \in Orders :
        demo_orders[o].paper # NONE => demo_orders[o].paper.price = "yes"

\* Every known fill of an order whose strategy is known is in the exposure
\* that the caps of the risk gates are applied to, none missing.
KnownFillsCounted ==
    \A o \in Orders :
        /\ Behind(o, last_poll_ts)
        /\ demo_orders[o].own # NONE /\ demo_orders[o].own.intent
        /\ demo_orders[o].own.filled > 0
        => /\ demo_orders[o].paper # NONE
           /\ demo_orders[o].paper.contracts = demo_orders[o].own.filled
=============================================================================
