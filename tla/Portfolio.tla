------------------------------ MODULE Portfolio -------------------------------
(***************************************************************************)
(* The portfolio snapshot (bot/execution/portfolio_snapshot.py and the     *)
(* loop in bot/main.py): the balance is read, then the positions page by   *)
(* page, and a transaction writes the totals and gives each ticker's       *)
(* realized P&L to the newest of its rows, while orders fill, markets      *)
(* settle, and the evaluation and the reconciler write rows.               *)
(* A page holds one position and its cursor is a ticker's number; a figure *)
(* of realized P&L is told by the snapshot that read it; a row that counts *)
(* as filled stays so (module DemoOrders).                                 *)
(***************************************************************************)
EXTENDS Integers, FiniteSets, Functions

CONSTANTS
    Pages,      \* how many positions the venue lists, one ticker each
    Cash,       \* what the venue account begins with, beside a contract of each ticker
    MaxMoves,   \* bound: fills and settlements at the venue
    MaxOrders,  \* bound: orders
    MaxTicks    \* bound: snapshots that are written

ASSUME PortfolioAssumption ==
    /\ Pages \in Nat \ {0} /\ Cash \in Nat
    /\ {MaxMoves, MaxOrders, MaxTicks} \subseteq Nat

VARIABLES
    account,   \* the venue: cash, and the exposure of each ticker
    moves,     \* how often the account moved
    clock,     \* counts what is stamped: answers to orders, rows, snapshots
    answered,      \* orders that were answered and not committed: placed_at
    booked,      \* demo_orders of the first ticker: order, placed, id, natural,
               \* filled, and asOf: the snapshot of its figure, 0 while it has none
    reading,      \* the snapshot in progress: what it has read, and its next page
    shot       \* portfolio_snapshots: the last row, with the history it is judged by

portfolioVars == <<account, moves, clock, answered, booked, reading, shot>>

Positions == 1..Pages
IDLE == [step |-> "idle"]

PortfolioInit ==
    /\ account = [cash |-> Cash, exposure |-> [t \in Positions |-> 1]]
    /\ moves = 0 /\ clock = 0
    /\ answered = {} /\ booked = {}
    /\ reading = IDLE
    /\ shot = [n |-> 0, collateral |-> Cash + Pages, basis |-> Cash + Pages, moved |-> 0]

-----------------------------------------------------------------------------
(* The venue *)

\* A move of the account counts against the snapshot that is being taken.
Moved(amount) ==
    /\ moves < MaxMoves /\ moves' = moves + 1
    /\ reading' = IF reading = IDLE THEN reading ELSE [reading EXCEPT !.moved = @ + amount]
    /\ UNCHANGED <<clock, answered, booked, shot>>

Fills(t) ==
    /\ account.cash > 0
    /\ account' = [account EXCEPT !.cash = @ - 1, !.exposure[t] = @ + 1]
    /\ Moved(1)

\* A market settles, or a position is closed: every contract pays two or nothing.
Settles(t) ==
    /\ account.exposure[t] > 0
    /\ \E gain \in {-account.exposure[t], account.exposure[t]} :
          account' = [cash |-> account.cash + account.exposure[t] + gain,
                      exposure |-> [account.exposure EXCEPT ![t] = 0]]
    /\ Moved(account.exposure[t])

-----------------------------------------------------------------------------
(* The evaluation and the reconciler: rows of orders on the first ticker *)

\* Orders are told apart by the time that their answer came.
Answer ==
    /\ Cardinality(answered \cup {r.order : r \in booked}) < MaxOrders
    /\ clock' = clock + 1
    /\ answered' = answered \cup {clock'}
    /\ UNCHANGED <<account, moves, booked, reading, shot>>

DemoRow(order, placed, natural, filled) ==
    [order |-> order, placed |-> placed, id |-> Cardinality(booked), natural |-> natural,
     filled |-> filled, asOf |-> 0]

\* upsert_exchange_record books an order that has no row under a backfill id,
\* placed when the poll read it.
Backfilled(order) ==
    /\ order \in answered /\ \A r \in booked : r.order # order
    /\ clock' = clock + 1
    /\ \E filled \in BOOLEAN : booked' = booked \cup {DemoRow(order, clock', FALSE, filled)}
    /\ UNCHANGED <<account, moves, answered, reading, shot>>

\* _commit_phase2 inserts the row, or gives the backfilled one its client id.
Committed(order) ==
    /\ order \in answered /\ answered' = answered \ {order}
    /\ \/ /\ \A r \in booked : r.order # order
          /\ \E filled \in BOOLEAN : booked' = booked \cup {DemoRow(order, order, TRUE, filled)}
       \/ \E r \in booked :
             /\ r.order = order
             /\ booked' = (booked \ {r}) \cup {[r EXCEPT !.natural = TRUE]}
    /\ UNCHANGED <<account, moves, clock, reading, shot>>

\* The reconciler finds an order executed with fills.
Reconciled(r) ==
    /\ ~r.filled
    /\ booked' = (booked \ {r}) \cup {[r EXCEPT !.filled = TRUE]}
    /\ UNCHANGED <<account, moves, clock, answered, reading, shot>>

-----------------------------------------------------------------------------
(* _portfolio_snapshot_once *)

ReadBalance ==
    /\ reading = IDLE /\ shot.n < MaxTicks
    /\ reading' = [step |-> "pages", page |-> 1, cash |-> account.cash, exposure |-> 0, moved |-> 0,
                   basis |-> account.cash + SumFunction(account.exposure)]
    /\ UNCHANGED <<account, moves, clock, answered, booked, shot>>

\* aggregate_positions: a page is added to the totals; the last one has no
\* cursor, and the snapshot is stamped as it is read.
ReadPage ==
    /\ reading.step = "pages"
    /\ LET t == reading.page
           read == [reading EXCEPT !.exposure = @ + account.exposure[t]]
       IN  IF t < Pages
           THEN reading' = [read EXCEPT !.page = t + 1] /\ UNCHANGED clock
           ELSE reading' = [read EXCEPT !.step = "write", !.page = clock + 1] /\ clock' = clock + 1
    /\ UNCHANGED <<account, moves, answered, booked, shot>>

\* A page that fails ends the tick, and nothing is written.
PageFails ==
    /\ reading.step = "pages" /\ reading' = IDLE
    /\ UNCHANGED <<account, moves, clock, answered, booked, shot>>

\* Mutant: the row that was written last.
WrittenLast(r, q) == r.id > q.id

\* Of two rows the one that was placed later, then the one with the higher id.
Newer(r, q) == r.placed > q.placed \/ (r.placed = q.placed /\ r.id > q.id)

Attributable(at) == {r \in booked : r.natural /\ r.filled /\ r.placed <= at}

\* update_demo_realized_pnl: the newest eligible row takes the figure.
Attributed(at) ==
    {IF r \in Attributable(at) /\ \A q \in Attributable(at) \ {r} : Newer(r, q)
     THEN [r EXCEPT !.asOf = at]
     ELSE r : r \in booked}

\* The transaction under db_lock.
WriteSnapshot ==
    /\ reading.step = "write"
    /\ booked' = Attributed(reading.page)
    /\ shot' = [n |-> shot.n + 1, collateral |-> reading.cash + reading.exposure,
                basis |-> reading.basis, moved |-> reading.moved]
    /\ reading' = IDLE
    /\ UNCHANGED <<account, moves, clock, answered>>

PortfolioNext ==
    \/ \E t \in Positions : Fills(t) \/ Settles(t)
    \/ Answer
    \/ \E o \in answered : Backfilled(o) \/ Committed(o)
    \/ \E r \in booked : Reconciled(r)
    \/ ReadBalance \/ ReadPage \/ PageFails \/ WriteSnapshot

PortfolioSpec == PortfolioInit /\ [][PortfolioNext]_portfolioVars

-----------------------------------------------------------------------------
(* Properties *)

\* The collateral of a snapshot adds a balance and positions that were read one
\* after the other: it differs from what the account had when the tick began by
\* no more than what filled and settled until it was written, and not at all
\* when nothing did.
CollateralIsNear ==
    /\ shot.collateral - shot.basis <= shot.moved
    /\ shot.basis - shot.collateral <= shot.moved

\* Whatever the order in which the evaluation, the reconciler and the loop
\* write, no row holds a figure of a snapshot stamped before the row was placed,
\* and of two rows of a ticker with figures the newer holds the later one
\* (placed_at <= snapshot_at, placed_at DESC): the P&L of a ticker is what its
\* newest figure says, never the sum of them.
FiguresFollowOrders ==
    \A r, q \in {row \in booked : row.asOf > 0} :
        /\ r.asOf >= r.placed
        /\ r.placed > q.placed => r.asOf > q.asOf

\* A snapshot of the portfolio can be accounted for: its totals and the figures
\* that it leaves on the rows of orders.
SnapshotIsAccountable == CollateralIsNear /\ FiguresFollowOrders
=============================================================================
