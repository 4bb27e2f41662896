------------------------------- MODULE DemoRows -------------------------------
(***************************************************************************)
(* The rows that bot/storage/sqlite.py keeps of one demo order, and the    *)
(* session functions of bot/execution/order_reconciler.py and              *)
(* demo_row_translator.py that rewrite them.                               *)
(*                                                                         *)
(* client_order_id is unique and never NULL in demo_orders, and the        *)
(* placer derives it from the intent, so an order o has at most two rows:  *)
(* the one keyed by its own client id, and the one keyed                   *)
(* "kw-backfill-<exchange id>" that the reconciler makes of an order it    *)
(* does not know.  paper_trades has at most one row per client id.  The    *)
(* three together are the order's entry.                                   *)
(*                                                                         *)
(* A price is known here only by its frame: the YES price of the fill, or  *)
(* the NO price, its complement to one dollar.                             *)
(***************************************************************************)
EXTENDS Integers

CONSTANTS
    MaxContracts,   \* contracts of the largest intent
    NONE            \* no row, no value: SQL NULL, Python None

Contracts == 1..MaxContracts
Status == {"resting", "executed", "canceled"}
Frame == {"yes", "no"}

(***************************************************************************)
(* A row of demo_orders.  eid: exchange_order_id is set.  intent: the      *)
(* strategy, fair value, raw probability, clock and limit price of the     *)
(* trade intent are set (one transaction writes all five or none).         *)
(***************************************************************************)
DemoOrder == [ eid       : BOOLEAN,
               intent    : BOOLEAN,
               requested : Contracts,
               filled    : 0..MaxContracts,
               status    : Status,
               avg       : Frame \cup {NONE} ]

\* A row of paper_trades mirrored from a demo order.
PaperTrade == [contracts : Contracts, price : Frame]

Entry == [ own      : DemoOrder \cup {NONE},
           backfill : DemoOrder \cup {NONE},
           paper    : PaperTrade \cup {NONE} ]

\* An order as the venue's order payload describes it: fills final or not yet
\* booked, with or without its order id.
Snapshot == [ named     : BOOLEAN,
              requested : Contracts,
              filled    : 0..MaxContracts,
              status    : Status ]

ASSUME NoneAssumption ==
    /\ MaxContracts \in Nat \ {0}
    /\ NONE \notin DemoOrder \cup PaperTrade \cup Snapshot \cup Frame \cup Int

EmptyEntry == [own |-> NONE, backfill |-> NONE, paper |-> NONE]

\* The row found by exchange_order_id, which is unique in demo_orders.
RowByEid(e) ==
    IF e.backfill # NONE THEN e.backfill
    ELSE IF e.own # NONE /\ e.own.eid THEN e.own
    ELSE NONE

-----------------------------------------------------------------------------
(***************************************************************************)
(* Prices.  side is "yes" or "no", the leg of the contract the order buys. *)
(***************************************************************************)

\* 1 - price, on the frame.
Complement(frame) == IF frame = "yes" THEN "no" ELSE "yes"

\* yes_frame_price(side, price): complements the price of a NO order.
YesFramePrice(side, frame) ==
    IF side = "no" THEN Complement(frame) ELSE frame

\* avg_yes_fill_price_dollars of a parsed order: the cost per contract of the
\* leg bought, complemented for a NO order, so the YES price; None unfilled.
\* The venue's payload names the cost of what it filled: a payload without a
\* cost, which the code logs and takes for a price of None, is left out.
ParsedAvg(filled) == IF filled = 0 THEN NONE ELSE "yes"

\* The price a fill carries into the row: yes_price_dollars for a YES row,
\* no_price_dollars for a NO row.
FillAvg(side) == side

-----------------------------------------------------------------------------
(***************************************************************************)
(* paper_trades                                                            *)
(***************************************************************************)

\* Mutant: the paper row is updated on a conflict.
InsertPaperUpdating(e, trade) ==
    IF trade = NONE THEN e ELSE [e EXCEPT !.paper = trade]

\* on_conflict_do_nothing(demo_order_client_id): the first row stays.
InsertPaper(e, trade) ==
    IF trade = NONE \/ e.paper # NONE THEN e ELSE [e EXCEPT !.paper = trade]

\* _paper_trade_row_from_demo_row
PaperFromDemoRow(side, row) ==
    IF row.filled = 0 \/ row.avg = NONE \/ ~row.intent
    THEN NONE
    ELSE [contracts |-> row.filled, price |-> YesFramePrice(side, row.avg)]

\* paper_trade_row_from_demo_order
PaperFromDemoOrder(side, snap) ==
    IF snap.filled = 0
    THEN NONE
    ELSE [contracts |-> snap.filled,
          price     |-> YesFramePrice(side, ParsedAvg(snap.filled))]

-----------------------------------------------------------------------------
(***************************************************************************)
(* The reconciler's transaction                                            *)
(***************************************************************************)

Booked(row, snap) ==
    [row EXCEPT !.status = snap.status,
                !.filled = snap.filled,
                !.avg    = ParsedAvg(snap.filled)]

\* upsert_exchange_record would give two rows the same exchange_order_id: the
\* unique index raises at the next flush and the transaction is rolled back.
UpsertCollides(e, snap) ==
    snap.named /\ e.own # NONE /\ ~e.own.eid /\ e.backfill # NONE

\* upsert_exchange_record
UpsertExchangeRecord(e, snap) ==
    IF e.own # NONE
    THEN [e EXCEPT !.own = [Booked(e.own, snap) EXCEPT !.eid = @ \/ snap.named]]
    ELSE IF e.backfill # NONE
    THEN [e EXCEPT !.backfill = Booked(@, snap)]
    ELSE [e EXCEPT !.backfill = [ eid       |-> TRUE,
                                  intent    |-> FALSE,
                                  requested |-> snap.requested,
                                  filled    |-> snap.filled,
                                  status    |-> snap.status,
                                  avg       |-> ParsedAvg(snap.filled) ]]

\* Mutant: the fills of a poll are added to those of earlier polls.
FilledByAdding(side, row, fills, listed, venueStatus) ==
    [row EXCEPT !.filled = @ + fills,
                !.avg    = FillAvg(side),
                !.status = IF listed THEN venueStatus ELSE @]

\* The row after the fills of one poll: their sum replaces filled_contracts.
FilledBy(side, row, fills, listed, venueStatus) ==
    [row EXCEPT !.filled = fills,
                !.avg    = FillAvg(side),
                !.status = IF listed THEN venueStatus
                           ELSE IF fills >= row.requested THEN "executed"
                           ELSE @]

\* reconcile_fills_into_demo_orders, for the fills of one exchange order:
\* "fills" counts the contracts in the poll, "listed" says that the same
\* reconcile also polled the order itself.
ReconcileFills(side, e, fills, listed, venueStatus) ==
    IF fills = 0 \/ RowByEid(e) = NONE
    THEN e
    ELSE LET row == FilledBy(side, RowByEid(e), fills, listed, venueStatus)
         IN  InsertPaper(IF e.backfill # NONE
                         THEN [e EXCEPT !.backfill = row]
                         ELSE [e EXCEPT !.own = row],
                         PaperFromDemoRow(side, row))

-----------------------------------------------------------------------------
(***************************************************************************)
(* The evaluation's transactions                                           *)
(***************************************************************************)

\* The flush of idempotent_insert_demo_order_row violates the unique index on
\* exchange_order_id; place_orders_resilient swallows the error.
InsertCollides(e, snap) ==
    snap.named /\ e.own # NONE /\ ~e.own.eid /\ e.backfill # NONE

\* idempotent_insert_demo_order_row: the order that this client id already
\* placed, found after a 409 for an intent of "contracts" contracts.
IdempotentInsert(e, snap, contracts) ==
    IF e.own # NONE
    THEN [e EXCEPT !.own.eid = @ \/ snap.named, !.own.status = snap.status]
    ELSE IF snap.named /\ e.backfill # NONE
    THEN [e EXCEPT !.own = [e.backfill EXCEPT !.intent    = TRUE,
                                              !.requested = contracts,
                                              !.status    = snap.status],
                   !.backfill = NONE]
    ELSE [e EXCEPT !.own = [ eid       |-> snap.named,
                             intent    |-> TRUE,
                             requested |-> contracts,
                             filled    |-> snap.filled,
                             status    |-> snap.status,
                             avg       |-> NONE ]]

\* Mutant: the paper row is left to a later reconcile.
StitchWithoutPaper(side, e) ==
    [e EXCEPT !.own = [(IF e.own = NONE THEN e.backfill ELSE e.own)
                         EXCEPT !.intent = TRUE, !.eid = TRUE],
              !.backfill = NONE]

\* stitch_natural_key_order, for a row matched by exchange id.  A holder of
\* the client id that is bound to another exchange order raises; an order has
\* one exchange id here, so that branch has no counterpart.
Stitch(side, e) ==
    LET survivor ==
            IF e.own = NONE
            THEN [e.backfill EXCEPT !.intent = TRUE]
            ELSE IF e.own.eid
            THEN [e.own EXCEPT !.intent = TRUE]
            ELSE [e.own EXCEPT !.eid    = TRUE,
                               !.intent = TRUE,
                               !.filled = e.backfill.filled,
                               !.status = e.backfill.status,
                               !.avg    = e.backfill.avg]
    IN  InsertPaper([e EXCEPT !.own = survivor, !.backfill = NONE],
                    PaperFromDemoRow(side, survivor))

\* The insert of _commit_phase2: on a conflict on client_order_id only the
\* columns of the intent are updated.
InsertDemoRow(e, snap) ==
    IF e.own # NONE
    THEN [e EXCEPT !.own.intent = TRUE]
    ELSE [e EXCEPT !.own = [ eid       |-> snap.named,
                             intent    |-> TRUE,
                             requested |-> snap.requested,
                             filled    |-> snap.filled,
                             status    |-> snap.status,
                             avg       |-> ParsedAvg(snap.filled) ]]

\* Mutant: the row is inserted under its client id without a look for the
\* reconciler's.
CommitOrderBlindly(side, e, snap, failed) ==
    LET paid == InsertPaper(e, PaperFromDemoOrder(side, snap))
    IN  IF failed THEN paid ELSE InsertDemoRow(paid, snap)

\* What _commit_phase2 writes of one accepted order: its paper row, then its
\* demo row, stitched onto the row that already has its exchange id.  The demo
\* row has a savepoint of its own: where that fails the paper row stays.
CommitOrder(side, e, snap, failed) ==
    LET paid == InsertPaper(e, PaperFromDemoOrder(side, snap))
    IN  IF failed THEN paid
        ELSE IF snap.named /\ RowByEid(paid) # NONE
        THEN Stitch(side, paid)
        ELSE InsertDemoRow(paid, snap)
=============================================================================
