--------------------------- MODULE DemoOrdersProofs ---------------------------
(***************************************************************************)
(* Theorems about DemoOrders, for any set of orders, any venue lag within  *)
(* the overlap and with order ids omitted or not: the safety of the        *)
(* watermark, and what the tables know, that no row exceeds the venue's    *)
(* order, that knowledge is never lost (the refinement of OrderLedger),    *)
(* that what an evaluation committed is counted and, for a venue that      *)
(* names its orders, that an order has one row and that a boot only        *)
(* stumbles over recent orders.                                            *)
(***************************************************************************)
EXTENDS DemoOrders, TLAPS

-----------------------------------------------------------------------------
(***************************************************************************)
(* The session functions                                                   *)
(***************************************************************************)

\* The frames of prices stay frames.
LEMMA FrameTypes ==
    ASSUME NEW side \in Frame, NEW f \in Frame
    PROVE  /\ YesFramePrice(side, f) \in Frame
           /\ FillAvg(side) \in Frame
BY DEF Frame, YesFramePrice, Complement, FillAvg

\* The average price of a parsed order is missing exactly without a fill.
LEMMA ParsedAvgType ==
    ASSUME NEW k
    PROVE  /\ ParsedAvg(k) \in Frame \cup {NONE}
           /\ ParsedAvg(k) = NONE <=> k = 0
BY NoneAssumption DEF Frame, ParsedAvg

\* A paper row made of a demo row or of an accepted order is a paper row.
LEMMA PaperFromDemoRowType ==
    ASSUME NEW side \in Frame, NEW row \in DemoOrder
    PROVE  PaperFromDemoRow(side, row) \in PaperTrade \cup {NONE}
<1>1. CASE row.filled = 0 \/ row.avg = NONE \/ ~row.intent
    BY <1>1 DEF PaperFromDemoRow
<1>2. CASE ~(row.filled = 0 \/ row.avg = NONE \/ ~row.intent)
  <2>1. row.avg \in Frame /\ row.filled \in Contracts
    BY <1>2, NoneAssumption DEF DemoOrder, Contracts
  <2>. QED BY <1>2, <2>1, FrameTypes DEF PaperFromDemoRow, PaperTrade
<1>. QED BY <1>1, <1>2

\* and so is the one made of an accepted order.
LEMMA PaperFromDemoOrderType ==
    ASSUME NEW side \in Frame, NEW snap \in Snapshot
    PROVE  PaperFromDemoOrder(side, snap) \in PaperTrade \cup {NONE}
BY NoneAssumption, FrameTypes, ParsedAvgType
   DEF Snapshot, PaperTrade, PaperFromDemoOrder, Contracts

\* Inserting a paper row keeps the entry an entry.
LEMMA InsertPaperType ==
    ASSUME NEW e \in Entry, NEW trade \in PaperTrade \cup {NONE}
    PROVE  InsertPaper(e, trade) \in Entry
BY NoneAssumption DEF Entry, InsertPaper

\* A row is never the missing row.
LEMMA RowIsSome == \A row \in DemoOrder : row # NONE
BY NoneAssumption

\* The row bound to the exchange id is a row, when there is one.
LEMMA RowByEidType ==
    ASSUME NEW e \in Entry
    PROVE  RowByEid(e) \in DemoOrder \cup {NONE}
BY DEF Entry, RowByEid

\* A row that takes over the venue's figures stays a row.
LEMMA BookedType ==
    ASSUME NEW row \in DemoOrder, NEW snap \in Snapshot
    PROVE  Booked(row, snap) \in DemoOrder
BY ParsedAvgType DEF Booked, DemoOrder, Snapshot

\* Each session function maps entries to entries.
LEMMA UpsertType ==
    ASSUME NEW e \in Entry, NEW snap \in Snapshot
    PROVE  UpsertExchangeRecord(e, snap) \in Entry
<1>. USE NoneAssumption
<1>2. CASE e.own # NONE
    BY <1>2, BookedType DEF UpsertExchangeRecord, Entry, DemoOrder, Snapshot
<1>3. CASE e.own = NONE /\ e.backfill # NONE
    BY <1>3, BookedType DEF UpsertExchangeRecord, Entry
<1>4. CASE e.own = NONE /\ e.backfill = NONE
    BY <1>4, ParsedAvgType DEF UpsertExchangeRecord, Entry, DemoOrder, Snapshot
<1>. QED BY <1>2, <1>3, <1>4

\* A row that takes the fills of a poll stays a row.
LEMMA FilledByType ==
    ASSUME NEW side \in Frame, NEW row \in DemoOrder, NEW k \in 0..MaxContracts,
           NEW listed \in BOOLEAN, NEW st \in Status
    PROVE  FilledBy(side, row, k, listed, st) \in DemoOrder
BY FrameTypes DEF FilledBy, DemoOrder, Status, FillAvg

\* A poll's fills keep the entry an entry.
LEMMA ReconcileFillsType ==
    ASSUME NEW side \in Frame, NEW e \in Entry, NEW k \in 0..MaxContracts,
           NEW listed \in BOOLEAN, NEW st \in Status
    PROVE  ReconcileFills(side, e, k, listed, st) \in Entry
<1>. DEFINE row == FilledBy(side, RowByEid(e), k, listed, st)
            e1  == IF e.backfill # NONE THEN [e EXCEPT !.backfill = row]
                                        ELSE [e EXCEPT !.own = row]
<1>1. CASE k = 0 \/ RowByEid(e) = NONE
    BY <1>1 DEF ReconcileFills
<1>2. CASE ~(k = 0 \/ RowByEid(e) = NONE)
  <2>1. row \in DemoOrder
    BY <1>2, RowByEidType, FilledByType
  <2>2. e1 \in Entry
    BY <2>1 DEF Entry
  <2>3. PaperFromDemoRow(side, row) \in PaperTrade \cup {NONE}
    BY <2>1, PaperFromDemoRowType
  <2>4. InsertPaper(e1, PaperFromDemoRow(side, row)) \in Entry
    BY <2>2, <2>3, InsertPaperType
  <2>. QED BY <1>2, <2>4 DEF ReconcileFills
<1>. QED BY <1>1, <1>2

\* So does the adoption of the order found after a 409.
LEMMA IdempotentInsertType ==
    ASSUME NEW e \in Entry, NEW snap \in Snapshot, NEW n \in Contracts
    PROVE  IdempotentInsert(e, snap, n) \in Entry
<1>1. CASE e.own # NONE
    BY <1>1 DEF IdempotentInsert, Entry, DemoOrder, Snapshot
<1>2. CASE e.own = NONE /\ snap.named /\ e.backfill # NONE
    BY <1>2 DEF IdempotentInsert, Entry, DemoOrder, Snapshot
<1>3. CASE e.own = NONE /\ ~(snap.named /\ e.backfill # NONE)
    BY <1>3 DEF IdempotentInsert, Entry, DemoOrder, Snapshot
<1>. QED BY <1>1, <1>2, <1>3

\* Stitching needs the row that has the exchange id.
LEMMA StitchType ==
    ASSUME NEW side \in Frame, NEW e \in Entry, RowByEid(e) # NONE
    PROVE  Stitch(side, e) \in Entry
<1>. DEFINE survivor ==
              IF e.own = NONE
              THEN [e.backfill EXCEPT !.intent = TRUE]
              ELSE IF e.own.eid
              THEN [e.own EXCEPT !.intent = TRUE]
              ELSE [e.own EXCEPT !.eid    = TRUE,
                                 !.intent = TRUE,
                                 !.filled = e.backfill.filled,
                                 !.status = e.backfill.status,
                                 !.avg    = e.backfill.avg]
            e1 == [e EXCEPT !.own = survivor, !.backfill = NONE]
<1>1. survivor \in DemoOrder
    BY DEF Entry, DemoOrder, RowByEid
<1>2. e1 \in Entry
    BY <1>1 DEF Entry
<1>3. PaperFromDemoRow(side, survivor) \in PaperTrade \cup {NONE}
    BY <1>1, PaperFromDemoRowType
<1>4. InsertPaper(e1, PaperFromDemoRow(side, survivor)) \in Entry
    BY <1>2, <1>3, InsertPaperType
<1>. QED BY <1>4 DEF Stitch

\* So does the upsert of an accepted order,
LEMMA InsertDemoRowType ==
    ASSUME NEW e \in Entry, NEW snap \in Snapshot
    PROVE  InsertDemoRow(e, snap) \in Entry
<1>1. CASE e.own # NONE
    BY <1>1 DEF InsertDemoRow, Entry, DemoOrder
<1>2. CASE e.own = NONE
    BY <1>2, ParsedAvgType DEF InsertDemoRow, Entry, DemoOrder, Snapshot
<1>. QED BY <1>1, <1>2

\* and all that the evaluation commits of it.
LEMMA CommitOrderType ==
    ASSUME NEW side \in Frame, NEW e \in Entry, NEW snap \in Snapshot,
           NEW failed \in BOOLEAN
    PROVE  CommitOrder(side, e, snap, failed) \in Entry
<1>. DEFINE paid == InsertPaper(e, PaperFromDemoOrder(side, snap))
<1>1. PaperFromDemoOrder(side, snap) \in PaperTrade \cup {NONE}
    BY PaperFromDemoOrderType
<1>2. paid \in Entry
    BY <1>1, InsertPaperType
<1>. QED BY <1>2, StitchType, InsertDemoRowType DEF CommitOrder

-----------------------------------------------------------------------------
(***************************************************************************)
(* What happens to the row that is bound to the exchange id.               *)
(***************************************************************************)

\* The reconciler's row has the exchange id, and then no other row has it.
RowsOk(e) ==
    /\ e.own # NONE /\ e.own.eid => e.backfill = NONE
    /\ e.backfill # NONE => e.backfill.eid

\* The bound row stays bound, with the same fills and status.
KeepsBound(e, f) ==
    RowByEid(e) # NONE => /\ RowByEid(f) # NONE
                          /\ RowByEid(f).filled = RowByEid(e).filled
                          /\ RowByEid(f).status = RowByEid(e).status

\* paper_trades is written without touching demo_orders.
LEMMA InsertPaperRows ==
    ASSUME NEW e \in Entry, NEW trade
    PROVE  /\ InsertPaper(e, trade).own = e.own
           /\ InsertPaper(e, trade).backfill = e.backfill
           /\ RowByEid(InsertPaper(e, trade)) = RowByEid(e)
           /\ RowsOk(e) => RowsOk(InsertPaper(e, trade))
BY DEF Entry, InsertPaper, RowByEid, RowsOk

\* A stitched entry has one row, the bound one, which is the row that was
\* bound before.
LEMMA StitchRows ==
    ASSUME NEW side \in Frame, NEW e \in Entry, RowsOk(e), RowByEid(e) # NONE
    PROVE  RowsOk(Stitch(side, e)) /\ KeepsBound(e, Stitch(side, e))
<1>. DEFINE survivor ==
              IF e.own = NONE
              THEN [e.backfill EXCEPT !.intent = TRUE]
              ELSE IF e.own.eid
              THEN [e.own EXCEPT !.intent = TRUE]
              ELSE [e.own EXCEPT !.eid    = TRUE,
                                 !.intent = TRUE,
                                 !.filled = e.backfill.filled,
                                 !.status = e.backfill.status,
                                 !.avg    = e.backfill.avg]
            e1 == [e EXCEPT !.own = survivor, !.backfill = NONE]
<1>1. /\ survivor \in DemoOrder /\ survivor.eid
      /\ survivor.filled = RowByEid(e).filled
      /\ survivor.status = RowByEid(e).status
    BY DEF Entry, DemoOrder, RowByEid, RowsOk
<1>. HIDE DEF survivor
<1>2. e1 \in Entry /\ e1.own = survivor /\ e1.backfill = NONE
    BY <1>1 DEF Entry
<1>3. survivor # NONE
    BY <1>1, NoneAssumption
<1>4. RowsOk(e1) /\ RowByEid(e1) = survivor
    BY <1>1, <1>2, <1>3 DEF RowsOk, RowByEid
<1>5. Stitch(side, e) = InsertPaper(e1, PaperFromDemoRow(side, survivor))
    BY DEF Stitch, survivor
<1>. HIDE DEF e1
<1>. QED BY <1>1, <1>2, <1>3, <1>4, <1>5, InsertPaperRows DEF KeepsBound

\* What the evaluation commits leaves the fills and status of a bound row as
\* the reconciler wrote them.
LEMMA CommitOrderRows ==
    ASSUME NEW side \in Frame, NEW e \in Entry, RowsOk(e), NEW snap \in Snapshot,
           NEW failed \in BOOLEAN
    PROVE  /\ RowsOk(CommitOrder(side, e, snap, failed))
           /\ KeepsBound(e, CommitOrder(side, e, snap, failed))
<1>. DEFINE paid == InsertPaper(e, PaperFromDemoOrder(side, snap))
<1>1. paid \in Entry /\ RowsOk(paid) /\ RowByEid(paid) = RowByEid(e)
    BY PaperFromDemoOrderType, InsertPaperType, InsertPaperRows
<1>. HIDE DEF paid
<1>2. CASE ~failed /\ snap.named /\ RowByEid(paid) # NONE
  <2>1. CommitOrder(side, e, snap, failed) = Stitch(side, paid)
    BY <1>2 DEF CommitOrder, paid
  <2>. QED BY <1>1, <1>2, <2>1, StitchRows DEF KeepsBound
<1>3. CASE ~failed /\ ~(snap.named /\ RowByEid(paid) # NONE)
  <2>1. CommitOrder(side, e, snap, failed) = InsertDemoRow(paid, snap)
    BY <1>3 DEF CommitOrder, paid
  <2>2. CASE paid.own # NONE
    <3>. DEFINE row == [paid.own EXCEPT !.intent = TRUE]
    <3>1. row \in DemoOrder
      BY <1>1, <2>2 DEF Entry, DemoOrder
    <3>2. row # NONE
      BY <3>1, RowIsSome
    <3>3. /\ row.eid = paid.own.eid
          /\ row.filled = paid.own.filled /\ row.status = paid.own.status
      BY <1>1, <2>2 DEF Entry, DemoOrder
    <3>4. InsertDemoRow(paid, snap) = [paid EXCEPT !.own = row]
      BY <1>1, <2>2 DEF InsertDemoRow, Entry
    <3>. HIDE DEF row
    <3>. QED BY <1>1, <2>1, <2>2, <3>2, <3>3, <3>4
             DEF Entry, RowsOk, RowByEid, KeepsBound
  <2>3. CASE paid.own = NONE
    <3>. DEFINE row == [ eid       |-> snap.named,
                         intent    |-> TRUE,
                         requested |-> snap.requested,
                         filled    |-> snap.filled,
                         status    |-> snap.status,
                         avg       |-> ParsedAvg(snap.filled) ]
    <3>0. row \in DemoOrder
      BY ParsedAvgType DEF DemoOrder, Snapshot
    <3>1. row \in DemoOrder /\ row # NONE
      BY <3>0, RowIsSome
    <3>2. InsertDemoRow(paid, snap) = [paid EXCEPT !.own = row]
      BY <2>3 DEF InsertDemoRow
    <3>3. row.eid = snap.named
      OBVIOUS
    <3>. HIDE DEF row
    <3>. QED BY <1>1, <1>3, <2>1, <2>3, <3>1, <3>2, <3>3
             DEF Entry, RowsOk, RowByEid, KeepsBound
  <2>. QED BY <2>2, <2>3
<1>4. CASE failed
  <2>1. CommitOrder(side, e, snap, failed) = paid
    BY <1>4 DEF CommitOrder, paid
  <2>. QED BY <1>1, <2>1 DEF KeepsBound
<1>. QED BY <1>2, <1>3, <1>4

\* The adoption after a 409 keeps the fills of a bound row; its status may be
\* brought up to date.
LEMMA IdempotentInsertRows ==
    ASSUME NEW e \in Entry, RowsOk(e), NEW snap \in Snapshot, NEW n \in Contracts,
           ~InsertCollides(e, snap)
    PROVE  LET f == IdempotentInsert(e, snap, n) IN
           /\ RowsOk(f)
           /\ RowByEid(e) # NONE =>
                 /\ RowByEid(f) # NONE
                 /\ RowByEid(f).filled = RowByEid(e).filled
                 /\ RowByEid(f).status \in {RowByEid(e).status, snap.status}
<1>. DEFINE f == IdempotentInsert(e, snap, n)
<1>1. CASE e.own # NONE
  <2>. DEFINE row == [e.own EXCEPT !.eid = @ \/ snap.named, !.status = snap.status]
  <2>1. row \in DemoOrder /\ row # NONE
    BY <1>1, NoneAssumption DEF Entry, DemoOrder, Snapshot
  <2>2. /\ row.eid = (e.own.eid \/ snap.named)
        /\ row.filled = e.own.filled /\ row.status = snap.status
    BY <1>1 DEF Entry, DemoOrder, Snapshot
  <2>3. f = [e EXCEPT !.own = row]
    BY <1>1 DEF IdempotentInsert, Entry
  <2>4. f.own = row /\ f.backfill = e.backfill
    BY <2>3 DEF Entry
  <2>. HIDE DEF row, f
  <2>5. e.backfill # NONE => ~row.eid
    BY <1>1, <2>2 DEF InsertCollides, RowsOk
  <2>6. RowsOk(f)
    BY <2>4, <2>5 DEF RowsOk
  <2>7. CASE e.backfill # NONE
    BY <2>4, <2>6, <2>7 DEF RowByEid, f
  <2>8. CASE e.backfill = NONE
    BY <1>1, <2>1, <2>2, <2>4, <2>6, <2>8 DEF RowByEid, f
  <2>. QED BY <2>6, <2>7, <2>8 DEF f
<1>2. CASE e.own = NONE /\ snap.named /\ e.backfill # NONE
  <2>. DEFINE row == [e.backfill EXCEPT !.intent    = TRUE,
                                        !.requested = n,
                                        !.status    = snap.status]
  <2>0. row \in DemoOrder
    BY <1>2 DEF Entry, DemoOrder, Snapshot
  <2>1. row \in DemoOrder /\ row # NONE
    BY <2>0, RowIsSome
  <2>2. row.eid /\ row.filled = e.backfill.filled /\ row.status = snap.status
    BY <1>2 DEF Entry, DemoOrder, RowsOk
  <2>3. f = [e EXCEPT !.own = row, !.backfill = NONE]
    BY <1>2 DEF IdempotentInsert
  <2>4. f.own = row /\ f.backfill = NONE
    BY <2>3 DEF Entry
  <2>. HIDE DEF row, f
  <2>. QED BY <1>2, <2>1, <2>2, <2>4 DEF RowByEid, RowsOk, f
<1>3. CASE e.own = NONE /\ ~(snap.named /\ e.backfill # NONE)
  <2>. DEFINE row == [ eid       |-> snap.named,
                       intent    |-> TRUE,
                       requested |-> n,
                       filled    |-> snap.filled,
                       status    |-> snap.status,
                       avg       |-> NONE ]
  <2>0. row \in DemoOrder
    BY DEF DemoOrder, Snapshot
  <2>1. row \in DemoOrder /\ row # NONE /\ row.eid = snap.named
    BY <2>0, RowIsSome
  <2>2. f = [e EXCEPT !.own = row]
    BY <1>3 DEF IdempotentInsert
  <2>3. f.own = row /\ f.backfill = e.backfill
    BY <2>2 DEF Entry
  <2>. HIDE DEF row, f
  <2>. QED BY <1>3, <2>1, <2>3 DEF RowByEid, RowsOk, f
<1>. QED BY <1>1, <1>2, <1>3

\* An order that is listed leaves the reconcile with a bound row that has the
\* venue's status, and its fills unless the poll's fills are others.
LEMMA UpsertRows ==
    ASSUME NEW e \in Entry, RowsOk(e), NEW snap \in Snapshot, snap.named,
           ~UpsertCollides(e, snap)
    PROVE  LET f == UpsertExchangeRecord(e, snap) IN
           /\ RowsOk(f) /\ RowByEid(f) # NONE
           /\ RowByEid(f).filled = snap.filled
           /\ RowByEid(f).status = snap.status
<1>. DEFINE f == UpsertExchangeRecord(e, snap)
<1>0. f \in Entry
    BY UpsertType
<1>1. CASE e.own # NONE
  <2>. DEFINE row == [Booked(e.own, snap) EXCEPT !.eid = @ \/ snap.named]
  <2>1. Booked(e.own, snap) \in DemoOrder
    BY <1>1, BookedType DEF Entry
  <2>2. row \in DemoOrder /\ row # NONE /\ row.eid
    BY <2>1, NoneAssumption DEF DemoOrder
  <2>3. row.filled = snap.filled /\ row.status = snap.status
    BY <1>1, <2>1 DEF Booked, Entry, DemoOrder
  <2>4. f = [e EXCEPT !.own = row]
    BY <1>1 DEF UpsertExchangeRecord
  <2>5. f.own = row /\ f.backfill = e.backfill
    BY <2>4 DEF Entry
  <2>6. e.backfill = NONE
    BY <1>1 DEF RowsOk, UpsertCollides
  <2>. HIDE DEF row, f
  <2>. QED BY <2>2, <2>3, <2>5, <2>6 DEF RowByEid, RowsOk, f
<1>2. CASE e.own = NONE /\ e.backfill # NONE
  <2>. DEFINE row == Booked(e.backfill, snap)
  <2>1. row \in DemoOrder /\ row # NONE
    BY <1>2, BookedType, NoneAssumption DEF Entry
  <2>2. row.eid /\ row.filled = snap.filled /\ row.status = snap.status
    BY <1>2 DEF Booked, Entry, DemoOrder, RowsOk
  <2>3. f = [e EXCEPT !.backfill = row]
    BY <1>2 DEF UpsertExchangeRecord
  <2>4. f.own = NONE /\ f.backfill = row
    BY <1>2, <2>3 DEF Entry
  <2>. HIDE DEF row, f
  <2>. QED BY <2>1, <2>2, <2>4 DEF RowByEid, RowsOk, f
<1>3. CASE e.own = NONE /\ e.backfill = NONE
  <2>. DEFINE row == [ eid       |-> TRUE,
                       intent    |-> FALSE,
                       requested |-> snap.requested,
                       filled    |-> snap.filled,
                       status    |-> snap.status,
                       avg       |-> ParsedAvg(snap.filled) ]
  <2>0. row \in DemoOrder
    BY ParsedAvgType DEF DemoOrder, Snapshot
  <2>1. row \in DemoOrder /\ row # NONE
    BY <2>0, RowIsSome
  <2>2. row.eid /\ row.filled = snap.filled /\ row.status = snap.status
    OBVIOUS
  <2>3. f = [e EXCEPT !.backfill = row]
    BY <1>3 DEF UpsertExchangeRecord
  <2>4. f.own = NONE /\ f.backfill = row
    BY <1>3, <2>3 DEF Entry
  <2>. HIDE DEF row, f
  <2>. QED BY <2>1, <2>2, <2>4 DEF RowByEid, RowsOk, f
<1>. QED BY <1>1, <1>2, <1>3

\* The fills of a poll replace those of the bound row.
LEMMA ReconcileFillsRows ==
    ASSUME NEW side \in Frame, NEW e \in Entry, RowsOk(e), NEW k \in 0..MaxContracts,
           NEW listed \in BOOLEAN, NEW st \in Status
    PROVE  LET f == ReconcileFills(side, e, k, listed, st) IN
           /\ RowsOk(f)
           /\ k = 0 => f = e
           /\ RowByEid(e) # NONE /\ k # 0 =>
                 /\ RowByEid(f) # NONE
                 /\ RowByEid(f).filled = k
                 /\ listed => RowByEid(f).status = st
<1>. DEFINE f   == ReconcileFills(side, e, k, listed, st)
            row == FilledBy(side, RowByEid(e), k, listed, st)
            e1  == IF e.backfill # NONE THEN [e EXCEPT !.backfill = row]
                                        ELSE [e EXCEPT !.own = row]
<1>1. CASE k = 0 \/ RowByEid(e) = NONE
    BY <1>1 DEF ReconcileFills
<1>2. CASE ~(k = 0 \/ RowByEid(e) = NONE)
  <2>1. row \in DemoOrder /\ row # NONE
    BY <1>2, RowByEidType, FilledByType, NoneAssumption
  <2>2. RowByEid(e) \in DemoOrder /\ RowByEid(e).eid
    BY <1>2, RowByEidType DEF RowByEid, RowsOk
  <2>3. row.eid /\ row.filled = k /\ (listed => row.status = st)
    BY <2>2 DEF FilledBy, DemoOrder
  <2>4. f = InsertPaper(e1, PaperFromDemoRow(side, row))
    BY <1>2 DEF ReconcileFills
  <2>. HIDE DEF row, f
  <2>5. e1 \in Entry /\ RowsOk(e1) /\ RowByEid(e1) = row
    BY <1>2, <2>1, <2>3 DEF Entry, RowsOk, RowByEid
  <2>. HIDE DEF e1
  <2>. QED BY <1>2, <2>1, <2>3, <2>4, <2>5, InsertPaperRows DEF f
<1>. QED BY <1>1, <1>2

-----------------------------------------------------------------------------
(***************************************************************************)
(* Type correctness.  TypeOK is not inductive: a request in flight names   *)
(* an order, an order that was refused as a duplicate or seen by a poll is *)
(* at the venue.                                                           *)
(***************************************************************************)
InFlightOk ==
    /\ eval.pc # "idle" => eval.order \in Orders
    /\ eval.pc = "conflict" => Placed(eval.order)
    /\ \A o \in rec.orders : Placed(o)
    /\ rec.pc # "orders" => rec.orders = {}

TypeInv == TypeOK /\ InFlightOk

\* The order payloads of a venue order are snapshots.
LEMMA SnapshotTypes ==
    ASSUME NEW x \in VenueOrder
    PROVE  /\ VenueStatus(x) \in Status
           /\ \A b \in BOOLEAN : FinalSnapshot(x, b) \in Snapshot
           /\ Snapshots(x) \subseteq Snapshot
<1>1. VenueStatus(x) \in Status
    BY DEF VenueStatus, Status
<1>2. \A b \in BOOLEAN : FinalSnapshot(x, b) \in Snapshot
    BY <1>1 DEF FinalSnapshot, VenueOrder, Snapshot
<1>3. \A b \in BOOLEAN : EarlySnapshot(x, b) \in Snapshot
    BY NoneAssumption DEF EarlySnapshot, VenueOrder, Snapshot, Status
<1>. QED BY <1>1, <1>2, <1>3 DEF Snapshots

\* A new order is a venue order.
LEMMA NewOrderType ==
    ASSUME TypeOK, NEW n \in Contracts, NEW f \in 0..n
    PROVE  NewOrder(n, f) \in VenueOrder
BY NoneAssumption DEF NewOrder, VenueOrder, TypeOK, Contracts

\* The side of an order is a frame.
LEMMA SideType == \A o : SideOf(o) \in Frame
BY DEF SideOf, Frame

\* The evaluation between two calls, and between two cycles.
LEMMA EvalIdleType ==
    ASSUME NEW tried \in SUBSET Orders,
           NEW results \in [Orders -> Snapshot \cup {NONE}]
    PROVE  /\ EvalIdle(tried, results) \in
                [ pc        : {"idle", "posted", "created", "conflict"},
                  order     : Orders \cup {NONE},
                  contracts : Contracts,
                  reply     : Snapshot \cup {NONE},
                  tried     : SUBSET Orders,
                  results   : [Orders -> Snapshot \cup {NONE}] ]
           /\ EvalIdle(tried, results).pc = "idle"
BY NoneAssumption DEF EvalIdle, Contracts

\* An evaluation that starts a cycle has planned nothing.
LEMMA NoCycleType ==
    /\ NoCycle \in [ pc        : {"idle", "posted", "created", "conflict"},
                     order     : Orders \cup {NONE},
                     contracts : Contracts,
                     reply     : Snapshot \cup {NONE},
                     tried     : SUBSET Orders,
                     results   : [Orders -> Snapshot \cup {NONE}] ]
    /\ NoCycle.pc = "idle"
BY EvalIdleType DEF NoCycle

\* A reconciler between two cycles has nothing in hand.
LEMMA RecIdleType ==
    /\ RecIdle \in [ pc      : {"idle", "fills", "orders"},
                     started : Int,
                     fills   : [Orders -> 0..MaxContracts],
                     orders  : SUBSET Orders ]
    /\ RecIdle.orders = {} /\ RecIdle.pc = "idle"
BY NoneAssumption DEF RecIdle

\* What a reconcile makes of an entry is an entry.
LEMMA ReconciledType ==
    ASSUME TypeInv, NEW o \in Orders
    PROVE  Reconciled(o, demo_orders[o]) \in Entry
<1>. DEFINE listed == o \in rec.orders
            seen   == IF listed
                      THEN UpsertExchangeRecord(demo_orders[o], FinalSnapshot(exch[o], TRUE))
                      ELSE demo_orders[o]
            status == IF listed THEN VenueStatus(exch[o]) ELSE "executed"
<1>0. listed \in BOOLEAN
    OBVIOUS
<1>1. listed => exch[o] \in VenueOrder
    BY DEF TypeInv, TypeOK, InFlightOk, Placed
<1>2. status \in Status
    BY <1>1, SnapshotTypes DEF Status
<1>3. seen \in Entry
    BY <1>1, SnapshotTypes, UpsertType DEF TypeInv, TypeOK
<1>4. rec.fills[o] \in 0..MaxContracts
    BY DEF TypeInv, TypeOK
<1>. HIDE DEF listed, seen, status
<1>5. ReconcileFills(SideOf(o), seen, rec.fills[o], listed, status) \in Entry
    BY <1>0, <1>2, <1>3, <1>4, SideType, ReconcileFillsType
<1>. QED BY <1>5 DEF Reconciled, listed, seen, status

\* Empty tables and no orders are well formed.
LEMMA TypeInit == Init => TypeInv
BY NoneAssumption, OrdersAssumption, NoCycleType, RecIdleType
   DEF Init, TypeInv, TypeOK, InFlightOk, EmptyEntry, Entry

\* The venue's steps change orders and listings only, and keep both well formed.
LEMMA TypeVenue == TypeInv /\ Venue => TypeInv'
<1>. SUFFICES ASSUME TypeInv, Venue PROVE TypeInv'
    OBVIOUS
<1>. USE DEF venueVars, dbVars
<1>1. CASE Tick
    BY <1>1 DEF Tick, TypeInv, TypeOK, InFlightOk, Placed
<1>2. CASE Accept
  <2>1. PICK f \in 0..eval.contracts :
            LET x == NewOrder(eval.contracts, f) IN
            /\ exch' = [exch EXCEPT ![eval.order] = x]
            /\ \E s \in Snapshots(x) :
                  eval' = [eval EXCEPT !.pc = "created", !.reply = s]
    BY <1>2 DEF Accept
  <2>. DEFINE x == NewOrder(eval.contracts, f)
  <2>2. x \in VenueOrder
    BY NewOrderType DEF TypeInv, TypeOK
  <2>3. PICK s \in Snapshots(x) :
            eval' = [eval EXCEPT !.pc = "created", !.reply = s]
    BY <2>1
  <2>4. s \in Snapshot
    BY <2>2, SnapshotTypes
  <2>5. x # NONE
    BY <2>2, OrdersAssumption
  <2>. HIDE DEF x
  <2>6. exch' \in [Orders -> VenueOrder \cup {NONE}]
    BY <2>1, <2>2 DEF TypeInv, TypeOK, x
  <2>7. \A o \in Orders : Placed(o) => Placed(o)'
    BY <2>1, <2>5 DEF TypeInv, TypeOK, Placed, x
  <2>8. rec' = rec /\ eval.pc = "posted"
    BY <1>2 DEF Accept
  <2>9. TypeOK'
    BY <1>2, <2>3, <2>4, <2>6 DEF Accept, TypeInv, TypeOK
  <2>10. InFlightOk'
    BY <2>3, <2>7, <2>8 DEF TypeInv, TypeOK, InFlightOk
  <2>. QED BY <2>9, <2>10 DEF TypeInv
<1>3. CASE Conflict
    BY <1>3 DEF Conflict, TypeInv, TypeOK, InFlightOk, Placed
<1>4. ASSUME NEW o \in Orders, PublishOrder(o) \/ PublishFill(o)
      PROVE  TypeInv'
  <2>1. PICK x \in VenueOrder : exch' = [exch EXCEPT ![o] = x]
    <3>1. exch[o] \in VenueOrder
      BY <1>4 DEF PublishOrder, PublishFill, Placed, TypeInv, TypeOK
    <3>2. CASE PublishOrder(o)
      <4>. DEFINE x == [exch[o] EXCEPT !.listed = TRUE]
      <4>1. x \in VenueOrder
        BY <3>1 DEF VenueOrder
      <4>. QED BY <3>2, <4>1 DEF PublishOrder
    <3>3. CASE PublishFill(o)
      <4>. DEFINE x == [exch[o] EXCEPT !.fills = @ + 1]
      <4>1. x \in VenueOrder
        BY <3>1, <3>3, NoneAssumption DEF VenueOrder, PublishFill
      <4>. QED BY <3>3, <4>1 DEF PublishFill
    <3>. QED BY <1>4, <3>2, <3>3
  <2>2. x # NONE
    BY OrdersAssumption
  <2>. QED BY <1>4, <2>1, <2>2
           DEF PublishOrder, PublishFill, TypeInv, TypeOK, InFlightOk, Placed
<1>6. ASSUME NEW o \in Orders, NEW n \in Contracts, AcceptStale(o, n)
      PROVE  TypeInv'
  <2>1. CASE Placed(o)
    BY <1>6, <2>1 DEF AcceptStale, TypeInv, TypeOK, InFlightOk, Placed
  <2>2. CASE ~Placed(o)
    <3>1. PICK f \in 0..n : exch' = [exch EXCEPT ![o] = NewOrder(n, f)]
      BY <1>6, <2>2 DEF AcceptStale
    <3>2. NewOrder(n, f) \in VenueOrder
      BY NewOrderType DEF TypeInv
    <3>3. NewOrder(n, f) # NONE
      BY <3>2, OrdersAssumption
    <3>. QED BY <1>6, <3>1, <3>2, <3>3
             DEF AcceptStale, TypeInv, TypeOK, InFlightOk, Placed
  <2>. QED BY <2>1, <2>2
<1>. QED BY <1>1, <1>2, <1>3, <1>4, <1>6 DEF Venue

\* The call that ends leaves nothing in flight.
LEMMA EndCallType ==
    ASSUME NEW tried \in SUBSET Orders,
           NEW results \in [Orders -> Snapshot \cup {NONE}],
           TypeInv, UNCHANGED <<clock, exch, last_poll_ts, watermark, phase, rec>>,
           stale' \subseteq Orders \X Contracts,
           demo_orders' \in [Orders -> Entry],
           committed' \in [Orders -> Commitment \cup {NONE}],
           eval' = EvalIdle(tried, results)
    PROVE  TypeInv'
BY EvalIdleType DEF TypeInv, TypeOK, InFlightOk, Placed

\* What a crash or a timeout leaves at the venue are requests of the evaluation.
LEMMA AbandonedType == TypeInv => Abandoned \subseteq Orders \X Contracts
BY DEF TypeInv, TypeOK, InFlightOk, Abandoned

\* A step of the evaluation keeps the types, one lemma of DemoRows per write.
LEMMA TypeEvaluation == TypeInv /\ Evaluation => TypeInv'
<1>. SUFFICES ASSUME TypeInv, Evaluation PROVE TypeInv'
    OBVIOUS
<1>. USE DEF venueVars, dbVars
<1>0. eval.tried \in SUBSET Orders /\ eval.results \in [Orders -> Snapshot \cup {NONE}]
    BY DEF TypeInv, TypeOK
<1>1. ASSUME NEW o \in Orders, NEW n \in Contracts, EvalPost(o, n)
      PROVE  TypeInv'
    BY <1>1 DEF EvalPost, TypeInv, TypeOK, InFlightOk, Placed
<1>2. CASE EvalCreated
  <2>1. [eval.results EXCEPT ![eval.order] = eval.reply]
            \in [Orders -> Snapshot \cup {NONE}]
    BY <1>0 DEF TypeInv, TypeOK
  <2>. QED BY <1>0, <1>2, <2>1, EndCallType DEF EvalCreated, EndCall, TypeInv, TypeOK
<1>3. CASE EvalRejected
    BY <1>0, <1>3, EndCallType DEF EvalRejected, EndCall, TypeInv, TypeOK
<1>4. CASE EvalRaises
    BY <1>0, <1>4, AbandonedType, EndCallType DEF EvalRaises, EndCall, TypeInv, TypeOK
<1>5. CASE EvalConflict
  <2>1. eval.order \in Orders /\ exch[eval.order] \in VenueOrder
    BY <1>5 DEF EvalConflict, TypeInv, TypeOK, InFlightOk, Placed
  <2>2. PICK named \in BOOLEAN :
            LET o    == eval.order
                e    == demo_orders[o]
                snap == FinalSnapshot(exch[o], named)
            IN  IF Adoptable(o, eval.contracts) /\ ~InsertCollides(e, snap)
                THEN demo_orders' = [demo_orders EXCEPT ![o] =
                                       IdempotentInsert(e, snap, eval.contracts)]
                ELSE UNCHANGED demo_orders
    BY <1>5 DEF EvalConflict
  <2>3. IdempotentInsert(demo_orders[eval.order],
                         FinalSnapshot(exch[eval.order], named), eval.contracts) \in Entry
    BY <2>1, SnapshotTypes, IdempotentInsertType DEF TypeInv, TypeOK
  <2>4. demo_orders' \in [Orders -> Entry]
    BY <2>2, <2>3 DEF TypeInv, TypeOK
  <2>. QED BY <1>0, <1>5, <2>4, EndCallType DEF EvalConflict, EndCall, TypeInv, TypeOK
<1>6. CASE EvalCommit
  <2>1. \A o \in Accepted, b \in BOOLEAN :
            CommitOrder(SideOf(o), demo_orders[o], eval.results[o], b) \in Entry
    BY <1>0, SideType, CommitOrderType DEF Accepted, TypeInv, TypeOK
  <2>2. demo_orders' \in [Orders -> Entry]
    <3>1. PICK failed \in SUBSET Accepted :
              demo_orders' = [o \in Orders |->
                IF o \in Accepted
                THEN CommitOrder(SideOf(o), demo_orders[o], eval.results[o], o \in failed)
                ELSE demo_orders[o]]
      BY <1>6 DEF EvalCommit
    <3>2. \A o \in Accepted : (o \in failed) \in BOOLEAN
      OBVIOUS
    <3>. QED BY <2>1, <3>1, <3>2 DEF TypeInv, TypeOK
  <2>3. committed' \in [Orders -> Commitment \cup {NONE}]
    BY <1>6 DEF EvalCommit, Commitment, TypeInv, TypeOK
  <2>. QED BY <1>6, <2>2, <2>3, NoCycleType
           DEF EvalCommit, TypeInv, TypeOK, InFlightOk, Placed
<1>7. CASE EvalAborts
    BY <1>7, NoCycleType DEF EvalAborts, TypeInv, TypeOK, InFlightOk, Placed
<1>. QED BY <1>1, <1>2, <1>3, <1>4, <1>5, <1>6, <1>7 DEF Evaluation

\* A step of the reconciler keeps the types.
LEMMA TypeReconciler == TypeInv /\ Reconciler => TypeInv'
<1>. SUFFICES ASSUME TypeInv, Reconciler PROVE TypeInv'
    OBVIOUS
<1>. USE DEF venueVars, dbVars
<1>1. CASE PollFills
  <2>. DEFINE seen == [o \in Orders |-> IF Placed(o) /\ exch[o].at >= watermark
                                        THEN exch[o].fills ELSE 0]
  <2>1. seen \in [Orders -> 0..MaxContracts]
    BY NoneAssumption DEF TypeInv, TypeOK, VenueOrder, Placed
  <2>2. clock - Overlap \in Int
    BY OverlapCoversLag DEF TypeInv, TypeOK
  <2>3. rec' = [rec EXCEPT !.pc = "fills", !.started = clock - Overlap, !.fills = seen]
    BY <1>1 DEF PollFills
  <2>. HIDE DEF seen
  <2>. QED BY <1>1, <2>1, <2>2, <2>3 DEF PollFills, TypeInv, TypeOK, InFlightOk, Placed
<1>2. CASE PollOrders
  <2>. DEFINE seen == {o \in Orders : /\ Placed(o) /\ exch[o].listed
                                      /\ exch[o].at >= watermark}
  <2>1. seen \in SUBSET Orders /\ \A o \in seen : Placed(o)
    OBVIOUS
  <2>2. rec' = [rec EXCEPT !.pc = "orders", !.orders = seen]
    BY <1>2 DEF PollOrders
  <2>. HIDE DEF seen
  <2>. QED BY <1>2, <2>1, <2>2 DEF PollOrders, TypeInv, TypeOK, InFlightOk, Placed
<1>3. CASE RecCommit
  <2>1. demo_orders' \in [Orders -> Entry]
    BY <1>3, ReconciledType DEF RecCommit
  <2>2. rec.started \in Int /\ rec' = RecIdle
    BY <1>3 DEF RecCommit, TypeInv, TypeOK
  <2>. QED BY <1>3, <2>1, <2>2, RecIdleType
           DEF RecCommit, TypeInv, TypeOK, InFlightOk, Placed
<1>4. CASE RecFails
    BY <1>4, RecIdleType DEF RecFails, TypeInv, TypeOK, InFlightOk, Placed
<1>. QED BY <1>1, <1>2, <1>3, <1>4 DEF Reconciler

\* A crash, a boot and its check keep the types.
LEMMA TypeProcess == TypeInv /\ Process => TypeInv'
<1>. SUFFICES ASSUME TypeInv, Process PROVE TypeInv'
    OBVIOUS
<1>. USE DEF venueVars, dbVars
<1>1. CASE Boot
    BY <1>1, OrdersAssumption DEF Boot, TypeInv, TypeOK, InFlightOk, Placed
<1>2. CASE BootCheck
    BY <1>2 DEF BootCheck, TypeInv, TypeOK, InFlightOk, Placed
<1>3. CASE Crash
    BY <1>3, NoCycleType, RecIdleType, AbandonedType
       DEF Crash, TypeInv, TypeOK, InFlightOk, Placed
<1>. QED BY <1>1, <1>2, <1>3 DEF Process

\* The type invariant is inductive.
LEMMA TypeStep == TypeInv /\ [Next]_vars => TypeInv'
<1>1. TypeInv /\ UNCHANGED vars => TypeInv'
    BY DEF vars, venueVars, dbVars, TypeInv, TypeOK, InFlightOk, Placed
<1>. QED BY <1>1, TypeVenue, TypeEvaluation, TypeReconciler, TypeProcess DEF Next

\* The tables only ever hold well-formed rows, and a request in flight is one
\* of the evaluation's own.
THEOREM TypeCorrect == Spec => []TypeOK
<1>1. Spec => []TypeInv
    BY TypeInit, TypeStep, PTL DEF Spec
<1>2. TypeInv => TypeOK
    BY DEF TypeInv
<1>. QED BY <1>1, <1>2, PTL

-----------------------------------------------------------------------------
(***************************************************************************)
(* The watermark.  BehindWatermark needs to know, besides the types:       *)
(*   - which row is bound to the exchange id (RowsOk),                     *)
(*   - that the venue's lag is over for whatever is Lag ticks old and that *)
(*     a running process polls from the persisted watermark (TimeOk),      *)
(*   - that the first reconcile precedes the first order (FirstPollFirst), *)
(*   - that a poll in progress has seen all it will move the watermark     *)
(*     over (PollOk).                                                      *)
(***************************************************************************)
TimeOk ==
    /\ \A o \in Orders : Placed(o) =>
          /\ exch[o].at <= clock
          /\ exch[o].at + Lag < clock => Published(o)
    /\ last_poll_ts # NONE =>
          /\ last_poll_ts <= clock
          /\ phase # "down" => watermark = last_poll_ts

FirstPollFirst ==
    /\ eval.pc # "idle" => phase = "run"
    /\ last_poll_ts = NONE =>
          /\ \A o \in Orders : ~Placed(o)
          /\ stale = {}
          /\ phase \in {"down", "boot"}

\* The order is asked for by the poll in progress.
Asked(o) == Placed(o) /\ exch[o].at >= watermark

PollOk ==
    rec.pc # "idle" =>
        /\ phase \in {"boot", "run"}
        /\ rec.started <= clock - Overlap
        /\ \A o \in Orders :
              /\ Asked(o) /\ exch[o].at < rec.started =>
                    /\ exch[o].listed /\ rec.fills[o] = exch[o].filled
                    /\ rec.pc = "orders" => o \in rec.orders
              /\ ~Asked(o) => rec.fills[o] = 0 /\ o \notin rec.orders

RowsInv == \A o \in Orders : RowsOk(demo_orders[o])

PollInv == TimeOk /\ FirstPollFirst /\ PollOk

WatermarkInv == TypeInv /\ PollInv /\ RowsInv /\ BehindWatermark

\* Before the first order there is nothing behind the watermark.
LEMMA WatermarkInit == Init => WatermarkInv
BY TypeInit, NoneAssumption, OrdersAssumption
   DEF Init, WatermarkInv, PollInv, TimeOk, FirstPollFirst, PollOk, RowsInv, RowsOk,
       EmptyEntry, BehindWatermark, Behind, Placed, NoCycle, EvalIdle, RecIdle

\* A new order bears the present time, an order of the venue never changes
\* but for its listings.
VenueKeeps ==
    \A o \in Orders :
        /\ Placed(o) => /\ exch'[o].at = exch[o].at
                        /\ exch'[o].filled = exch[o].filled
                        /\ exch'[o].requested = exch[o].requested
                        /\ exch[o].listed => exch'[o].listed
                        /\ exch[o].fills = exch[o].filled =>
                              exch'[o].fills = exch'[o].filled
                        /\ exch'[o] # NONE
        /\ ~Placed(o) => exch'[o] = NONE \/ exch'[o].at = clock

\* Whatever the venue does but letting time pass, PollInv and
\* BehindWatermark stay.
LEMMA VenueSteps ==
    ASSUME WatermarkInv, TypeInv', VenueKeeps,
           last_poll_ts # NONE, clock' = clock, stale' \subseteq stale,
           UNCHANGED <<demo_orders, last_poll_ts, watermark, phase, rec>>,
           eval'.pc # "idle" => eval.pc # "idle"
    PROVE  PollInv' /\ RowsInv' /\ BehindWatermark'
<1>. USE DEF WatermarkInv, PollInv
<1>1. clock \in Nat /\ Lag \in Nat /\ Overlap \in Nat /\ last_poll_ts \in Int
      /\ watermark \in Int /\ rec.started \in Int
    BY OverlapCoversLag DEF TypeInv, TypeOK
<1>2. \A o \in Orders : Placed(o) => exch[o].at \in Nat
    BY DEF TypeInv, TypeOK, VenueOrder, Placed
<1>3. TimeOk'
    BY <1>1, <1>2 DEF TimeOk, VenueKeeps, Placed, Published
<1>4. FirstPollFirst'
    BY DEF FirstPollFirst
<1>5. PollOk'
  <2>. SUFFICES ASSUME rec.pc # "idle" PROVE PollOk'
    BY DEF PollOk
  <2>1. last_poll_ts <= clock /\ watermark = last_poll_ts
    BY DEF TimeOk, PollOk
  <2>2. rec.started <= clock - Overlap
    BY DEF PollOk
  <2>3. ASSUME NEW o \in Orders, Placed(o)
        PROVE  /\ Asked(o)' <=> Asked(o)
               /\ Asked(o) /\ exch'[o].at < rec.started =>
                     /\ exch'[o].listed /\ rec.fills[o] = exch'[o].filled
                     /\ rec.pc = "orders" => o \in rec.orders
               /\ ~Asked(o) => rec.fills[o] = 0 /\ o \notin rec.orders
    BY <2>3 DEF PollOk, Asked, VenueKeeps, Placed
  <2>4. ASSUME NEW o \in Orders, ~Placed(o)
        PROVE  /\ ~(Asked(o)' /\ exch'[o].at < rec.started)
               /\ rec.fills[o] = 0 /\ o \notin rec.orders
    BY <1>1, <2>2, <2>4 DEF PollOk, Asked, VenueKeeps, Placed
  <2>. QED BY <2>2, <2>3, <2>4 DEF PollOk, Asked, Placed
<1>6. RowsInv'
    BY DEF RowsInv
<1>7. BehindWatermark'
  <2>1. last_poll_ts <= clock
    BY DEF TimeOk
  <2>2. ASSUME NEW o \in Orders, Behind(o, last_poll_ts)' PROVE Behind(o, last_poll_ts)
    BY <1>1, <1>2, <2>1, <2>2 DEF Behind, VenueKeeps, Placed
  <2>3. ASSUME NEW o \in Orders, Behind(o, last_poll_ts)
        PROVE  Mirrored(o)'
    BY <2>3 DEF BehindWatermark, Behind, Mirrored, Mirrors, VenueStatus, VenueKeeps
  <2>. QED BY <2>2, <2>3 DEF BehindWatermark
<1>. QED BY <1>3, <1>4, <1>5, <1>6, <1>7

\* What the venue books or lists is newer than the overlap allows to miss.
LEMMA WatermarkVenue == WatermarkInv /\ Venue => WatermarkInv'
<1>. SUFFICES ASSUME WatermarkInv, Venue PROVE WatermarkInv'
    OBVIOUS
<1>. USE DEF venueVars, dbVars
<1>0. TypeInv /\ TypeInv'
    BY TypeVenue DEF WatermarkInv
<1>1. CASE Tick
  <2>0. clock \in Nat /\ Lag \in Nat /\ Overlap \in Nat
        /\ (last_poll_ts # NONE => last_poll_ts \in Int) /\ rec.started \in Int
    BY <1>0, OverlapCoversLag DEF TypeInv, TypeOK
  <2>1. \A o \in Orders : Placed(o) => exch[o].at \in Nat
    BY <1>0 DEF TypeInv, TypeOK, VenueOrder, Placed
  <2>2. \A o \in Orders : Placed(o) /\ exch[o].at + Lag < clock + 1 => Published(o)
    BY <1>1, <2>0, <2>1 DEF Tick
  <2>3. TimeOk'
    BY <1>1, <2>0, <2>1, <2>2 DEF Tick, WatermarkInv, PollInv, TimeOk, Placed, Published
  <2>4. FirstPollFirst' /\ RowsInv' /\ BehindWatermark'
    BY <1>1 DEF Tick, WatermarkInv, PollInv, FirstPollFirst, RowsInv, BehindWatermark,
                Behind, Mirrored, Placed
  <2>5. PollOk'
    BY <1>1, <2>0 DEF Tick, WatermarkInv, PollInv, PollOk, Asked, Placed
  <2>. QED BY <1>0, <2>3, <2>4, <2>5 DEF WatermarkInv, PollInv
<1>2. CASE Accept
  <2>1. PICK f \in 0..eval.contracts :
            exch' = [exch EXCEPT ![eval.order] = NewOrder(eval.contracts, f)]
    BY <1>2 DEF Accept
  <2>2. NewOrder(eval.contracts, f).at = clock
    BY DEF NewOrder
  <2>3. VenueKeeps
    BY <1>0, <1>2, <2>1, <2>2 DEF Accept, VenueKeeps, Placed, TypeInv, TypeOK
  <2>4. last_poll_ts # NONE /\ eval.pc # "idle"
    BY <1>2 DEF Accept, WatermarkInv, PollInv, FirstPollFirst
  <2>5. UNCHANGED <<demo_orders, last_poll_ts, watermark, phase, rec, clock, stale>>
    BY <1>2 DEF Accept
  <2>. QED BY <1>0, <2>3, <2>4, <2>5, VenueSteps DEF WatermarkInv
<1>3. CASE Conflict
  <2>1. VenueKeeps
    BY <1>3 DEF Conflict, VenueKeeps, Placed
  <2>2. last_poll_ts # NONE /\ eval.pc # "idle"
    BY <1>3 DEF Conflict, WatermarkInv, PollInv, FirstPollFirst
  <2>3. UNCHANGED <<demo_orders, last_poll_ts, watermark, phase, rec, clock, stale>>
    BY <1>3 DEF Conflict
  <2>. QED BY <1>0, <2>1, <2>2, <2>3, VenueSteps DEF WatermarkInv
<1>4. ASSUME NEW o \in Orders, PublishOrder(o) \/ PublishFill(o)
      PROVE  WatermarkInv'
  <2>1. exch[o] \in VenueOrder
    BY <1>0, <1>4 DEF PublishOrder, PublishFill, Placed, TypeInv, TypeOK
  <2>2. PICK x \in VenueOrder :
            /\ exch' = [exch EXCEPT ![o] = x]
            /\ x.at = exch[o].at /\ x.filled = exch[o].filled
            /\ x.requested = exch[o].requested
            /\ exch[o].listed => x.listed
            /\ exch[o].fills = exch[o].filled => x.fills = x.filled
    <3>1. CASE PublishOrder(o)
      <4>. DEFINE x == [exch[o] EXCEPT !.listed = TRUE]
      <4>1. x \in VenueOrder
        BY <2>1 DEF VenueOrder
      <4>2. exch' = [exch EXCEPT ![o] = x]
        BY <3>1 DEF PublishOrder
      <4>. QED BY <2>1, <4>1, <4>2 DEF VenueOrder
    <3>2. CASE PublishFill(o)
      <4>. DEFINE x == [exch[o] EXCEPT !.fills = @ + 1]
      <4>0. exch[o].fills < exch[o].filled
        BY <3>2 DEF PublishFill
      <4>1. x \in VenueOrder
        BY <2>1, <4>0, NoneAssumption DEF VenueOrder
      <4>2. exch' = [exch EXCEPT ![o] = x]
        BY <3>2 DEF PublishFill
      <4>3. exch[o].fills # exch[o].filled
        BY <2>1, <4>0 DEF VenueOrder
      <4>. QED BY <2>1, <4>1, <4>2, <4>3 DEF VenueOrder
    <3>. QED BY <1>4, <3>1, <3>2
  <2>3. VenueKeeps
    BY <1>0, <1>4, <2>1, <2>2, OrdersAssumption
       DEF PublishOrder, PublishFill, VenueKeeps, Placed, TypeInv, TypeOK
  <2>4. last_poll_ts # NONE
    BY <1>4 DEF PublishOrder, PublishFill, WatermarkInv, PollInv, FirstPollFirst
  <2>5. UNCHANGED <<demo_orders, last_poll_ts, watermark, phase, rec, eval, clock, stale>>
    BY <1>4 DEF PublishOrder, PublishFill
  <2>. QED BY <1>0, <2>3, <2>4, <2>5, VenueSteps DEF WatermarkInv
<1>5. ASSUME NEW o \in Orders, NEW n \in Contracts, AcceptStale(o, n)
      PROVE  WatermarkInv'
  <2>1. VenueKeeps
    <3>1. CASE Placed(o)
      BY <1>5, <3>1 DEF AcceptStale, VenueKeeps, Placed
    <3>2. CASE ~Placed(o)
      <4>1. PICK f \in 0..n : exch' = [exch EXCEPT ![o] = NewOrder(n, f)]
        BY <1>5, <3>2 DEF AcceptStale
      <4>2. NewOrder(n, f).at = clock
        BY DEF NewOrder
      <4>. QED BY <1>0, <3>2, <4>1, <4>2 DEF VenueKeeps, Placed, TypeInv, TypeOK
    <3>. QED BY <3>1, <3>2
  <2>2. last_poll_ts # NONE
    BY <1>5 DEF AcceptStale, WatermarkInv, PollInv, FirstPollFirst
  <2>3. UNCHANGED <<demo_orders, last_poll_ts, watermark, phase, rec, eval, clock>>
        /\ stale' \subseteq stale
    BY <1>5 DEF AcceptStale
  <2>. QED BY <1>0, <2>1, <2>2, <2>3, VenueSteps DEF WatermarkInv
<1>. QED BY <1>1, <1>2, <1>3, <1>4, <1>5 DEF Venue

\* An entry that mirrors a venue order.
MirrorsIn(e, x) == RowByEid(e) # NONE /\ Mirrors(RowByEid(e), x)

\* The commit writes of each accepted order, its savepoint failing or not.
LEMMA CommitWrites ==
    ASSUME EvalCommit, NEW o \in Orders, o \in Accepted
    PROVE  \E b \in BOOLEAN :
               demo_orders'[o] = CommitOrder(SideOf(o), demo_orders[o], eval.results[o], b)
<1>1. PICK failed \in SUBSET Accepted :
          demo_orders' = [p \in Orders |->
            IF p \in Accepted
            THEN CommitOrder(SideOf(p), demo_orders[p], eval.results[p], p \in failed)
            ELSE demo_orders[p]]
    BY DEF EvalCommit
<1>. DEFINE b == o \in failed
<1>2. b \in BOOLEAN
    OBVIOUS
<1>3. demo_orders'[o] = CommitOrder(SideOf(o), demo_orders[o], eval.results[o], b)
    BY <1>1
<1>. HIDE DEF b
<1>. QED BY <1>2, <1>3

\* A step of the evaluation that leaves bound rows mirroring what they
\* mirrored preserves the invariant.
LEMMA EvaluationSteps ==
    ASSUME WatermarkInv, TypeInv',
           UNCHANGED <<clock, exch, last_poll_ts, watermark, phase, rec>>,
           last_poll_ts = NONE => stale' = {},
           eval'.pc # "idle" => phase = "run",
           \A o \in Orders :
              /\ RowsOk(demo_orders'[o])
              /\ Placed(o) /\ MirrorsIn(demo_orders[o], exch[o])
                   => MirrorsIn(demo_orders'[o], exch[o])
    PROVE  WatermarkInv'
<1>1. TimeOk' /\ FirstPollFirst' /\ PollOk'
    BY DEF WatermarkInv, PollInv, TimeOk, FirstPollFirst, PollOk, Asked, Placed, Published
<1>2. RowsInv'
    BY DEF RowsInv
<1>3. BehindWatermark'
    BY DEF WatermarkInv, BehindWatermark, Behind, Placed, Mirrored, MirrorsIn
<1>. QED BY <1>1, <1>2, <1>3 DEF WatermarkInv, PollInv

\* The evaluation's writes leave mirrored rows mirrored.
LEMMA WatermarkEvaluation == WatermarkInv /\ Evaluation => WatermarkInv'
<1>. SUFFICES ASSUME WatermarkInv, Evaluation PROVE WatermarkInv'
    OBVIOUS
<1>. USE DEF venueVars, dbVars
<1>0. TypeInv /\ TypeInv' /\ PollInv
      /\ \A o \in Orders : RowsOk(demo_orders[o])
    BY TypeEvaluation DEF WatermarkInv, RowsInv
<1>1. ASSUME NEW o \in Orders, NEW n \in Contracts, EvalPost(o, n)
      PROVE  WatermarkInv'
    BY <1>0, <1>1, EvaluationSteps DEF EvalPost, PollInv, FirstPollFirst
<1>2. CASE EvalCreated \/ EvalRejected
  <2>1. eval'.pc = "idle"
    BY <1>2 DEF EvalCreated, EvalRejected, EndCall, EvalIdle
  <2>. QED BY <1>0, <1>2, <2>1, EvaluationSteps
           DEF EvalCreated, EvalRejected, PollInv, FirstPollFirst
<1>3. CASE EvalRaises
  <2>1. eval'.pc = "idle"
    BY <1>3 DEF EvalRaises, EndCall, EvalIdle
  <2>2. last_poll_ts # NONE
    BY <1>0, <1>3 DEF EvalRaises, PollInv, FirstPollFirst
  <2>. QED BY <1>0, <1>3, <2>1, <2>2, EvaluationSteps DEF EvalRaises
<1>4. CASE EvalConflict
  <2>1. eval'.pc = "idle"
    BY <1>4 DEF EvalConflict, EndCall, EvalIdle
  <2>2. eval.order \in Orders /\ exch[eval.order] \in VenueOrder
    BY <1>0, <1>4 DEF EvalConflict, TypeInv, TypeOK, InFlightOk, Placed
  <2>3. PICK named \in BOOLEAN :
            IF Adoptable(eval.order, eval.contracts) /\
                 ~InsertCollides(demo_orders[eval.order],
                                 FinalSnapshot(exch[eval.order], named))
            THEN demo_orders' = [demo_orders EXCEPT ![eval.order] =
                    IdempotentInsert(demo_orders[eval.order],
                                     FinalSnapshot(exch[eval.order], named), eval.contracts)]
            ELSE UNCHANGED demo_orders
    BY <1>4 DEF EvalConflict
  <2>. DEFINE e    == demo_orders[eval.order]
              snap == FinalSnapshot(exch[eval.order], named)
  <2>4. snap \in Snapshot /\ e \in Entry /\ eval.contracts \in Contracts
    BY <1>0, <2>2, SnapshotTypes DEF TypeInv, TypeOK
  <2>5. snap.status = VenueStatus(exch[eval.order])
    BY DEF FinalSnapshot
  <2>. HIDE DEF snap
  <2>6. ~InsertCollides(e, snap) =>
          /\ RowsOk(IdempotentInsert(e, snap, eval.contracts))
          /\ MirrorsIn(e, exch[eval.order])
               => MirrorsIn(IdempotentInsert(e, snap, eval.contracts), exch[eval.order])
    BY <1>0, <2>2, <2>4, <2>5, IdempotentInsertRows DEF MirrorsIn, Mirrors
  <2>7. \A o \in Orders :
          /\ RowsOk(demo_orders'[o])
          /\ MirrorsIn(demo_orders[o], exch[o]) => MirrorsIn(demo_orders'[o], exch[o])
    BY <1>0, <2>2, <2>3, <2>6 DEF TypeInv, TypeOK, snap
  <2>8. UNCHANGED <<clock, exch, stale, last_poll_ts, watermark, phase, rec>>
    BY <1>4 DEF EvalConflict
  <2>. QED BY <1>0, <2>1, <2>7, <2>8, EvaluationSteps DEF PollInv, FirstPollFirst
<1>5. CASE EvalCommit
  <2>1. eval'.pc = "idle"
    BY <1>5, NoCycleType DEF EvalCommit
  <2>2. ASSUME NEW o \in Orders
        PROVE  /\ RowsOk(demo_orders'[o])
               /\ MirrorsIn(demo_orders[o], exch[o]) => MirrorsIn(demo_orders'[o], exch[o])
    <3>1. CASE o \in Accepted
      <4>1. demo_orders[o] \in Entry /\ eval.results[o] \in Snapshot
        BY <1>0, <3>1 DEF Accepted, TypeInv, TypeOK
      <4>2. PICK b \in BOOLEAN :
                demo_orders'[o] = CommitOrder(SideOf(o), demo_orders[o], eval.results[o], b)
        BY <1>5, <3>1, CommitWrites
      <4>. QED BY <1>0, <4>1, <4>2, SideType, CommitOrderRows DEF MirrorsIn, Mirrors, KeepsBound
    <3>2. CASE o \notin Accepted
      BY <1>0, <1>5, <3>2 DEF EvalCommit
    <3>. QED BY <3>1, <3>2
  <2>3. UNCHANGED <<clock, exch, stale, last_poll_ts, watermark, phase, rec>>
    BY <1>5 DEF EvalCommit
  <2>. QED BY <1>0, <2>1, <2>2, <2>3, EvaluationSteps DEF PollInv, FirstPollFirst
<1>6. CASE EvalAborts
  <2>1. eval'.pc = "idle"
    BY <1>6, NoCycleType DEF EvalAborts
  <2>. QED BY <1>0, <1>6, <2>1, EvaluationSteps DEF EvalAborts, PollInv, FirstPollFirst
<1>. QED BY <1>1, <1>2, <1>3, <1>4, <1>5, <1>6 DEF Evaluation

\* A committed reconcile leaves every entry with its bound row, and mirrored
\* if it is behind the new watermark.
LEMMA ReconciledMirrors ==
    ASSUME WatermarkInv, RecCommit, NEW o \in Orders
    PROVE  /\ RowsOk(Reconciled(o, demo_orders[o]))
           /\ Behind(o, rec.started) => MirrorsIn(Reconciled(o, demo_orders[o]), exch[o])
<1>. DEFINE e      == demo_orders[o]
            listed == o \in rec.orders
            snap   == FinalSnapshot(exch[o], TRUE)
            seen   == IF listed THEN UpsertExchangeRecord(e, snap) ELSE e
            status == IF listed THEN VenueStatus(exch[o]) ELSE "executed"
            k      == rec.fills[o]
            f      == ReconcileFills(SideOf(o), seen, k, listed, status)
<1>0. TypeInv /\ PollOk /\ TimeOk /\ FirstPollFirst /\ e \in Entry /\ RowsOk(e)
    BY DEF WatermarkInv, PollInv, RowsInv, TypeInv, TypeOK
<1>1. listed \in BOOLEAN /\ k \in 0..MaxContracts
    BY <1>0 DEF TypeInv, TypeOK
<1>2. status \in Status
    BY <1>0, SnapshotTypes DEF TypeInv, TypeOK, InFlightOk, Placed, Status
<1>3. /\ seen \in Entry /\ RowsOk(seen)
      /\ listed => /\ RowByEid(seen) # NONE
                   /\ RowByEid(seen).filled = exch[o].filled
                   /\ RowByEid(seen).status = VenueStatus(exch[o])
  <2>1. CASE listed
    <3>1. exch[o] \in VenueOrder
      BY <1>0, <2>1 DEF TypeInv, TypeOK, InFlightOk, Placed
    <3>2. /\ snap \in Snapshot /\ snap.named
          /\ snap.filled = exch[o].filled /\ snap.status = VenueStatus(exch[o])
      BY <3>1, SnapshotTypes DEF FinalSnapshot
    <3>3. ~UpsertCollides(e, snap)
      BY <2>1 DEF RecCommit, RecCollides
    <3>. HIDE DEF snap
    <3>. QED BY <1>0, <2>1, <3>2, <3>3, UpsertType, UpsertRows
  <2>2. CASE ~listed
    BY <1>0, <2>2
  <2>. QED BY <2>1, <2>2
<1>4. Reconciled(o, e) = f
    BY DEF Reconciled
<1>. HIDE DEF e, listed, snap, seen, status, k
<1>5. RowsOk(f) /\ (k = 0 => f = seen)
      /\ (RowByEid(seen) # NONE /\ k # 0 =>
             /\ RowByEid(f) # NONE /\ RowByEid(f).filled = k
             /\ listed => RowByEid(f).status = status)
    BY <1>1, <1>2, <1>3, SideType, ReconcileFillsRows
<1>6. ASSUME Behind(o, rec.started) PROVE MirrorsIn(f, exch[o])
  <2>0. rec.pc = "orders"
    BY DEF RecCommit
  <2>1. CASE Asked(o)
    <3>1. listed /\ k = exch[o].filled
      BY <1>0, <1>6, <2>0, <2>1 DEF PollOk, Behind, Asked, listed, k
    <3>2. status = VenueStatus(exch[o])
      BY <3>1 DEF status
    <3>. HIDE DEF f
    <3>3. CASE k = 0
      BY <1>3, <1>5, <3>1, <3>3 DEF MirrorsIn, Mirrors
    <3>4. CASE k # 0
      BY <1>3, <1>5, <3>1, <3>2, <3>4 DEF MirrorsIn, Mirrors
    <3>. QED BY <3>3, <3>4
  <2>2. CASE ~Asked(o)
    <3>1. ~listed /\ k = 0
      BY <1>0, <2>0, <2>2 DEF PollOk, listed, k
    <3>2. f = e
      BY <1>5, <3>1 DEF seen
    <3>3. Placed(o)
      BY <1>6 DEF Behind
    <3>4. /\ last_poll_ts # NONE /\ watermark = last_poll_ts
          /\ exch[o].at \in Nat /\ watermark \in Int
      BY <1>0, <2>0, <3>3
         DEF FirstPollFirst, TimeOk, PollOk, TypeInv, TypeOK, VenueOrder, Placed
    <3>5. exch[o].at < last_poll_ts
      BY <2>2, <3>3, <3>4 DEF Asked
    <3>6. MirrorsIn(e, exch[o])
      BY <3>3, <3>4, <3>5 DEF WatermarkInv, BehindWatermark, Behind, Mirrored, MirrorsIn, e
    <3>. QED BY <3>2, <3>6
  <2>. QED BY <2>1, <2>2
<1>. QED BY <1>4, <1>5, <1>6 DEF e

\* The reconciler moves the watermark only past orders it has mirrored.
LEMMA WatermarkReconciler == WatermarkInv /\ Reconciler => WatermarkInv'
<1>. SUFFICES ASSUME WatermarkInv, Reconciler PROVE WatermarkInv'
    OBVIOUS
<1>. USE DEF venueVars, dbVars
<1>0. TypeInv /\ TypeInv' /\ TimeOk /\ FirstPollFirst /\ PollOk /\ RowsInv /\ BehindWatermark
    BY TypeReconciler DEF WatermarkInv, PollInv
<1>1. clock \in Nat /\ Lag \in Nat /\ Overlap \in Nat /\ Lag <= Overlap
      /\ watermark \in Int /\ rec.started \in Int
    BY <1>0, OverlapCoversLag DEF TypeInv, TypeOK
<1>2. CASE PollFills \/ PollOrders
  <2>1. UNCHANGED <<clock, exch, stale, demo_orders, last_poll_ts, watermark, phase, eval>>
    BY <1>2 DEF PollFills, PollOrders
  <2>2. TimeOk' /\ FirstPollFirst' /\ RowsInv' /\ BehindWatermark'
    BY <1>0, <2>1 DEF TimeOk, FirstPollFirst, RowsInv, BehindWatermark, Behind, Placed,
                      Published, Mirrored
  <2>3. CASE PollFills
    <3>. DEFINE seen == [o \in Orders |-> IF Placed(o) /\ exch[o].at >= watermark
                                          THEN exch[o].fills ELSE 0]
    <3>1. rec' = [rec EXCEPT !.pc = "fills", !.started = clock - Overlap, !.fills = seen]
      BY <2>3 DEF PollFills
    <3>2. /\ rec'.pc = "fills" /\ rec'.started = clock - Overlap
          /\ rec'.fills = seen /\ rec'.orders = rec.orders
      BY <1>0, <3>1 DEF TypeInv, TypeOK
    <3>3. phase \in {"boot", "run"}
      BY <2>3 DEF PollFills
    <3>4. ASSUME NEW o \in Orders, Asked(o), exch[o].at < clock - Overlap
          PROVE  exch[o].listed /\ seen[o] = exch[o].filled
      <4>1. exch[o].at \in Nat
        BY <1>0, <3>4 DEF Asked, Placed, TypeInv, TypeOK, VenueOrder
      <4>2. exch[o].at + Lag < clock
        BY <1>1, <3>4, <4>1
      <4>. QED BY <1>0, <3>4, <4>2 DEF TimeOk, Asked, Published
    <3>5. \A o \in Orders : ~Asked(o) => seen[o] = 0
      BY DEF Asked
    <3>6. rec.orders = {}
      BY <1>0, <2>3 DEF PollFills, TypeInv, InFlightOk
    <3>. HIDE DEF seen
    <3>7. PollOk'
      BY <1>1, <2>1, <3>2, <3>3, <3>4, <3>5, <3>6 DEF PollOk, Asked, Placed
    <3>. QED BY <1>0, <2>2, <3>7 DEF WatermarkInv, PollInv
  <2>4. CASE PollOrders
    <3>. DEFINE seen == {o \in Orders : /\ Placed(o) /\ exch[o].listed
                                        /\ exch[o].at >= watermark}
    <3>1. rec' = [rec EXCEPT !.pc = "orders", !.orders = seen] /\ rec.pc = "fills"
      BY <2>4 DEF PollOrders
    <3>2. /\ rec'.pc = "orders" /\ rec'.started = rec.started
          /\ rec'.fills = rec.fills /\ rec'.orders = seen
      BY <1>0, <3>1 DEF TypeInv, TypeOK
    <3>3. \A o \in Orders : /\ Asked(o) /\ exch[o].listed => o \in seen
                            /\ ~Asked(o) => o \notin seen
      BY DEF Asked
    <3>. HIDE DEF seen
    <3>4. PollOk'
      BY <1>0, <2>1, <3>1, <3>2, <3>3 DEF PollOk, Asked, Placed
    <3>. QED BY <1>0, <2>2, <3>4 DEF WatermarkInv, PollInv
  <2>. QED BY <1>2, <2>3, <2>4
<1>3. CASE RecCommit
  <2>1. /\ UNCHANGED <<clock, exch, stale, eval>>
        /\ last_poll_ts' = rec.started /\ watermark' = rec.started
        /\ rec'.pc = "idle"
        /\ phase' = IF phase = "boot" THEN "check" ELSE phase
    BY <1>3, RecIdleType DEF RecCommit
  <2>2. \A o \in Orders : demo_orders'[o] = Reconciled(o, demo_orders[o])
    BY <1>3 DEF RecCommit
  <2>3. rec.pc = "orders"
    BY <1>3 DEF RecCommit
  <2>4. phase \in {"boot", "run"} /\ rec.started <= clock
    BY <1>0, <1>1, <2>3 DEF PollOk
  <2>5. rec.started # NONE
    BY <1>1, NoneAssumption
  <2>6. TimeOk'
    BY <1>0, <2>1, <2>4 DEF TimeOk, Placed, Published
  <2>7. FirstPollFirst'
    BY <1>0, <2>1, <2>4, <2>5 DEF FirstPollFirst
  <2>8. PollOk'
    BY <2>1 DEF PollOk
  <2>9. RowsInv' /\ BehindWatermark'
    BY <1>3, <2>1, <2>2, ReconciledMirrors
       DEF RowsInv, BehindWatermark, Behind, Placed, Mirrored, MirrorsIn
  <2>. QED BY <1>0, <2>6, <2>7, <2>8, <2>9 DEF WatermarkInv, PollInv
<1>4. CASE RecFails
  <2>1. /\ UNCHANGED <<clock, exch, stale, demo_orders, last_poll_ts, watermark, eval>>
        /\ rec'.pc = "idle"
        /\ phase' = IF phase = "boot" THEN "down" ELSE phase
    BY <1>4, RecIdleType DEF RecFails
  <2>. QED BY <1>0, <2>1
           DEF WatermarkInv, PollInv, TimeOk, FirstPollFirst, PollOk, RowsInv,
               BehindWatermark, Behind, Placed, Published, Mirrored
<1>. QED BY <1>2, <1>3, <1>4 DEF Reconciler

\* A crash forgets the poll in hand, and the tables stay.
LEMMA WatermarkProcess == WatermarkInv /\ Process => WatermarkInv'
<1>. SUFFICES ASSUME WatermarkInv, Process PROVE WatermarkInv'
    OBVIOUS
<1>. USE DEF venueVars, dbVars
<1>0. TypeInv /\ TypeInv' /\ TimeOk /\ FirstPollFirst /\ PollOk /\ RowsInv /\ BehindWatermark
    BY TypeProcess DEF WatermarkInv, PollInv
<1>. USE DEF TimeOk, FirstPollFirst, PollOk, RowsInv, BehindWatermark, Behind, Placed,
             Published, Mirrored, Asked
<1>1. CASE Boot
    BY <1>0, <1>1 DEF Boot, WatermarkInv, PollInv
<1>2. CASE BootCheck
    BY <1>0, <1>2 DEF BootCheck, WatermarkInv, PollInv
<1>3. CASE Crash
  <2>1. rec'.pc = "idle" /\ eval'.pc = "idle"
    BY <1>3, NoCycleType, RecIdleType DEF Crash
  <2>2. last_poll_ts = NONE => stale' = {}
    BY <1>0, <1>3 DEF Crash, Abandoned
  <2>. QED BY <1>0, <1>3, <2>1, <2>2 DEF Crash, WatermarkInv, PollInv
<1>. QED BY <1>1, <1>2, <1>3 DEF Process

\* The invariant of the watermark is inductive.
LEMMA WatermarkStep == WatermarkInv /\ [Next]_vars => WatermarkInv'
<1>1. WatermarkInv /\ UNCHANGED vars => WatermarkInv'
  <2>. SUFFICES ASSUME WatermarkInv, UNCHANGED vars PROVE WatermarkInv'
    OBVIOUS
  <2>1. TypeInv'
    BY TypeStep DEF WatermarkInv
  <2>. QED BY <2>1 DEF vars, venueVars, dbVars, WatermarkInv, PollInv, TimeOk, FirstPollFirst,
                       PollOk, RowsInv, BehindWatermark, Behind, Placed, Published, Mirrored,
                       Asked
<1>. QED BY <1>1, WatermarkVenue, WatermarkEvaluation, WatermarkReconciler, WatermarkProcess
     DEF Next

\* Every order the venue stamped before the persisted watermark has a row that
\* is bound to it and has its fills and status, for any number of orders,
\* contracts and crashes, and any lag within the overlap.
THEOREM WatermarkIsSafe == Spec => []BehindWatermark
<1>1. Spec => []WatermarkInv
    BY WatermarkInit, WatermarkStep, PTL DEF Spec
<1>2. WatermarkInv => BehindWatermark
    BY DEF WatermarkInv
<1>. QED BY <1>1, <1>2, PTL

-----------------------------------------------------------------------------
(***************************************************************************)
(* The rows of one order against the venue's order x.                      *)
(***************************************************************************)

\* A row or a snapshot asks for what x asked for and has no more fills.
Fits(s, x) == s.requested = x.requested /\ s.filled <= x.filled

\* Only the evaluation knows intents, so the reconciler's own row has none.
RowsFit(e, x) ==
    /\ e.own # NONE => Fits(e.own, x)
    /\ e.backfill # NONE => Fits(e.backfill, x) /\ ~e.backfill.intent
    /\ e.paper # NONE => e.paper.contracts <= x.filled

\* What f knows of the order is what e knows, and perhaps more.
Knows(e, f) ==
    /\ e.own # NONE \/ e.backfill # NONE => f.own # NONE \/ f.backfill # NONE
    /\ e.own # NONE => f.own # NONE /\ (e.own.intent => f.own.intent)
    /\ e.paper # NONE => f.paper = e.paper

\* The reconciler attributes nothing, and counts only what is attributed.
Attributed(e) == e.own # NONE /\ e.own.intent
SameIntent(e, f) ==
    /\ Attributed(f) <=> Attributed(e)
    /\ e.paper = NONE /\ f.paper # NONE => Attributed(e)

\* An entry that stays as it was, is as known as it was.
LEMMA KnowsReflexive == \A e : Knows(e, e) /\ SameIntent(e, e)
BY DEF Knows, SameIntent

\* Inserting a paper row changes nothing else, and keeps the one there is.
LEMMA InsertPaperKnows ==
    ASSUME NEW e \in Entry, NEW trade \in PaperTrade \cup {NONE}
    PROVE  /\ InsertPaper(e, trade).own = e.own
           /\ InsertPaper(e, trade).backfill = e.backfill
           /\ e.paper # NONE => InsertPaper(e, trade).paper = e.paper
           /\ e.paper = NONE => InsertPaper(e, trade).paper = trade
BY DEF InsertPaper, Entry

\* A paper row is no larger than what it is made of.
LEMMA PaperSizes ==
    ASSUME NEW side \in Frame
    PROVE  /\ \A row \in DemoOrder : PaperFromDemoRow(side, row) # NONE =>
                  /\ PaperFromDemoRow(side, row).contracts = row.filled
                  /\ row.intent
           /\ \A row \in DemoOrder :
                  row.filled # 0 /\ row.avg # NONE /\ row.intent =>
                     PaperFromDemoRow(side, row) # NONE
           /\ \A snap \in Snapshot :
                  /\ PaperFromDemoOrder(side, snap) # NONE =>
                        PaperFromDemoOrder(side, snap).contracts = snap.filled
                  /\ snap.filled # 0 => PaperFromDemoOrder(side, snap) # NONE
<1>1. ASSUME NEW row \in DemoOrder, row.filled # 0, row.avg # NONE, row.intent
      PROVE  PaperFromDemoRow(side, row) # NONE
  <2>1. PaperFromDemoRow(side, row)
            = [contracts |-> row.filled, price |-> YesFramePrice(side, row.avg)]
    BY <1>1 DEF PaperFromDemoRow
  <2>2. row.avg \in Frame /\ row.filled \in Contracts
    BY <1>1 DEF DemoOrder, Contracts
  <2>3. PaperFromDemoRow(side, row) \in PaperTrade
    BY <2>1, <2>2, FrameTypes DEF PaperTrade
  <2>. QED BY <2>3, NoneAssumption
<1>2. ASSUME NEW snap \in Snapshot, snap.filled # 0
      PROVE  PaperFromDemoOrder(side, snap) # NONE
  <2>1. PaperFromDemoOrder(side, snap)
            = [contracts |-> snap.filled, price |-> YesFramePrice(side, ParsedAvg(snap.filled))]
    BY <1>2 DEF PaperFromDemoOrder
  <2>2. ParsedAvg(snap.filled) \in Frame /\ snap.filled \in Contracts
    BY <1>2, ParsedAvgType DEF Snapshot, Contracts
  <2>3. PaperFromDemoOrder(side, snap) \in PaperTrade
    BY <2>1, <2>2, FrameTypes DEF PaperTrade
  <2>. QED BY <2>3, NoneAssumption
<1>. QED BY <1>1, <1>2 DEF PaperFromDemoRow, PaperFromDemoOrder

\* The stitched row takes over the bound row: it asks for no more, knows the
\* intent, and its paper row, if it gets one now, has its fills.
LEMMA StitchKnows ==
    ASSUME NEW side \in Frame, NEW e \in Entry, RowsOk(e), RowByEid(e) # NONE,
           NEW x \in VenueOrder, RowsFit(e, x)
    PROVE  RowsFit(Stitch(side, e), x) /\ Knows(e, Stitch(side, e))
<1>. DEFINE survivor ==
              IF e.own = NONE
              THEN [e.backfill EXCEPT !.intent = TRUE]
              ELSE IF e.own.eid
              THEN [e.own EXCEPT !.intent = TRUE]
              ELSE [e.own EXCEPT !.eid    = TRUE,
                                 !.intent = TRUE,
                                 !.filled = e.backfill.filled,
                                 !.status = e.backfill.status,
                                 !.avg    = e.backfill.avg]
            e1 == [e EXCEPT !.own = survivor, !.backfill = NONE]
            trade == PaperFromDemoRow(side, survivor)
<1>1. survivor \in DemoOrder /\ survivor.intent /\ Fits(survivor, x)
    BY DEF Entry, DemoOrder, RowByEid, RowsOk, RowsFit, Fits
<1>. HIDE DEF survivor
<1>2. /\ e1 \in Entry /\ e1.own = survivor /\ e1.backfill = NONE
      /\ e1.paper = e.paper
    BY <1>1 DEF Entry
<1>3. survivor # NONE
    BY <1>1, NoneAssumption
<1>4. trade \in PaperTrade \cup {NONE} /\ (trade # NONE => trade.contracts <= x.filled)
    BY <1>1, PaperFromDemoRowType, PaperSizes DEF Fits
<1>5. Stitch(side, e) = InsertPaper(e1, trade)
    BY DEF Stitch, survivor
<1>. HIDE DEF e1, trade
<1>6. /\ Stitch(side, e).own = survivor /\ Stitch(side, e).backfill = NONE
      /\ e.paper # NONE => Stitch(side, e).paper = e.paper
      /\ e.paper = NONE => Stitch(side, e).paper = trade
    BY <1>2, <1>4, <1>5, InsertPaperKnows
<1>. QED BY <1>1, <1>3, <1>4, <1>6 DEF RowsFit, Knows

\* The evaluation's insert keeps the row there is, or makes one of the
\* answer's size.
LEMMA InsertDemoRowKnows ==
    ASSUME NEW e \in Entry, NEW snap \in Snapshot, NEW x \in VenueOrder,
           RowsFit(e, x), Fits(snap, x)
    PROVE  /\ RowsFit(InsertDemoRow(e, snap), x)
           /\ Knows(e, InsertDemoRow(e, snap))
<1>. DEFINE row == IF e.own # NONE
                   THEN [e.own EXCEPT !.intent = TRUE]
                   ELSE [ eid       |-> snap.named,
                          intent    |-> TRUE,
                          requested |-> snap.requested,
                          filled    |-> snap.filled,
                          status    |-> snap.status,
                          avg       |-> ParsedAvg(snap.filled) ]
<1>1. row \in DemoOrder /\ row.intent /\ Fits(row, x)
    BY ParsedAvgType DEF Entry, DemoOrder, Snapshot, RowsFit, Fits
<1>2. row # NONE
    BY <1>1, RowIsSome
<1>3. InsertDemoRow(e, snap) = [e EXCEPT !.own = row]
    BY DEF InsertDemoRow, Entry
<1>. HIDE DEF row
<1>4. /\ InsertDemoRow(e, snap).own = row
      /\ InsertDemoRow(e, snap).backfill = e.backfill
      /\ InsertDemoRow(e, snap).paper = e.paper
    BY <1>3 DEF Entry
<1>. QED BY <1>1, <1>2, <1>4 DEF RowsFit, Knows

\* The evaluation's commit keeps the rows within the order and knows more.
LEMMA CommitOrderKnows ==
    ASSUME NEW side \in Frame, NEW e \in Entry, RowsOk(e), NEW snap \in Snapshot,
           NEW x \in VenueOrder, RowsFit(e, x), Fits(snap, x), NEW failed \in BOOLEAN
    PROVE  LET f == CommitOrder(side, e, snap, failed) IN
           /\ RowsFit(f, x) /\ Knows(e, f)
           /\ e.paper = NONE /\ snap.filled # 0 =>
                 f.paper # NONE /\ f.paper.contracts = snap.filled
<1>. DEFINE trade == PaperFromDemoOrder(side, snap)
            paid  == InsertPaper(e, trade)
<1>1. trade \in PaperTrade \cup {NONE} /\ (trade # NONE => trade.contracts <= x.filled)
    BY PaperFromDemoOrderType, PaperSizes DEF Fits
<1>2. snap.filled # 0 => trade # NONE /\ trade.contracts = snap.filled
    BY PaperSizes
<1>. HIDE DEF trade
<1>3. paid \in Entry /\ RowsOk(paid) /\ RowsFit(paid, x) /\ Knows(e, paid)
      /\ (e.paper = NONE => paid.paper = trade)
    BY <1>1, InsertPaperType, InsertPaperRows, InsertPaperKnows
       DEF RowsFit, Knows
<1>4. \A f : Knows(paid, f) =>
          /\ Knows(e, f)
          /\ e.paper = NONE /\ snap.filled # 0 =>
                f.paper # NONE /\ f.paper.contracts = snap.filled
    BY <1>2, <1>3 DEF Knows
<1>. HIDE DEF paid
<1>5. CommitOrder(side, e, snap, failed) =
          IF failed THEN paid
          ELSE IF snap.named /\ RowByEid(paid) # NONE
          THEN Stitch(side, paid)
          ELSE InsertDemoRow(paid, snap)
    BY DEF CommitOrder, paid, trade
<1>6. RowsFit(CommitOrder(side, e, snap, failed), x)
      /\ Knows(paid, CommitOrder(side, e, snap, failed))
    BY <1>3, <1>5, StitchKnows, InsertDemoRowKnows, KnowsReflexive
<1>. QED BY <1>4, <1>6

\* An adopted row asks for what the adopting intent does, which is what the
\* venue's order asks for; it has the fills of the order or of the bound row.
LEMMA IdempotentInsertKnows ==
    ASSUME NEW e \in Entry, RowsOk(e), NEW snap \in Snapshot, NEW n \in Contracts,
           NEW x \in VenueOrder, RowsFit(e, x), Fits(snap, x), n = x.requested
    PROVE  /\ RowsFit(IdempotentInsert(e, snap, n), x)
           /\ Knows(e, IdempotentInsert(e, snap, n))
<1>. DEFINE f == IdempotentInsert(e, snap, n)
<1>1. CASE e.own # NONE
  <2>. DEFINE row == [e.own EXCEPT !.eid = @ \/ snap.named, !.status = snap.status]
  <2>1. row \in DemoOrder /\ row # NONE
    <3>1. e.own \in DemoOrder
      BY <1>1 DEF Entry
    <3>2. snap.named \in BOOLEAN /\ snap.status \in Status
      BY DEF Snapshot
    <3>3. row \in DemoOrder
      BY <3>1, <3>2 DEF DemoOrder
    <3>. HIDE DEF row
    <3>. QED BY <3>3, NoneAssumption
  <2>2. /\ row.intent = e.own.intent
        /\ row.requested = e.own.requested /\ row.filled = e.own.filled
    BY <1>1 DEF Entry, DemoOrder
  <2>3. f = [e EXCEPT !.own = row]
    BY <1>1 DEF IdempotentInsert, Entry
  <2>4. f.own = row /\ f.backfill = e.backfill /\ f.paper = e.paper
    BY <2>3 DEF Entry
  <2>. HIDE DEF row, f
  <2>5. RowsFit(f, x) /\ Knows(e, f)
    BY <1>1, <2>1, <2>2, <2>4 DEF RowsFit, Fits, Knows
  <2>. QED BY <2>5 DEF f
<1>2. CASE e.own = NONE /\ snap.named /\ e.backfill # NONE
  <2>. DEFINE row == [e.backfill EXCEPT !.intent    = TRUE,
                                        !.requested = n,
                                        !.status    = snap.status]
  <2>0. row \in DemoOrder
    BY <1>2 DEF Entry, DemoOrder, Snapshot
  <2>1. row \in DemoOrder /\ row # NONE
    BY <2>0, RowIsSome
  <2>2. row.intent /\ row.requested = n /\ row.filled = e.backfill.filled
    BY <1>2 DEF Entry, DemoOrder
  <2>3. f = [e EXCEPT !.own = row, !.backfill = NONE]
    BY <1>2 DEF IdempotentInsert
  <2>4. f.own = row /\ f.backfill = NONE /\ f.paper = e.paper
    BY <2>3 DEF Entry
  <2>. HIDE DEF row, f
  <2>5. RowsFit(f, x) /\ Knows(e, f)
    BY <1>2, <2>1, <2>2, <2>4 DEF RowsFit, Fits, Knows
  <2>. QED BY <2>5 DEF f
<1>3. CASE e.own = NONE /\ ~(snap.named /\ e.backfill # NONE)
  <2>. DEFINE row == [ eid       |-> snap.named,
                       intent    |-> TRUE,
                       requested |-> n,
                       filled    |-> snap.filled,
                       status    |-> snap.status,
                       avg       |-> NONE ]
  <2>0. row \in DemoOrder
    BY DEF DemoOrder, Snapshot
  <2>1. row # NONE /\ row.intent /\ row.requested = n /\ row.filled = snap.filled
    BY <2>0, RowIsSome
  <2>2. f = [e EXCEPT !.own = row]
    BY <1>3 DEF IdempotentInsert
  <2>3. f.own = row /\ f.backfill = e.backfill /\ f.paper = e.paper
    BY <2>2 DEF Entry
  <2>. HIDE DEF row, f
  <2>4. RowsFit(f, x) /\ Knows(e, f)
    BY <1>3, <2>1, <2>3 DEF RowsFit, Fits, Knows
  <2>. QED BY <2>4 DEF f
<1>. QED BY <1>1, <1>2, <1>3

\* The reconciler writes of a listed order what the venue says of it, and
\* attributes it to nobody.
LEMMA UpsertKnows ==
    ASSUME NEW e \in Entry, NEW snap \in Snapshot, NEW x \in VenueOrder,
           RowsFit(e, x), Fits(snap, x)
    PROVE  LET f == UpsertExchangeRecord(e, snap)
           IN  RowsFit(f, x) /\ Knows(e, f) /\ SameIntent(e, f)
<1>. DEFINE f == UpsertExchangeRecord(e, snap)
<1>1. CASE e.own # NONE
  <2>. DEFINE row == [Booked(e.own, snap) EXCEPT !.eid = @ \/ snap.named]
  <2>1. Booked(e.own, snap) \in DemoOrder
    BY <1>1, BookedType DEF Entry
  <2>2. row \in DemoOrder /\ row # NONE
    BY <2>1, NoneAssumption DEF DemoOrder, Snapshot
  <2>3. /\ row.filled = snap.filled /\ row.requested = e.own.requested
        /\ row.intent = e.own.intent
    BY <1>1, <2>1 DEF Booked, Entry, DemoOrder
  <2>4. f = [e EXCEPT !.own = row]
    BY <1>1 DEF UpsertExchangeRecord
  <2>5. f.own = row /\ f.backfill = e.backfill /\ f.paper = e.paper
    BY <2>4 DEF Entry
  <2>. HIDE DEF row, f
  <2>6. RowsFit(f, x) /\ Knows(e, f) /\ SameIntent(e, f)
    BY <1>1, <2>2, <2>3, <2>5
       DEF RowsFit, Fits, Knows, SameIntent, Attributed
  <2>. QED BY <2>6 DEF f
<1>2. CASE e.own = NONE
  <2>. DEFINE row == IF e.backfill # NONE
                     THEN Booked(e.backfill, snap)
                     ELSE [ eid       |-> TRUE,
                            intent    |-> FALSE,
                            requested |-> snap.requested,
                            filled    |-> snap.filled,
                            status    |-> snap.status,
                            avg       |-> ParsedAvg(snap.filled) ]
  <2>1. row \in DemoOrder
    BY BookedType, ParsedAvgType DEF Entry, DemoOrder, Snapshot
  <2>2. row # NONE
    BY <2>1, RowIsSome
  <2>3. row.filled = snap.filled /\ row.requested = x.requested /\ ~row.intent
    BY DEF Booked, Entry, DemoOrder, RowsFit, Fits
  <2>4. f = [e EXCEPT !.backfill = row]
    BY <1>2 DEF UpsertExchangeRecord
  <2>. HIDE DEF row
  <2>5. f.own = NONE /\ f.backfill = row /\ f.paper = e.paper
    BY <1>2, <2>4 DEF Entry
  <2>. HIDE DEF f
  <2>6. RowsFit(f, x) /\ Knows(e, f) /\ SameIntent(e, f)
    BY <1>2, <2>2, <2>3, <2>5
       DEF RowsFit, Fits, Knows, SameIntent, Attributed
  <2>. QED BY <2>6 DEF f
<1>. QED BY <1>1, <1>2

\* The fills of a poll are the order's, and a paper row is made of a row that
\* knows its intent only.
LEMMA ReconcileFillsKnows ==
    ASSUME NEW side \in Frame, NEW e \in Entry, NEW k \in 0..MaxContracts,
           NEW listed \in BOOLEAN, NEW st \in Status,
           NEW x \in VenueOrder, RowsFit(e, x), k <= x.filled
    PROVE  LET f == ReconcileFills(side, e, k, listed, st)
           IN  RowsFit(f, x) /\ Knows(e, f) /\ SameIntent(e, f)
<1>. DEFINE f     == ReconcileFills(side, e, k, listed, st)
            row   == FilledBy(side, RowByEid(e), k, listed, st)
            e1    == IF e.backfill # NONE THEN [e EXCEPT !.backfill = row]
                                          ELSE [e EXCEPT !.own = row]
            trade == PaperFromDemoRow(side, row)
<1>1. CASE k = 0 \/ RowByEid(e) = NONE
    BY <1>1, KnowsReflexive DEF ReconcileFills
<1>2. CASE ~(k = 0 \/ RowByEid(e) = NONE)
  <2>1. RowByEid(e) \in DemoOrder
    BY <1>2, RowByEidType
  <2>2. row \in DemoOrder
    BY <2>1, FilledByType
  <2>3. row # NONE
    BY <2>2, RowIsSome
  <2>4. /\ row.filled = k /\ row.intent = RowByEid(e).intent
        /\ row.requested = RowByEid(e).requested
    BY <2>1 DEF FilledBy, DemoOrder
  <2>5. trade \in PaperTrade \cup {NONE} /\ (trade # NONE => trade.contracts = k /\ row.intent)
    BY <2>2, <2>4, PaperFromDemoRowType, PaperSizes
  <2>6. f = InsertPaper(e1, trade)
    BY <1>2 DEF ReconcileFills
  <2>. HIDE DEF row, trade
  <2>7. /\ e1 \in Entry /\ e1.paper = e.paper
        /\ e.backfill # NONE => e1.backfill = row /\ e1.own = e.own
        /\ e.backfill = NONE => e1.own = row /\ e1.backfill = NONE
    BY <1>2, <2>2 DEF Entry
  <2>. HIDE DEF e1, f
  <2>8. /\ f.own = e1.own /\ f.backfill = e1.backfill
        /\ e.paper # NONE => f.paper = e.paper
        /\ e.paper = NONE => f.paper = trade
    BY <2>5, <2>6, <2>7, InsertPaperKnows
  <2>9. CASE e.backfill # NONE
    BY <2>3, <2>4, <2>5, <2>7, <2>8, <2>9
       DEF RowByEid, RowsFit, Fits, Knows, SameIntent, Attributed, f
  <2>10. CASE e.backfill = NONE
    BY <1>2, <2>3, <2>4, <2>5, <2>7, <2>8, <2>10
       DEF RowByEid, RowsFit, Fits, Knows, SameIntent, Attributed, f
  <2>. QED BY <2>9, <2>10
<1>. QED BY <1>1, <1>2

-----------------------------------------------------------------------------
(***************************************************************************)
(* No row exceeds the venue's order.  RowsNeverExceedTheVenue is not       *)
(* inductive: it needs that what is on its way to the tables, the fills a  *)
(* poll has in hand and the answers an evaluation has kept for its commit, *)
(* exceeds the venue's order no more than the rows do.                     *)
(***************************************************************************)
FillsOk ==
    \A o \in Orders :
        /\ Placed(o) => exch[o].fills <= exch[o].filled
        /\ rec.fills[o] # 0 => Placed(o) /\ rec.fills[o] <= exch[o].filled

AnswersOk ==
    /\ eval.pc = "created" => /\ Placed(eval.order) /\ eval.reply # NONE
                              /\ Fits(eval.reply, exch[eval.order])
    /\ \A o \in Orders : eval.results[o] # NONE =>
          Placed(o) /\ Fits(eval.results[o], exch[o])

\* No row precedes its order at the venue.
EntriesOk ==
    \A o \in Orders :
        IF Placed(o) THEN RowsFit(demo_orders[o], exch[o])
                     ELSE demo_orders[o] = EmptyEntry

SizeInv == FillsOk /\ AnswersOk /\ EntriesOk

\* Nothing is placed, asked or written yet.
LEMMA SizeInit == Init => SizeInv
BY DEF Init, SizeInv, FillsOk, AnswersOk, EntriesOk, Placed, NoCycle, EvalIdle, RecIdle

\* The order payloads of a venue order fit it.
LEMMA SnapshotsFit ==
    ASSUME NEW x \in VenueOrder
    PROVE  /\ \A b \in BOOLEAN : Fits(FinalSnapshot(x, b), x)
           /\ \A s \in Snapshots(x) : Fits(s, x) /\ s # NONE
<1>1. \A b \in BOOLEAN : Fits(FinalSnapshot(x, b), x)
    BY NoneAssumption DEF Fits, FinalSnapshot, VenueOrder
<1>2. \A b \in BOOLEAN : Fits(EarlySnapshot(x, b), x)
    BY NoneAssumption DEF Fits, EarlySnapshot, VenueOrder
<1>3. \A s \in Snapshots(x) : s # NONE
    BY SnapshotTypes, NoneAssumption
<1>. QED BY <1>1, <1>2, <1>3 DEF Snapshots

\* No step takes an order from the venue or changes what it asked for and got.
LEMMA VenueKeepsSizes ==
    ASSUME TypeInv, Venue, NEW o \in Orders, Placed(o)
    PROVE  /\ Placed(o)' /\ exch'[o].requested = exch[o].requested
           /\ exch'[o].at = exch[o].at
           /\ exch'[o].filled = exch[o].filled
           /\ exch[o].fills <= exch[o].filled => exch'[o].fills <= exch'[o].filled
<1>. USE DEF venueVars, dbVars
<1>1. CASE UNCHANGED exch
    BY <1>1 DEF Placed
<1>2. ASSUME NEW p \in Orders, NEW x, exch' = [exch EXCEPT ![p] = x], ~Placed(p)
      PROVE  exch'[o] = exch[o]
    BY <1>2 DEF TypeInv, TypeOK, Placed
<1>3. ASSUME Accept PROVE exch'[o] = exch[o]
  <2>1. eval.order \in Orders /\ ~Placed(eval.order)
    BY <1>3 DEF Accept, TypeInv, InFlightOk
  <2>2. PICK f \in 0..eval.contracts :
            exch' = [exch EXCEPT ![eval.order] = NewOrder(eval.contracts, f)]
    BY <1>3 DEF Accept
  <2>. QED BY <1>2, <2>1, <2>2 DEF Placed
<1>4. ASSUME NEW p \in Orders, NEW n \in Contracts, AcceptStale(p, n)
      PROVE  exch'[o] = exch[o]
  <2>1. CASE Placed(p)
    BY <1>4, <2>1 DEF AcceptStale
  <2>2. CASE ~Placed(p)
    BY <1>2, <1>4, <2>2 DEF AcceptStale
  <2>. QED BY <2>1, <2>2
<1>5. ASSUME NEW p \in Orders, PublishOrder(p) \/ PublishFill(p)
      PROVE  /\ Placed(o)' /\ exch'[o].requested = exch[o].requested
             /\ exch'[o].at = exch[o].at
             /\ exch'[o].filled = exch[o].filled
             /\ exch[o].fills <= exch[o].filled => exch'[o].fills <= exch'[o].filled
  <2>1. exch[p] \in VenueOrder
    BY <1>5 DEF PublishOrder, PublishFill, Placed, TypeInv, TypeOK
  <2>2. PICK x \in VenueOrder :
            /\ exch' = [exch EXCEPT ![p] = x]
            /\ x.requested = exch[p].requested /\ x.filled = exch[p].filled
            /\ x.at = exch[p].at
            /\ exch[p].fills <= exch[p].filled => x.fills <= x.filled
    <3>1. CASE PublishOrder(p)
      <4>. DEFINE x == [exch[p] EXCEPT !.listed = TRUE]
      <4>1. x \in VenueOrder
        BY <2>1 DEF VenueOrder
      <4>2. exch' = [exch EXCEPT ![p] = x]
        BY <3>1 DEF PublishOrder
      <4>. QED BY <2>1, <4>1, <4>2 DEF VenueOrder
    <3>2. CASE PublishFill(p)
      <4>. DEFINE x == [exch[p] EXCEPT !.fills = @ + 1]
      <4>0. exch[p].fills < exch[p].filled
        BY <3>2 DEF PublishFill
      <4>1. x \in VenueOrder
        BY <2>1, <4>0, NoneAssumption DEF VenueOrder
      <4>2. exch' = [exch EXCEPT ![p] = x]
        BY <3>2 DEF PublishFill
      <4>3. /\ x.requested = exch[p].requested /\ x.filled = exch[p].filled
            /\ x.fills = exch[p].fills + 1 /\ x.at = exch[p].at
        BY <2>1 DEF VenueOrder
      <4>4. exch[p].fills \in Nat /\ exch[p].filled \in Nat
        BY <2>1, NoneAssumption DEF VenueOrder
      <4>. HIDE DEF x
      <4>5. x.fills <= x.filled
        BY <4>0, <4>3, <4>4
      <4>. QED BY <4>1, <4>2, <4>3, <4>5
    <3>. QED BY <1>5, <3>1, <3>2
  <2>3. x # NONE
    BY OrdersAssumption
  <2>. QED BY <2>2, <2>3 DEF Placed, TypeInv, TypeOK
<1>6. CASE Tick \/ Conflict
    BY <1>1, <1>6 DEF Tick, Conflict
<1>7. ASSUME exch'[o] = exch[o]
      PROVE  /\ Placed(o)' /\ exch'[o].requested = exch[o].requested
             /\ exch'[o].at = exch[o].at
             /\ exch'[o].filled = exch[o].filled
             /\ exch[o].fills <= exch[o].filled => exch'[o].fills <= exch'[o].filled
    BY <1>7 DEF Placed
<1>8. CASE Accept
    BY <1>3, <1>7, <1>8
<1>. QED BY <1>4, <1>5, <1>6, <1>7, <1>8 DEF Venue

\* An entry that fits an order fits it after its listings changed.
LEMMA FitsKept ==
    ASSUME NEW x, NEW y, y.requested = x.requested, y.filled = x.filled
    PROVE  /\ \A s : Fits(s, x) => Fits(s, y)
           /\ \A e : RowsFit(e, x) => RowsFit(e, y)
BY DEF Fits, RowsFit

\* What the venue books anew has no fills to show yet, no row and no answer
\* but its own payload.
LEMMA NewOrderIsBare ==
    ASSUME TypeInv, Venue, NEW o \in Orders, ~Placed(o), Placed(o)'
    PROVE  exch'[o].fills <= exch'[o].filled
<1>. USE DEF venueVars, dbVars
<1>1. PICK p \in Orders, n \in Contracts :
          \E f \in 0..n : exch' = [exch EXCEPT ![p] = NewOrder(n, f)]
  <2>1. CASE Accept
    <3>1. eval.order \in Orders /\ eval.contracts \in Contracts
      BY <2>1 DEF Accept, TypeInv, TypeOK, InFlightOk
    <3>2. \E f \in 0..eval.contracts :
              exch' = [exch EXCEPT ![eval.order] = NewOrder(eval.contracts, f)]
      BY <2>1 DEF Accept
    <3>. QED BY <3>1, <3>2
  <2>2. ASSUME NEW p \in Orders, NEW n \in Contracts, AcceptStale(p, n)
        PROVE  \E f \in 0..n : exch' = [exch EXCEPT ![p] = NewOrder(n, f)]
    BY <2>2 DEF AcceptStale, Placed
  <2>3. CASE Tick \/ Conflict
    BY <2>3 DEF Tick, Conflict, Placed
  <2>4. ASSUME NEW p \in Orders, PublishOrder(p) \/ PublishFill(p)
        PROVE  FALSE
    BY <2>4 DEF PublishOrder, PublishFill, Placed, TypeInv, TypeOK
  <2>. QED BY <2>1, <2>2, <2>3, <2>4 DEF Venue
<1>2. PICK f \in 0..n : exch' = [exch EXCEPT ![p] = NewOrder(n, f)]
    BY <1>1
<1>3. o = p /\ exch'[o] = NewOrder(n, f)
    BY <1>2 DEF Placed, TypeInv, TypeOK
<1>. QED BY <1>3 DEF NewOrder, Contracts

\* The venue's steps write nothing, and the answer to a new order is a payload
\* of that order.
LEMMA SizeVenue == TypeInv /\ SizeInv /\ Venue => SizeInv'
<1>. SUFFICES ASSUME TypeInv, SizeInv, Venue PROVE SizeInv'
    OBVIOUS
<1>. USE DEF venueVars, dbVars
<1>0. TypeInv'
    BY TypeVenue
<1>1. UNCHANGED <<demo_orders, rec>> /\ eval'.results = eval.results
    BY DEF Venue, Tick, Accept, Conflict, PublishOrder, PublishFill, AcceptStale,
           TypeInv, TypeOK
<1>2. FillsOk'
  <2>. SUFFICES ASSUME NEW o \in Orders
                PROVE  /\ Placed(o)' => exch'[o].fills <= exch'[o].filled
                       /\ rec.fills[o] # 0 => Placed(o)' /\ rec.fills[o] <= exch'[o].filled
    BY <1>1 DEF FillsOk, Placed
  <2>. QED BY VenueKeepsSizes, NewOrderIsBare DEF SizeInv, FillsOk
<1>3. EntriesOk'
  <2>. SUFFICES ASSUME NEW o \in Orders
                PROVE  IF Placed(o)' THEN RowsFit(demo_orders[o], exch'[o])
                                     ELSE demo_orders[o] = EmptyEntry
    BY <1>1 DEF EntriesOk, Placed
  <2>1. CASE Placed(o)
    BY <2>1, VenueKeepsSizes, FitsKept DEF SizeInv, EntriesOk
  <2>2. CASE ~Placed(o)
    BY <2>2 DEF SizeInv, EntriesOk, EmptyEntry, RowsFit
  <2>. QED BY <2>1, <2>2
<1>4. \A o \in Orders : eval'.results[o] # NONE =>
          Placed(o)' /\ Fits(eval'.results[o], exch'[o])
    BY <1>1, VenueKeepsSizes, FitsKept DEF SizeInv, AnswersOk
<1>5. ASSUME eval'.pc = "created"
      PROVE  /\ Placed(eval.order)' /\ eval'.reply # NONE
             /\ Fits(eval'.reply, exch'[eval'.order])
  <2>1. CASE Accept
    <3>1. PICK f \in 0..eval.contracts :
              LET x == NewOrder(eval.contracts, f) IN
              /\ exch' = [exch EXCEPT ![eval.order] = x]
              /\ \E s \in Snapshots(x) :
                    eval' = [eval EXCEPT !.pc = "created", !.reply = s]
      BY <2>1 DEF Accept
    <3>. DEFINE x == NewOrder(eval.contracts, f)
    <3>2. x \in VenueOrder /\ eval.order \in Orders
      BY <2>1, NewOrderType DEF Accept, TypeInv, TypeOK, InFlightOk
    <3>3. PICK s \in Snapshots(x) :
              eval' = [eval EXCEPT !.pc = "created", !.reply = s]
      BY <3>1
    <3>4. exch' = [exch EXCEPT ![eval.order] = x]
      BY <3>1
    <3>. HIDE DEF x
    <3>5. Fits(s, x) /\ s # NONE /\ x # NONE
      BY <3>2, SnapshotsFit, OrdersAssumption
    <3>6. eval'.reply = s /\ eval'.order = eval.order /\ exch'[eval.order] = x
      BY <3>2, <3>3, <3>4 DEF TypeInv, TypeOK
    <3>. QED BY <3>5, <3>6 DEF Placed
  <2>2. CASE ~Accept
    <3>1. eval' = eval
      BY <1>5, <2>2 DEF Venue, Tick, Conflict, PublishOrder, PublishFill, AcceptStale, TypeInv, TypeOK
    <3>2. eval.order \in Orders
      BY <1>5, <3>1 DEF TypeInv, InFlightOk
    <3>. QED BY <1>5, <3>1, <3>2, VenueKeepsSizes, FitsKept DEF SizeInv, AnswersOk
  <2>. QED BY <2>1, <2>2
<1>6. eval'.order = eval.order
    BY DEF Venue, Tick, Accept, Conflict, PublishOrder, PublishFill, AcceptStale,
           TypeInv, TypeOK
<1>7. AnswersOk'
    BY <1>4, <1>5, <1>6 DEF AnswersOk, Placed
<1>. QED BY <1>2, <1>3, <1>7 DEF SizeInv

\* What is known of an order after a step, against what was known before.
Grows(o) ==
    IF Placed(o)
    THEN /\ RowsFit(demo_orders'[o], exch[o])
         /\ Knows(demo_orders[o], demo_orders'[o])
    ELSE demo_orders'[o] = demo_orders[o]

\* An entry that no statement touches grows trivially.
LEMMA UntouchedGrows ==
    ASSUME EntriesOk, NEW o \in Orders, demo_orders'[o] = demo_orders[o]
    PROVE  Grows(o)
BY KnowsReflexive DEF Grows, EntriesOk

\* The evaluation writes to the tables only what fits the venue's order.
LEMMA EvaluationGrows ==
    ASSUME TypeInv, RowsInv, SizeInv, Evaluation, NEW o \in Orders
    PROVE  Grows(o)
<1>. USE DEF venueVars, dbVars
<1>0. EntriesOk
    BY DEF SizeInv
<1>1. CASE UNCHANGED demo_orders
    BY <1>0, <1>1, UntouchedGrows
<1>2. CASE EvalConflict
  <2>1. eval.order \in Orders /\ exch[eval.order] \in VenueOrder /\ Placed(eval.order)
    BY <1>2 DEF EvalConflict, TypeInv, TypeOK, InFlightOk, Placed
  <2>2. PICK named \in BOOLEAN :
            IF Adoptable(eval.order, eval.contracts) /\
                 ~InsertCollides(demo_orders[eval.order],
                                 FinalSnapshot(exch[eval.order], named))
            THEN demo_orders' = [demo_orders EXCEPT ![eval.order] =
                    IdempotentInsert(demo_orders[eval.order],
                                     FinalSnapshot(exch[eval.order], named), eval.contracts)]
            ELSE UNCHANGED demo_orders
    BY <1>2 DEF EvalConflict
  <2>. DEFINE e    == demo_orders[eval.order]
              x    == exch[eval.order]
              snap == FinalSnapshot(x, named)
  <2>3. snap \in Snapshot /\ Fits(snap, x)
    BY <2>1, SnapshotTypes, SnapshotsFit
  <2>4. e \in Entry /\ RowsOk(e) /\ RowsFit(e, x) /\ eval.contracts \in Contracts
    BY <1>0, <2>1 DEF TypeInv, TypeOK, RowsInv, EntriesOk
  <2>5. CASE Adoptable(eval.order, eval.contracts) /\ ~InsertCollides(e, snap)
    <3>1. eval.contracts = x.requested
      BY <2>5 DEF Adoptable
    <3>2. demo_orders' = [demo_orders EXCEPT ![eval.order] =
                            IdempotentInsert(e, snap, eval.contracts)]
      BY <2>2, <2>5
    <3>. HIDE DEF e, x, snap
    <3>3. /\ RowsFit(IdempotentInsert(e, snap, eval.contracts), x)
          /\ Knows(e, IdempotentInsert(e, snap, eval.contracts))
      BY <2>1, <2>3, <2>4, <3>1, IdempotentInsertKnows DEF x
    <3>4. CASE o = eval.order
      BY <2>1, <3>2, <3>3, <3>4 DEF Grows, TypeInv, TypeOK, e, x
    <3>5. CASE o # eval.order
      BY <1>0, <3>2, <3>5, UntouchedGrows DEF TypeInv, TypeOK
    <3>. QED BY <3>4, <3>5
  <2>6. CASE ~(Adoptable(eval.order, eval.contracts) /\ ~InsertCollides(e, snap))
    BY <1>1, <2>2, <2>6
  <2>. QED BY <2>5, <2>6
<1>3. CASE EvalCommit
  <2>1. CASE o \in Accepted
    <3>1. /\ demo_orders[o] \in Entry /\ RowsOk(demo_orders[o])
          /\ eval.results[o] \in Snapshot
      BY <2>1 DEF Accepted, TypeInv, TypeOK, RowsInv
    <3>2. Placed(o) /\ Fits(eval.results[o], exch[o]) /\ exch[o] \in VenueOrder
      BY <2>1 DEF Accepted, SizeInv, AnswersOk, Placed, TypeInv, TypeOK
    <3>3. PICK b \in BOOLEAN :
              demo_orders'[o] = CommitOrder(SideOf(o), demo_orders[o], eval.results[o], b)
      BY <1>3, <2>1, CommitWrites
    <3>4. RowsFit(demo_orders[o], exch[o])
      BY <1>0, <3>2 DEF EntriesOk
    <3>. QED BY <3>1, <3>2, <3>3, <3>4, SideType, CommitOrderKnows DEF Grows
  <2>2. CASE o \notin Accepted
    BY <1>0, <1>3, <2>2, UntouchedGrows DEF EvalCommit
  <2>. QED BY <2>1, <2>2
<1>. QED BY <1>1, <1>2, <1>3
         DEF Evaluation, EvalPost, EvalCreated, EvalRejected, EvalRaises, EvalAborts

\* The reconciler writes only what the venue shows it, and attributes nothing.
LEMMA ReconcilerGrows ==
    ASSUME TypeInv, SizeInv, Reconciler, NEW o \in Orders
    PROVE  Grows(o) /\ SameIntent(demo_orders[o], demo_orders'[o])
<1>. USE DEF venueVars, dbVars
<1>0. EntriesOk /\ FillsOk
    BY DEF SizeInv
<1>1. CASE UNCHANGED demo_orders
    BY <1>0, <1>1, UntouchedGrows, KnowsReflexive
<1>2. CASE RecCommit
  <2>. DEFINE e      == demo_orders[o]
              listed == o \in rec.orders
              snap   == FinalSnapshot(exch[o], TRUE)
              seen   == IF listed THEN UpsertExchangeRecord(e, snap) ELSE e
              status == IF listed THEN VenueStatus(exch[o]) ELSE "executed"
              k      == rec.fills[o]
              f      == ReconcileFills(SideOf(o), seen, k, listed, status)
  <2>1. demo_orders'[o] = f
    BY <1>2 DEF RecCommit, Reconciled
  <2>2. listed \in BOOLEAN /\ k \in 0..MaxContracts /\ e \in Entry
    BY DEF TypeInv, TypeOK
  <2>3. CASE Placed(o)
    <3>1. exch[o] \in VenueOrder /\ RowsFit(e, exch[o])
      BY <1>0, <2>3 DEF Placed, TypeInv, TypeOK, EntriesOk
    <3>2. snap \in Snapshot /\ Fits(snap, exch[o]) /\ status \in Status
      BY <3>1, SnapshotTypes, SnapshotsFit DEF Status
    <3>3. k <= exch[o].filled
      BY <1>0, <2>2, <3>1, NoneAssumption DEF FillsOk, VenueOrder
    <3>. HIDE DEF e, listed, snap, status, k
    <3>4. /\ seen \in Entry /\ RowsFit(seen, exch[o])
          /\ Knows(e, seen) /\ SameIntent(e, seen)
      BY <2>2, <3>1, <3>2, UpsertType, UpsertKnows, KnowsReflexive
    <3>. HIDE DEF seen
    <3>5. RowsFit(f, exch[o]) /\ Knows(seen, f) /\ SameIntent(seen, f)
      BY <2>2, <3>1, <3>2, <3>3, <3>4, SideType, ReconcileFillsKnows
    <3>. HIDE DEF f
    <3>6. Knows(e, f) /\ SameIntent(e, f)
      BY <3>4, <3>5 DEF Knows, SameIntent
    <3>. QED BY <2>1, <2>3, <3>5, <3>6 DEF Grows, e
  <2>4. CASE ~Placed(o)
    <3>1. ~listed /\ k = 0
      BY <1>0, <2>4 DEF FillsOk, TypeInv, InFlightOk
    <3>2. f = e
      BY <3>1 DEF ReconcileFills
    <3>. HIDE DEF f
    <3>3. demo_orders'[o] = demo_orders[o]
      BY <2>1, <3>2
    <3>. QED BY <1>0, <3>3, UntouchedGrows, KnowsReflexive
  <2>. QED BY <2>3, <2>4
<1>. QED BY <1>1, <1>2 DEF Reconciler, PollFills, PollOrders, RecFails

\* Between two cycles there is no answer, and a call that ends waits for none.
LEMMA NoAnswers ==
    ASSUME NEW tried, NEW results
    PROVE  /\ EvalIdle(tried, results).pc = "idle"
           /\ EvalIdle(tried, results).results = results
           /\ NoCycle.pc = "idle" /\ NoCycle.tried = {}
           /\ \A o \in Orders : NoCycle.results[o] = NONE
BY DEF EvalIdle, NoCycle

\* The evaluation keeps the answers it has, and drops them with the cycle.
LEMMA SizeEvaluation == TypeInv /\ RowsInv /\ SizeInv /\ Evaluation => SizeInv'
<1>. SUFFICES ASSUME TypeInv, RowsInv, SizeInv, Evaluation PROVE SizeInv'
    OBVIOUS
<1>. USE DEF venueVars, dbVars
<1>1. UNCHANGED <<exch, rec>>
    BY DEF Evaluation, EvalPost, EvalCreated, EvalRejected, EvalRaises, EvalConflict,
           EvalCommit, EvalAborts
<1>2. FillsOk'
    BY <1>1 DEF SizeInv, FillsOk, Placed
<1>3. EntriesOk'
    BY <1>1, EvaluationGrows DEF SizeInv, EntriesOk, Grows, Placed
<1>4. ASSUME eval'.pc # "created",
             \A o \in Orders : eval'.results[o] # NONE =>
                Placed(o) /\ Fits(eval'.results[o], exch[o])
      PROVE  SizeInv'
    BY <1>1, <1>2, <1>3, <1>4 DEF SizeInv, AnswersOk, Placed
<1>5. \A o \in Orders : eval.results[o] # NONE =>
          Placed(o) /\ Fits(eval.results[o], exch[o])
    BY DEF SizeInv, AnswersOk
<1>6. ASSUME NEW o \in Orders, NEW n \in Contracts, EvalPost(o, n)
      PROVE  SizeInv'
  <2>1. eval'.pc = "posted" /\ eval'.results = eval.results
    BY <1>6 DEF EvalPost, TypeInv, TypeOK
  <2>. QED BY <1>4, <1>5, <2>1
<1>7. CASE EvalCreated
  <2>1. /\ eval'.pc = "idle"
        /\ eval'.results = [eval.results EXCEPT ![eval.order] = eval.reply]
    BY <1>7, NoAnswers DEF EvalCreated, EndCall
  <2>2. Placed(eval.order) /\ Fits(eval.reply, exch[eval.order])
    BY <1>7 DEF EvalCreated, SizeInv, AnswersOk
  <2>3. \A o \in Orders :
            eval'.results[o] = IF o = eval.order THEN eval.reply ELSE eval.results[o]
    BY <2>1 DEF TypeInv, TypeOK
  <2>. QED BY <1>4, <1>5, <2>1, <2>2, <2>3
<1>8. CASE EvalRejected \/ EvalRaises \/ EvalConflict
  <2>1. eval'.pc = "idle" /\ eval'.results = eval.results
    BY <1>8, NoAnswers DEF EvalRejected, EvalRaises, EvalConflict, EndCall
  <2>. QED BY <1>4, <1>5, <2>1
<1>9. CASE EvalCommit \/ EvalAborts
  <2>1. eval' = NoCycle
    BY <1>9 DEF EvalCommit, EvalAborts
  <2>. QED BY <1>4, <2>1, NoAnswers
<1>. QED BY <1>6, <1>7, <1>8, <1>9 DEF Evaluation

\* A poll has no more fills in hand than the venue lists.
LEMMA SizeReconciler == TypeInv /\ SizeInv /\ Reconciler => SizeInv'
<1>. SUFFICES ASSUME TypeInv, SizeInv, Reconciler PROVE SizeInv'
    OBVIOUS
<1>. USE DEF venueVars, dbVars
<1>1. UNCHANGED <<exch, eval>>
    BY DEF Reconciler, PollFills, PollOrders, RecCommit, RecFails
<1>2. AnswersOk'
    BY <1>1 DEF SizeInv, AnswersOk, Placed
<1>3. EntriesOk'
    BY <1>1, ReconcilerGrows DEF SizeInv, EntriesOk, Grows, Placed
<1>4. FillsOk'
  <2>1. CASE PollFills
    <3>1. rec'.fills = [o \in Orders |-> IF Placed(o) /\ exch[o].at >= watermark
                                         THEN exch[o].fills ELSE 0]
      BY <2>1 DEF PollFills, TypeInv, TypeOK
    <3>. QED BY <1>1, <3>1 DEF SizeInv, FillsOk, Placed
  <2>2. CASE PollOrders
    <3>1. rec'.fills = rec.fills
      BY <2>2 DEF PollOrders, TypeInv, TypeOK
    <3>. QED BY <1>1, <3>1 DEF SizeInv, FillsOk, Placed
  <2>3. CASE RecCommit \/ RecFails
    <3>1. \A o \in Orders : rec'.fills[o] = 0
      BY <2>3 DEF RecCommit, RecFails, RecIdle
    <3>. QED BY <1>1, <3>1 DEF SizeInv, FillsOk, Placed
  <2>. QED BY <2>1, <2>2, <2>3 DEF Reconciler
<1>. QED BY <1>2, <1>3, <1>4 DEF SizeInv

\* A crash forgets the answers and the fills in hand.
LEMMA SizeProcess == SizeInv /\ Process => SizeInv'
<1>. SUFFICES ASSUME SizeInv, Process PROVE SizeInv'
    OBVIOUS
<1>. USE DEF venueVars, dbVars
<1>1. CASE Boot \/ BootCheck
    BY <1>1 DEF Boot, BootCheck, SizeInv, FillsOk, AnswersOk, EntriesOk, Placed
<1>2. CASE Crash
  <2>1. \A o \in Orders : rec'.fills[o] = 0
    BY <1>2 DEF Crash, RecIdle
  <2>2. eval' = NoCycle /\ UNCHANGED <<exch, demo_orders>>
    BY <1>2 DEF Crash
  <2>. QED BY <2>1, <2>2, NoAnswers DEF SizeInv, FillsOk, AnswersOk, EntriesOk, Placed
<1>. QED BY <1>1, <1>2 DEF Process

\* With the invariant of the watermark, which has the types and the bound
\* rows, the sizes are inductive.
LEMMA SizeStep == WatermarkInv /\ SizeInv /\ [Next]_vars => SizeInv'
<1>1. SizeInv /\ UNCHANGED vars => SizeInv'
    BY DEF vars, venueVars, dbVars, SizeInv, FillsOk, AnswersOk, EntriesOk, Placed
<1>. QED BY <1>1, SizeVenue, SizeEvaluation, SizeReconciler, SizeProcess
     DEF Next, WatermarkInv

\* No row of demo_orders asks for other than the venue's order of its client
\* id, no row precedes its order, and no paper trade counts a fill that the
\* venue did not book.
THEOREM RowsStayWithinTheVenue == Spec => []RowsNeverExceedTheVenue
<1>1. Spec => [](WatermarkInv /\ SizeInv)
    BY WatermarkInit, WatermarkStep, SizeInit, SizeStep, PTL DEF Spec
<1>2. SizeInv => RowsNeverExceedTheVenue
    BY DEF SizeInv, EntriesOk, EmptyEntry, RowsFit, Fits,
           RowsNeverExceedTheVenue, RowsAgreeOnSize, PaperNeverOvercounts
<1>. QED BY <1>1, <1>2, PTL

-----------------------------------------------------------------------------
(***************************************************************************)
(* The tables only ever learn.  Besides the invariants above, the          *)
(* refinement needs that the watermark never moves back: a poll in         *)
(* progress started no earlier than the persisted watermark was taken.     *)
(***************************************************************************)
HorizonOk ==
    last_poll_ts # NONE =>
        /\ last_poll_ts <= clock - Overlap
        /\ rec.pc # "idle" => last_poll_ts <= rec.started

LedgerInv == WatermarkInv /\ SizeInv /\ HorizonOk

\* No watermark is persisted yet.
LEMMA LedgerInit == Init => LedgerInv
BY WatermarkInit, SizeInit DEF Init, LedgerInv, HorizonOk

\* The clock only moves on, a poll takes its watermark from the clock and a
\* commit persists it.
LEMMA HorizonStep == TypeInv /\ PollOk /\ HorizonOk /\ [Next]_vars => HorizonOk'
<1>. SUFFICES ASSUME TypeInv, PollOk, HorizonOk, [Next]_vars PROVE HorizonOk'
    OBVIOUS
<1>. USE DEF venueVars, dbVars
<1>1. /\ clock \in Nat /\ Overlap \in Nat /\ rec.started \in Int
      /\ last_poll_ts # NONE => last_poll_ts \in Int
    BY OverlapCoversLag DEF TypeInv, TypeOK
<1>2. CASE UNCHANGED <<clock, last_poll_ts, rec>>
    BY <1>2 DEF HorizonOk
<1>3. CASE Tick
    BY <1>1, <1>3 DEF Tick, HorizonOk
<1>4. CASE PollFills
  <2>1. /\ rec'.started = clock - Overlap
        /\ UNCHANGED <<clock, last_poll_ts>>
    BY <1>4 DEF PollFills, TypeInv, TypeOK
  <2>. QED BY <1>1, <2>1 DEF HorizonOk
<1>5. CASE PollOrders
  <2>1. /\ rec'.started = rec.started /\ rec.pc # "idle"
        /\ UNCHANGED <<clock, last_poll_ts>>
    BY <1>5 DEF PollOrders, TypeInv, TypeOK
  <2>. QED BY <1>1, <2>1 DEF HorizonOk
<1>6. CASE RecCommit
  <2>1. /\ last_poll_ts' = rec.started /\ clock' = clock /\ rec'.pc = "idle"
        /\ rec.pc # "idle"
    BY <1>6, RecIdleType DEF RecCommit
  <2>. QED BY <2>1 DEF HorizonOk, PollOk
<1>7. CASE RecFails \/ Crash
  <2>1. UNCHANGED <<clock, last_poll_ts>> /\ rec'.pc = "idle"
    BY <1>7, RecIdleType DEF RecFails, Crash
  <2>. QED BY <2>1 DEF HorizonOk
<1>. QED BY <1>2, <1>3, <1>4, <1>5, <1>6, <1>7
         DEF Next, vars, Venue, Evaluation, Reconciler, Process, Accept, Conflict,
             PublishOrder, PublishFill, AcceptStale, EvalPost, EvalCreated, EvalRejected,
             EvalRaises, EvalConflict, EvalCommit, EvalAborts, Boot, BootCheck

\* All three are inductive together.
LEMMA LedgerInvStep == LedgerInv /\ [Next]_vars => LedgerInv'
BY WatermarkStep, SizeStep, HorizonStep DEF LedgerInv, WatermarkInv, PollInv

\* The ledger is empty at first.
LEMMA LedgerStarts == Init => Ledger!Init
BY DEF Init, Ledger!Init, Placed, EmptyEntry

\* A step that places nothing and writes nothing is invisible.
LEMMA NothingLearned ==
    ASSUME TypeInv, UNCHANGED <<clock, demo_orders, last_poll_ts>>,
           \A o \in Orders : /\ Placed(o) <=> Placed(o)'
                             /\ Placed(o) => exch'[o].at = exch[o].at
    PROVE  UNCHANGED Ledger!vars
<1>1. [o \in Orders |-> IF Placed(o) THEN exch[o].at ELSE NONE]
        = [o \in Orders |-> IF Placed(o)' THEN exch'[o].at ELSE NONE]
    OBVIOUS
<1>. QED BY <1>1 DEF Ledger!vars, Ledger!ledger, Placed

\* The orders that the ledger has as placed are those at the venue.
LEMMA PlacedInLedger ==
    ASSUME TypeInv
    PROVE  Ledger!PlacedOrders = {o \in Orders : Placed(o)}
<1>1. \A o \in Orders : Placed(o) => exch[o].at # NONE
    BY NoneAssumption DEF Placed, TypeInv, TypeOK, VenueOrder
<1>. QED BY <1>1 DEF Ledger!PlacedOrders

\* A write whose entries all grow learns.
LEMMA GrowingLearns ==
    ASSUME LedgerInv, LedgerInv', UNCHANGED <<clock, exch, last_poll_ts>>,
           \A o \in Orders : Grows(o)
    PROVE  Ledger!Learn
<1>1. ASSUME NEW o \in Orders
      PROVE  /\ Knows(demo_orders[o], demo_orders'[o])
             /\ \/ demo_orders'[o].own # NONE \/ demo_orders'[o].backfill # NONE
                \/ demo_orders'[o].paper # NONE
                => Placed(o)
  <2>1. CASE Placed(o)
    BY <2>1 DEF Grows
  <2>2. CASE ~Placed(o)
    BY <2>2, KnowsReflexive DEF Grows, LedgerInv, SizeInv, EntriesOk, EmptyEntry
  <2>. QED BY <2>1, <2>2
<1>2. {o \in Orders : demo_orders[o].own # NONE \/ demo_orders[o].backfill # NONE}
        \subseteq
      {o \in Orders : demo_orders'[o].own # NONE \/ demo_orders'[o].backfill # NONE}
    BY <1>1 DEF Knows
<1>3. {o \in Orders : demo_orders'[o].own # NONE \/ demo_orders'[o].backfill # NONE}
        \subseteq Ledger!PlacedOrders
    BY <1>1, PlacedInLedger DEF LedgerInv, WatermarkInv
<1>4. {o \in Orders : demo_orders[o].own # NONE /\ demo_orders[o].own.intent}
        \subseteq
      {o \in Orders : demo_orders'[o].own # NONE /\ demo_orders'[o].own.intent}
    BY <1>1 DEF Knows
<1>5. UNCHANGED [o \in Orders |-> IF Placed(o) THEN exch[o].at ELSE NONE]
    BY DEF Placed
<1>6. ASSUME NEW o \in Orders
      PROVE  LET c == [p \in Orders |-> IF demo_orders[p].paper = NONE THEN NONE
                                        ELSE demo_orders[p].paper.contracts]
             IN  /\ c[o] # NONE => c'[o] = c[o]
                 /\ c'[o] # NONE => o \in Ledger!PlacedOrders
    BY <1>1, PlacedInLedger DEF Knows, LedgerInv, WatermarkInv
<1>. QED BY <1>2, <1>3, <1>4, <1>5, <1>6 DEF Ledger!Learn

\* An order that the venue books anew is placed in the ledger, now.
LEMMA BookingPlaces ==
    ASSUME TypeInv, NEW p \in Orders, ~Placed(p), NEW n \in Contracts, NEW f \in 0..n,
           exch' = [exch EXCEPT ![p] = NewOrder(n, f)],
           UNCHANGED <<clock, demo_orders, last_poll_ts>>
    PROVE  Ledger!Place(p)
<1>1. NewOrder(n, f) # NONE /\ NewOrder(n, f).at = clock
    BY NewOrderType, OrdersAssumption DEF NewOrder, TypeInv
<1>2. \A o \in Orders :
          (IF exch'[o] # NONE THEN exch'[o].at ELSE NONE)
            = IF o = p THEN clock ELSE IF Placed(o) THEN exch[o].at ELSE NONE
    BY <1>1 DEF Placed, TypeInv, TypeOK
<1>3. [o \in Orders |-> IF Placed(o)' THEN exch'[o].at ELSE NONE]
        = [[o \in Orders |-> IF Placed(o) THEN exch[o].at ELSE NONE] EXCEPT ![p] = clock]
    BY <1>2 DEF Placed
<1>. QED BY <1>3 DEF Ledger!Place, Ledger!ledger, Placed

\* The steps of the venue let time pass, place an order, or are invisible.
LEMMA LedgerVenue ==
    ASSUME TypeInv, Venue
    PROVE  Ledger!Pass \/ (\E o \in Orders : Ledger!Place(o)) \/ UNCHANGED Ledger!vars
<1>. USE DEF venueVars, dbVars
<1>1. CASE Tick
  <2>1. UNCHANGED [o \in Orders |-> IF Placed(o) THEN exch[o].at ELSE NONE]
    BY <1>1 DEF Tick, Placed
  <2>. QED BY <1>1, <2>1 DEF Tick, Ledger!Pass, Ledger!ledger
<1>2. CASE Accept
  <2>1. eval.order \in Orders /\ ~Placed(eval.order) /\ eval.contracts \in Contracts
    BY <1>2 DEF Accept, TypeInv, TypeOK, InFlightOk
  <2>2. PICK f \in 0..eval.contracts :
            exch' = [exch EXCEPT ![eval.order] = NewOrder(eval.contracts, f)]
    BY <1>2 DEF Accept
  <2>. QED BY <1>2, <2>1, <2>2, BookingPlaces DEF Accept
<1>3. CASE Conflict
    BY <1>3, NothingLearned DEF Conflict, Placed
<1>4. ASSUME NEW p \in Orders, PublishOrder(p) \/ PublishFill(p)
      PROVE  UNCHANGED Ledger!vars
  <2>1. exch[p] \in VenueOrder
    BY <1>4 DEF PublishOrder, PublishFill, Placed, TypeInv, TypeOK
  <2>2. PICK x \in VenueOrder : exch' = [exch EXCEPT ![p] = x] /\ x.at = exch[p].at
    <3>1. CASE PublishOrder(p)
      <4>. DEFINE x == [exch[p] EXCEPT !.listed = TRUE]
      <4>1. x \in VenueOrder /\ x.at = exch[p].at
        BY <2>1 DEF VenueOrder
      <4>. QED BY <3>1, <4>1 DEF PublishOrder
    <3>2. CASE PublishFill(p)
      <4>. DEFINE x == [exch[p] EXCEPT !.fills = @ + 1]
      <4>1. x \in VenueOrder /\ x.at = exch[p].at
        BY <2>1, <3>2, NoneAssumption DEF VenueOrder, PublishFill
      <4>. QED BY <3>2, <4>1 DEF PublishFill
    <3>. QED BY <1>4, <3>1, <3>2
  <2>3. x # NONE /\ Placed(p)
    BY <1>4, OrdersAssumption DEF PublishOrder, PublishFill
  <2>. QED BY <1>4, <2>2, <2>3, NothingLearned
           DEF PublishOrder, PublishFill, Placed, TypeInv, TypeOK
<1>5. ASSUME NEW p \in Orders, NEW n \in Contracts, AcceptStale(p, n)
      PROVE  Ledger!Place(p) \/ UNCHANGED Ledger!vars
  <2>1. CASE Placed(p)
    BY <1>5, <2>1, NothingLearned DEF AcceptStale, Placed
  <2>2. CASE ~Placed(p)
    BY <1>5, <2>2, BookingPlaces DEF AcceptStale
  <2>. QED BY <2>1, <2>2
<1>. QED BY <1>1, <1>2, <1>3, <1>4, <1>5 DEF Venue

\* A committed reconcile learns of orders and moves the horizon over recorded
\* ones only.
LEMMA LedgerReconciler ==
    ASSUME LedgerInv, LedgerInv', Reconciler
    PROVE  Ledger!Advance(last_poll_ts') \/ UNCHANGED Ledger!vars
<1>. USE DEF venueVars, dbVars
<1>0. TypeInv /\ TimeOk /\ PollOk /\ SizeInv /\ HorizonOk
    BY DEF LedgerInv, WatermarkInv, PollInv
<1>1. CASE UNCHANGED <<clock, exch, demo_orders, last_poll_ts>>
    BY <1>0, <1>1, NothingLearned DEF Placed
<1>2. CASE RecCommit
  <2>1. UNCHANGED <<clock, exch>> /\ last_poll_ts' = rec.started /\ rec.pc = "orders"
    BY <1>2 DEF RecCommit
  <2>2. \A o \in Orders : Grows(o) /\ SameIntent(demo_orders[o], demo_orders'[o])
    BY <1>0, ReconcilerGrows
  <2>3. ASSUME NEW o \in Orders
        PROVE  /\ Knows(demo_orders[o], demo_orders'[o])
               /\ demo_orders'[o].own # NONE \/ demo_orders'[o].backfill # NONE => Placed(o)
    <3>1. CASE Placed(o)
      BY <2>2, <3>1 DEF Grows
    <3>2. CASE ~Placed(o)
      BY <1>0, <2>2, <3>2, KnowsReflexive
         DEF Grows, SizeInv, EntriesOk, EmptyEntry
    <3>. QED BY <3>1, <3>2
  <2>4. {o \in Orders : demo_orders[o].own # NONE \/ demo_orders[o].backfill # NONE}
          \subseteq
        {o \in Orders : demo_orders'[o].own # NONE \/ demo_orders'[o].backfill # NONE}
    BY <2>3 DEF Knows
  <2>5. {o \in Orders : demo_orders'[o].own # NONE \/ demo_orders'[o].backfill # NONE}
          \subseteq Ledger!PlacedOrders
    BY <1>0, <2>3, PlacedInLedger
  <2>6. {o \in Orders : demo_orders'[o].own # NONE /\ demo_orders'[o].own.intent}
          = {o \in Orders : demo_orders[o].own # NONE /\ demo_orders[o].own.intent}
    BY <2>2 DEF SameIntent, Attributed
  <2>7. ASSUME NEW o \in Orders
        PROVE  LET c == [p \in Orders |-> IF demo_orders[p].paper = NONE THEN NONE
                                          ELSE demo_orders[p].paper.contracts]
               IN  /\ c[o] # NONE => c'[o] = c[o]
                   /\ c[o] = NONE /\ c'[o] # NONE =>
                         demo_orders[o].own # NONE /\ demo_orders[o].own.intent
    BY <2>2, <2>3 DEF Knows, SameIntent, Attributed
  <2>8. last_poll_ts' <= clock /\ (last_poll_ts # NONE => last_poll_ts <= last_poll_ts')
    <3>1. rec.started <= clock - Overlap /\ clock \in Nat /\ Overlap \in Nat
          /\ rec.started \in Int
      BY <1>0, <2>1, OverlapCoversLag DEF PollOk, TypeInv, TypeOK
    <3>. QED BY <1>0, <2>1, <3>1 DEF HorizonOk
  <2>9. ASSUME NEW o \in Orders, Placed(o), exch[o].at < last_poll_ts'
        PROVE  demo_orders'[o].own # NONE \/ demo_orders'[o].backfill # NONE
    <3>1. last_poll_ts' # NONE
      BY <1>0, <2>1, NoneAssumption DEF TypeInv, TypeOK
    <3>2. Mirrored(o)'
      BY <2>1, <2>9, <3>1 DEF LedgerInv, WatermarkInv, BehindWatermark, Behind, Placed
    <3>. QED BY <3>2 DEF Mirrored, RowByEid
  <2>10. UNCHANGED [o \in Orders |-> IF Placed(o) THEN exch[o].at ELSE NONE]
    BY <2>1 DEF Placed
  <2>11. \A o \in Ledger!PlacedOrders :
            /\ o \in Orders /\ Placed(o)
            /\ [p \in Orders |-> IF Placed(p) THEN exch[p].at ELSE NONE][o] = exch[o].at
    BY <1>0, PlacedInLedger
  <2>12. Ledger!Advance(last_poll_ts')
    BY <2>1, <2>4, <2>5, <2>6, <2>7, <2>8, <2>9, <2>10, <2>11 DEF Ledger!Advance
  <2>. QED BY <2>12
<1>. QED BY <1>1, <1>2 DEF Reconciler, PollFills, PollOrders, RecFails

\* Every step of the order path is a step of the ledger or invisible.
LEMMA LedgerStep == LedgerInv /\ LedgerInv' /\ [Next]_vars => [Ledger!Next]_(Ledger!vars)
<1>. SUFFICES ASSUME LedgerInv, LedgerInv', [Next]_vars
              PROVE  [Ledger!Next]_(Ledger!vars)
    OBVIOUS
<1>. USE DEF venueVars, dbVars
<1>0. TypeInv /\ RowsInv /\ SizeInv
    BY DEF LedgerInv, WatermarkInv
<1>1. CASE Venue
    BY <1>0, <1>1, LedgerVenue DEF Ledger!Next
<1>2. CASE Evaluation
  <2>1. UNCHANGED <<clock, exch, last_poll_ts>>
    BY <1>2 DEF Evaluation, EvalPost, EvalCreated, EvalRejected, EvalRaises, EvalConflict,
                EvalCommit, EvalAborts
  <2>2. \A o \in Orders : Grows(o)
    BY <1>0, <1>2, EvaluationGrows
  <2>. QED BY <2>1, <2>2, GrowingLearns DEF Ledger!Next
<1>3. CASE Reconciler
    BY <1>3, LedgerReconciler DEF Ledger!Next
<1>4. CASE Process \/ UNCHANGED vars
  <2>1. UNCHANGED <<clock, exch, demo_orders, last_poll_ts>>
    BY <1>4 DEF Process, Boot, BootCheck, Crash, vars
  <2>. QED BY <1>0, <2>1, NothingLearned DEF Placed
<1>. QED BY <1>1, <1>2, <1>3, <1>4 DEF Next

\* The order path implements OrderLedger: through merges of rows, aborted
\* transactions, crashes, restarts and requests that arrive after their sender
\* died, no order is forgotten, attributed to another strategy or counted
\* anew, the reconciler counts none whose strategy is unknown, and the persisted
\* watermark moves forward over recorded orders only.
THEOREM TablesOnlyLearn == Spec => LedgerSpec
<1>1. Spec => []LedgerInv
    BY LedgerInit, LedgerInvStep, PTL DEF Spec
<1>2. Spec => Ledger!Spec
    BY <1>1, LedgerStarts, LedgerStep, PTL DEF Spec, Ledger!Spec
<1>. QED BY <1>2 DEF LedgerSpec

-----------------------------------------------------------------------------
(***************************************************************************)
(* Orders that are named.  Where an answer carries the order id, the row    *)
(* under the client id is bound from its first insert, so the reconciler   *)
(* counts its fills and never makes a second row.  When every answer has   *)
(* the id (OmitsId = FALSE) this holds of all orders; in any case it holds *)
(* of an order whose row an evaluation committed with its id.              *)
(***************************************************************************)
NamedEntry(e) ==
    /\ e.own # NONE => e.own.eid
    /\ e.backfill # NONE /\ e.backfill.filled # 0 => e.backfill.avg # NONE

\* The stitched row is bound, and its fills, which the reconciler wrote with
\* their price, are in the exposure.
LEMMA StitchNamed ==
    ASSUME NEW side \in Frame, NEW e \in Entry, RowsOk(e), NamedEntry(e),
           RowByEid(e) # NONE
    PROVE  LET f == Stitch(side, e) IN
           /\ NamedEntry(f) /\ f.own # NONE /\ f.own.intent
           /\ e.own = NONE /\ RowByEid(e).filled # 0 => f.paper # NONE
           /\ e.paper # NONE => f.paper # NONE
<1>. DEFINE survivor ==
              IF e.own = NONE
              THEN [e.backfill EXCEPT !.intent = TRUE]
              ELSE IF e.own.eid
              THEN [e.own EXCEPT !.intent = TRUE]
              ELSE [e.own EXCEPT !.eid    = TRUE,
                                 !.intent = TRUE,
                                 !.filled = e.backfill.filled,
                                 !.status = e.backfill.status,
                                 !.avg    = e.backfill.avg]
            e1 == [e EXCEPT !.own = survivor, !.backfill = NONE]
            trade == PaperFromDemoRow(side, survivor)
            f == Stitch(side, e)
<1>1. survivor \in DemoOrder /\ survivor.intent /\ survivor.eid
    BY DEF Entry, DemoOrder, RowByEid, RowsOk
<1>2. e.own = NONE /\ RowByEid(e).filled # 0 => survivor.filled # 0 /\ survivor.avg # NONE
    BY DEF Entry, DemoOrder, RowByEid, NamedEntry
<1>. HIDE DEF survivor
<1>3. survivor # NONE
    BY <1>1, NoneAssumption
<1>4. /\ trade \in PaperTrade \cup {NONE}
      /\ e.own = NONE /\ RowByEid(e).filled # 0 => trade # NONE
    BY <1>1, <1>2, PaperFromDemoRowType, PaperSizes
<1>5. f = InsertPaper(e1, trade)
    BY DEF Stitch, survivor
<1>6. /\ e1 \in Entry /\ e1.own = survivor /\ e1.backfill = NONE
      /\ e1.paper = e.paper
    BY <1>1 DEF Entry
<1>. HIDE DEF e1, trade, f
<1>7. /\ f.own = survivor /\ f.backfill = NONE
      /\ e.paper # NONE => f.paper = e.paper
      /\ e.paper = NONE => f.paper = trade
    BY <1>4, <1>5, <1>6, InsertPaperKnows
<1>8. /\ NamedEntry(f) /\ f.own # NONE /\ f.own.intent
      /\ e.own = NONE /\ RowByEid(e).filled # 0 => f.paper # NONE
      /\ e.paper # NONE => f.paper # NONE
    BY <1>1, <1>3, <1>4, <1>7 DEF NamedEntry
<1>. QED BY <1>8 DEF f

\* A committed acceptance leaves a bound row that knows its intent, and counts
\* the fills that the reconciler has seen.
LEMMA CommitOrderNamed ==
    ASSUME NEW side \in Frame, NEW e \in Entry, RowsOk(e), NamedEntry(e), e.own = NONE,
           NEW snap \in Snapshot, snap.named
    PROVE  LET f == CommitOrder(side, e, snap, FALSE) IN
           /\ NamedEntry(f) /\ f.own # NONE /\ f.own.intent
           /\ RowByEid(e) # NONE /\ RowByEid(e).filled # 0 => f.paper # NONE
<1>. DEFINE paid == InsertPaper(e, PaperFromDemoOrder(side, snap))
            f    == CommitOrder(side, e, snap, FALSE)
<1>1. /\ paid \in Entry /\ RowsOk(paid) /\ NamedEntry(paid) /\ paid.own = NONE
      /\ RowByEid(paid) = RowByEid(e)
    BY PaperFromDemoOrderType, InsertPaperType, InsertPaperRows DEF NamedEntry
<1>. HIDE DEF paid
<1>2. CASE RowByEid(paid) # NONE
  <2>1. f = Stitch(side, paid)
    BY <1>2 DEF CommitOrder, paid
  <2>. HIDE DEF f
  <2>2. /\ NamedEntry(f) /\ f.own # NONE /\ f.own.intent
        /\ RowByEid(e) # NONE /\ RowByEid(e).filled # 0 => f.paper # NONE
    BY <1>1, <1>2, <2>1, StitchNamed
  <2>. QED BY <2>2 DEF f
<1>3. CASE RowByEid(paid) = NONE
  <2>. DEFINE row == [ eid       |-> snap.named,
                       intent    |-> TRUE,
                       requested |-> snap.requested,
                       filled    |-> snap.filled,
                       status    |-> snap.status,
                       avg       |-> ParsedAvg(snap.filled) ]
  <2>1. row \in DemoOrder
    BY ParsedAvgType DEF DemoOrder, Snapshot
  <2>2. row # NONE /\ row.eid /\ row.intent
    BY <2>1, RowIsSome
  <2>3. f = [paid EXCEPT !.own = row]
    BY <1>1, <1>3 DEF CommitOrder, InsertDemoRow, paid
  <2>. HIDE DEF row, f
  <2>4. f.own = row /\ f.backfill = paid.backfill
    BY <1>1, <2>3 DEF Entry
  <2>5. /\ NamedEntry(f) /\ f.own # NONE /\ f.own.intent
        /\ RowByEid(e) # NONE /\ RowByEid(e).filled # 0 => f.paper # NONE
    BY <1>1, <1>3, <2>2, <2>4 DEF NamedEntry
  <2>. QED BY <2>5 DEF f
<1>. QED BY <1>2, <1>3

\* A failed savepoint leaves no row under the client id where there was none.
LEMMA CommitOrderFailed ==
    ASSUME NEW side \in Frame, NEW e \in Entry, NEW snap \in Snapshot
    PROVE  LET f == CommitOrder(side, e, snap, TRUE) IN
           f.own = e.own /\ (NamedEntry(e) => NamedEntry(f))
<1>1. CommitOrder(side, e, snap, TRUE) = InsertPaper(e, PaperFromDemoOrder(side, snap))
    BY DEF CommitOrder
<1>. QED BY <1>1, InsertPaperRows DEF NamedEntry

\* and every other commit leaves one.
LEMMA CommitOrderOwns ==
    ASSUME NEW side \in Frame, NEW e \in Entry, NEW snap \in Snapshot
    PROVE  CommitOrder(side, e, snap, FALSE).own # NONE
<1>. DEFINE paid == InsertPaper(e, PaperFromDemoOrder(side, snap))
            f    == CommitOrder(side, e, snap, FALSE)
<1>1. paid \in Entry
    BY PaperFromDemoOrderType, InsertPaperType
<1>. HIDE DEF paid
<1>2. CASE snap.named /\ RowByEid(paid) # NONE
  <2>1. f = Stitch(side, paid)
    BY <1>2 DEF CommitOrder, paid
  <2>. DEFINE survivor ==
                IF paid.own = NONE
                THEN [paid.backfill EXCEPT !.intent = TRUE]
                ELSE IF paid.own.eid
                THEN [paid.own EXCEPT !.intent = TRUE]
                ELSE [paid.own EXCEPT !.eid    = TRUE,
                                      !.intent = TRUE,
                                      !.filled = paid.backfill.filled,
                                      !.status = paid.backfill.status,
                                      !.avg    = paid.backfill.avg]
              e1    == [paid EXCEPT !.own = survivor, !.backfill = NONE]
              trade == PaperFromDemoRow(side, survivor)
  <2>2. survivor \in DemoOrder
    BY <1>1, <1>2 DEF Entry, DemoOrder, RowByEid
  <2>3. f = InsertPaper(e1, trade)
    BY <2>1 DEF Stitch
  <2>. HIDE DEF survivor, f
  <2>4. e1 \in Entry /\ e1.own = survivor /\ survivor # NONE
    BY <1>1, <2>2, NoneAssumption DEF Entry
  <2>. HIDE DEF e1
  <2>5. f.own # NONE
    BY <2>3, <2>4, InsertPaperRows
  <2>. QED BY <2>5 DEF f
<1>3. CASE ~(snap.named /\ RowByEid(paid) # NONE)
  <2>1. f = InsertDemoRow(paid, snap)
    BY <1>3 DEF CommitOrder, paid
  <2>. DEFINE row == IF paid.own # NONE
                     THEN [paid.own EXCEPT !.intent = TRUE]
                     ELSE [ eid       |-> snap.named,
                            intent    |-> TRUE,
                            requested |-> snap.requested,
                            filled    |-> snap.filled,
                            status    |-> snap.status,
                            avg       |-> ParsedAvg(snap.filled) ]
  <2>2. row \in DemoOrder
    BY <1>1, ParsedAvgType DEF Entry, DemoOrder, Snapshot
  <2>3. f = [paid EXCEPT !.own = row]
    BY <1>1, <2>1 DEF InsertDemoRow, Entry
  <2>. HIDE DEF row, f
  <2>4. f.own # NONE
    BY <1>1, <2>2, <2>3, NoneAssumption DEF Entry
  <2>. QED BY <2>4 DEF f
<1>. QED BY <1>2, <1>3

\* An adopted row is bound.
LEMMA IdempotentInsertNamed ==
    ASSUME NEW e \in Entry, RowsOk(e), NamedEntry(e), NEW snap \in Snapshot,
           snap.named \/ e.own # NONE, NEW n \in Contracts
    PROVE  NamedEntry(IdempotentInsert(e, snap, n))
<1>. DEFINE f == IdempotentInsert(e, snap, n)
<1>1. CASE e.own # NONE
  <2>. DEFINE row == [e.own EXCEPT !.eid = @ \/ snap.named, !.status = snap.status]
  <2>1. row.eid
    BY <1>1 DEF Entry, DemoOrder, Snapshot, NamedEntry
  <2>2. f = [e EXCEPT !.own = row]
    BY <1>1 DEF IdempotentInsert, Entry
  <2>3. f.own = row /\ f.backfill = e.backfill
    BY <2>2 DEF Entry
  <2>. HIDE DEF row, f
  <2>. QED BY <2>1, <2>3 DEF NamedEntry, f
<1>2. CASE e.own = NONE /\ e.backfill # NONE
  <2>. DEFINE row == [e.backfill EXCEPT !.intent    = TRUE,
                                        !.requested = n,
                                        !.status    = snap.status]
  <2>1. row.eid
    BY <1>2 DEF Entry, DemoOrder, RowsOk
  <2>2. f = [e EXCEPT !.own = row, !.backfill = NONE]
    BY <1>2 DEF IdempotentInsert
  <2>3. f.own = row /\ f.backfill = NONE
    BY <2>2 DEF Entry
  <2>. HIDE DEF row, f
  <2>. QED BY <2>1, <2>3 DEF NamedEntry, f
<1>3. CASE e.own = NONE /\ e.backfill = NONE
    BY <1>3 DEF IdempotentInsert, NamedEntry, Entry
<1>. QED BY <1>1, <1>2, <1>3

\* An adopted order has a row.
LEMMA IdempotentInsertOwns ==
    ASSUME NEW e \in Entry, NEW snap \in Snapshot, NEW n \in Contracts
    PROVE  IdempotentInsert(e, snap, n).own # NONE
<1>. DEFINE row == IF e.own # NONE
                   THEN [e.own EXCEPT !.eid = @ \/ snap.named, !.status = snap.status]
                   ELSE IF snap.named /\ e.backfill # NONE
                   THEN [e.backfill EXCEPT !.intent    = TRUE,
                                           !.requested = n,
                                           !.status    = snap.status]
                   ELSE [ eid       |-> snap.named,
                          intent    |-> TRUE,
                          requested |-> n,
                          filled    |-> snap.filled,
                          status    |-> snap.status,
                          avg       |-> NONE ]
            f   == IdempotentInsert(e, snap, n)
<1>1. row \in DemoOrder
    BY DEF Entry, DemoOrder, Snapshot
<1>2. f = [e EXCEPT !.own = row] \/ f = [e EXCEPT !.own = row, !.backfill = NONE]
    BY DEF IdempotentInsert, Entry
<1>. HIDE DEF row, f
<1>3. f.own # NONE
    BY <1>1, <1>2, NoneAssumption DEF Entry
<1>. QED BY <1>3 DEF f

\* What the reconciler writes of a listed order names it, with its price.
LEMMA UpsertNamed ==
    ASSUME NEW e \in Entry, NamedEntry(e), NEW snap \in Snapshot, snap.named
    PROVE  NamedEntry(UpsertExchangeRecord(e, snap))
<1>. DEFINE f == UpsertExchangeRecord(e, snap)
<1>1. CASE e.own # NONE
  <2>. DEFINE row == [Booked(e.own, snap) EXCEPT !.eid = @ \/ snap.named]
  <2>1. Booked(e.own, snap) \in DemoOrder
    BY <1>1, BookedType DEF Entry
  <2>2. row.eid
    BY <2>1 DEF DemoOrder
  <2>3. f = [e EXCEPT !.own = row]
    BY <1>1 DEF UpsertExchangeRecord
  <2>4. f.own = row /\ f.backfill = e.backfill
    BY <2>3 DEF Entry
  <2>. HIDE DEF row, f
  <2>. QED BY <2>2, <2>4 DEF NamedEntry, f
<1>2. CASE e.own = NONE
  <2>. DEFINE row == IF e.backfill # NONE
                     THEN Booked(e.backfill, snap)
                     ELSE [ eid       |-> TRUE,
                            intent    |-> FALSE,
                            requested |-> snap.requested,
                            filled    |-> snap.filled,
                            status    |-> snap.status,
                            avg       |-> ParsedAvg(snap.filled) ]
  <2>1. row.filled = snap.filled /\ row.avg = ParsedAvg(snap.filled)
    BY DEF Booked, Entry, DemoOrder
  <2>2. f = [e EXCEPT !.backfill = row]
    BY <1>2 DEF UpsertExchangeRecord
  <2>. HIDE DEF row
  <2>3. f.own = NONE /\ f.backfill = row
    BY <1>2, <2>2 DEF Entry
  <2>. HIDE DEF f
  <2>. QED BY <2>1, <2>3, ParsedAvgType DEF NamedEntry, f
<1>. QED BY <1>1, <1>2

\* The fills of a poll come with their price, and are counted when the bound
\* row knows its intent.
LEMMA ReconcileFillsNamed ==
    ASSUME NEW side \in Frame, NEW e \in Entry, RowsOk(e), NamedEntry(e),
           NEW k \in 0..MaxContracts, NEW listed \in BOOLEAN, NEW st \in Status
    PROVE  LET f == ReconcileFills(side, e, k, listed, st) IN
           /\ NamedEntry(f)
           /\ k # 0 /\ RowByEid(e) # NONE /\ RowByEid(e).intent => f.paper # NONE
<1>. DEFINE f     == ReconcileFills(side, e, k, listed, st)
            row   == FilledBy(side, RowByEid(e), k, listed, st)
            e1    == IF e.backfill # NONE THEN [e EXCEPT !.backfill = row]
                                          ELSE [e EXCEPT !.own = row]
            trade == PaperFromDemoRow(side, row)
<1>1. CASE k = 0 \/ RowByEid(e) = NONE
    BY <1>1 DEF ReconcileFills
<1>2. CASE ~(k = 0 \/ RowByEid(e) = NONE)
  <2>1. RowByEid(e) \in DemoOrder /\ RowByEid(e).eid
    BY <1>2, RowByEidType DEF RowByEid, RowsOk
  <2>2. row \in DemoOrder
    BY <2>1, FilledByType
  <2>3. row.filled = k /\ row.intent = RowByEid(e).intent /\ row.avg = side /\ row.eid
    BY <2>1 DEF FilledBy, FillAvg, DemoOrder
  <2>4. side # NONE
    BY NoneAssumption
  <2>5. trade \in PaperTrade \cup {NONE} /\ (RowByEid(e).intent => trade # NONE)
    BY <1>2, <2>2, <2>3, <2>4, PaperFromDemoRowType, PaperSizes
  <2>6. f = InsertPaper(e1, trade)
    BY <1>2 DEF ReconcileFills
  <2>. HIDE DEF row, trade
  <2>7. /\ e1 \in Entry /\ e1.paper = e.paper
        /\ e.backfill # NONE => e1.backfill = row /\ e1.own = e.own
        /\ e.backfill = NONE => e1.own = row /\ e1.backfill = NONE
    BY <1>2, <2>2 DEF Entry
  <2>. HIDE DEF e1, f
  <2>8. /\ f.own = e1.own /\ f.backfill = e1.backfill
        /\ e.paper # NONE => f.paper = e.paper
        /\ e.paper = NONE => f.paper = trade
    BY <2>5, <2>6, <2>7, InsertPaperKnows
  <2>9. NamedEntry(f)
    BY <2>3, <2>4, <2>7, <2>8 DEF NamedEntry
  <2>10. RowByEid(e).intent => f.paper # NONE
    BY <2>5, <2>8
  <2>. QED BY <2>9, <2>10 DEF f
<1>. QED BY <1>1, <1>2

\* The answer s to the order o is a payload of it, and o has neither a row under
\* its client id nor a paper row yet: it was new to the venue when it was posted,
\* and is posted once in a cycle.
Fresh(o, s) ==
    /\ s.named \/ OmitsId
    /\ s.filled = 0 \/ s.filled = exch[o].filled
    /\ demo_orders[o].own = NONE /\ demo_orders[o].paper = NONE

AnsweredOnce ==
    /\ eval.pc # "idle" => eval.results[eval.order] = NONE /\ eval.order \in eval.tried
    /\ eval.pc = "created" => Fresh(eval.order, eval.reply)
    /\ \A o \in Orders : eval.results[o] # NONE =>
          o \in eval.tried /\ Fresh(o, eval.results[o])

\* The row of the order was committed with the order id of its answer.
Bound(o) == committed[o] = "untold"

EntriesNamed ==
    \A o \in Orders :
        ~OmitsId \/ demo_orders[o].own = NONE \/ Bound(o) => NamedEntry(demo_orders[o])

\* A committed order is at the venue, and its bound row knows its intent.
CommittedOk ==
    \A o \in Orders :
        /\ committed[o] # NONE => Placed(o)
        /\ Bound(o) => Attributed(demo_orders[o])

NamedInv == AnsweredOnce /\ EntriesNamed /\ CommittedOk /\ CommittedFillsCounted

\* Nothing is committed yet.
LEMMA NamedInit == Init => NamedInv
BY NoAnswers, OrdersAssumption
   DEF Init, NamedInv, AnsweredOnce, EntriesNamed, NamedEntry, EmptyEntry, CommittedOk,
       CommittedFillsCounted, Bound, Commitment

\* What is committed and counted stays so in a step that keeps what is known of
\* the orders, and the watermark.
LEMMA CountedStays ==
    ASSUME LedgerInv, NamedInv, UNCHANGED <<committed, last_poll_ts>>,
           \A o \in Orders : Placed(o) =>
              /\ Placed(o)' /\ exch'[o].at = exch[o].at /\ exch'[o].filled = exch[o].filled
              /\ Knows(demo_orders[o], demo_orders'[o])
    PROVE  CommittedOk' /\ CommittedFillsCounted'
<1>1. ASSUME NEW o \in Orders, committed[o] # NONE
      PROVE  /\ Placed(o)' /\ exch'[o].filled = exch[o].filled
             /\ Behind(o, last_poll_ts)' <=> Behind(o, last_poll_ts)
             /\ Knows(demo_orders[o], demo_orders'[o])
    BY <1>1 DEF NamedInv, CommittedOk, Behind
<1>2. "told" # NONE /\ "untold" # NONE
    BY OrdersAssumption DEF Commitment
<1>3. CommittedOk'
    BY <1>1, <1>2 DEF NamedInv, CommittedOk, Bound, Attributed, Knows
<1>4. CommittedFillsCounted'
    BY <1>1, <1>2 DEF NamedInv, CommittedFillsCounted, Knows
<1>. QED BY <1>3, <1>4

\* An answer stays fresh while the order and its entry stay as they are.
LEMMA FreshStays ==
    ASSUME NEW o, NEW s, Fresh(o, s), exch'[o].filled = exch[o].filled,
           demo_orders'[o].own = NONE, demo_orders'[o].paper = NONE
    PROVE  Fresh(o, s)'
BY DEF Fresh

\* The venue answers with a payload of the order, and only once for an order.
LEMMA NamedVenue == LedgerInv /\ NamedInv /\ Venue => NamedInv'
<1>. SUFFICES ASSUME LedgerInv, NamedInv, Venue PROVE NamedInv'
    OBVIOUS
<1>. USE DEF venueVars, dbVars
<1>0. TypeInv /\ SizeInv /\ EntriesOk /\ AnswersOk
    BY DEF LedgerInv, WatermarkInv, SizeInv
<1>1. UNCHANGED <<demo_orders, last_poll_ts, committed>>
    BY DEF Venue, Tick, Accept, Conflict, PublishOrder, PublishFill, AcceptStale
<1>2. EntriesNamed'
    BY <1>1 DEF NamedInv, EntriesNamed, Bound
<1>3. CommittedOk' /\ CommittedFillsCounted'
    BY <1>0, <1>1, VenueKeepsSizes, KnowsReflexive, CountedStays
<1>4. /\ eval'.results = eval.results /\ eval'.tried = eval.tried
      /\ eval'.order = eval.order
    BY <1>0 DEF Venue, Tick, Accept, Conflict, PublishOrder, PublishFill, AcceptStale,
                TypeInv, TypeOK
<1>5. eval'.pc # "idle" => eval.pc # "idle"
    BY DEF Venue, Tick, Accept, Conflict, PublishOrder, PublishFill, AcceptStale
<1>6. ASSUME NEW o \in Orders, NEW s, Placed(o), Fresh(o, s)
      PROVE  Fresh(o, s)'
    BY <1>0, <1>1, <1>6, VenueKeepsSizes, FreshStays DEF Fresh
<1>7. ASSUME eval'.pc = "created"
      PROVE  Fresh(eval.order, eval.reply)'
  <2>1. CASE Accept
    <3>1. PICK f \in 0..eval.contracts :
              LET x == NewOrder(eval.contracts, f) IN
              /\ exch' = [exch EXCEPT ![eval.order] = x]
              /\ \E s \in Snapshots(x) :
                    eval' = [eval EXCEPT !.pc = "created", !.reply = s]
      BY <2>1 DEF Accept
    <3>. DEFINE x == NewOrder(eval.contracts, f)
    <3>2. PICK s \in Snapshots(x) :
              eval' = [eval EXCEPT !.pc = "created", !.reply = s]
      BY <3>1
    <3>3. (s.named \/ OmitsId) /\ (s.filled = 0 \/ s.filled = x.filled)
      BY <3>2 DEF Snapshots, FinalSnapshot, EarlySnapshot
    <3>4. eval'.reply = s
      BY <1>0, <3>2 DEF TypeInv, TypeOK
    <3>5. eval.order \in Orders /\ ~Placed(eval.order)
      BY <1>0, <2>1 DEF Accept, TypeInv, InFlightOk
    <3>6. exch'[eval.order] = x
      BY <1>0, <3>1, <3>5 DEF TypeInv, TypeOK
    <3>7. demo_orders[eval.order] = EmptyEntry
      BY <1>0, <3>5 DEF EntriesOk
    <3>. HIDE DEF x
    <3>. QED BY <1>1, <1>4, <3>3, <3>4, <3>6, <3>7 DEF Fresh, EmptyEntry
  <2>2. CASE ~Accept
    <3>1. eval' = eval
      BY <1>0, <1>7, <2>2 DEF Venue, Tick, Conflict, PublishOrder, PublishFill, AcceptStale,
                              TypeInv, TypeOK
    <3>2. eval.order \in Orders /\ Placed(eval.order) /\ Fresh(eval.order, eval.reply)
      BY <1>0, <1>7, <3>1 DEF TypeInv, InFlightOk, AnswersOk, NamedInv, AnsweredOnce
    <3>. QED BY <1>6, <3>1, <3>2 DEF Fresh
  <2>. QED BY <2>1, <2>2
<1>8. ASSUME NEW o \in Orders, eval'.results[o] # NONE
      PROVE  o \in eval'.tried /\ Fresh(o, eval.results[o])'
  <2>1. eval.results[o] # NONE
    BY <1>4, <1>8
  <2>2. Placed(o) /\ o \in eval.tried /\ Fresh(o, eval.results[o])
    BY <1>0, <2>1 DEF AnswersOk, NamedInv, AnsweredOnce
  <2>. QED BY <1>4, <1>6, <2>2 DEF Fresh
<1>9. AnsweredOnce'
    BY <1>4, <1>5, <1>7, <1>8 DEF NamedInv, AnsweredOnce
<1>. QED BY <1>2, <1>3, <1>9 DEF NamedInv

\* A commit of the evaluation counts the fills it was told, and those that the
\* watermark has passed of an order whose row it writes with its id.
LEMMA NamedEvalCommit == LedgerInv /\ NamedInv /\ EvalCommit => NamedInv'
<1>. SUFFICES ASSUME LedgerInv, NamedInv, EvalCommit PROVE NamedInv'
    OBVIOUS
<1>. USE DEF venueVars, dbVars
<1>0. TypeInv /\ RowsInv /\ BehindWatermark /\ SizeInv
    BY DEF LedgerInv, WatermarkInv
<1>1. eval' = NoCycle /\ UNCHANGED <<exch, last_poll_ts>>
    BY DEF EvalCommit
<1>2. AnsweredOnce'
    BY <1>1, NoAnswers DEF AnsweredOnce
<1>3. PICK failed \in SUBSET Accepted :
          /\ demo_orders' = [o \in Orders |->
                IF o \in Accepted
                THEN CommitOrder(SideOf(o), demo_orders[o], eval.results[o], o \in failed)
                ELSE demo_orders[o]]
          /\ committed' = [o \in Orders |->
                IF o \in Accepted /\ eval.results[o].filled > 0 THEN "told"
                ELSE IF o \in Accepted \ failed /\ eval.results[o].named THEN "untold"
                ELSE committed[o]]
    BY DEF EvalCommit
<1>4. "told" # NONE /\ "untold" # NONE /\ "told" # "untold"
    BY OrdersAssumption DEF Commitment
<1>5. ASSUME NEW o \in Accepted
      PROVE  /\ ~OmitsId \/ demo_orders'[o].own = NONE \/ Bound(o)'
                   => NamedEntry(demo_orders'[o])
             /\ committed'[o] # NONE => Placed(o)'
             /\ Bound(o)' => Attributed(demo_orders'[o])
             /\ committed'[o] = "told" =>
                   /\ demo_orders'[o].paper # NONE
                   /\ demo_orders'[o].paper.contracts = exch'[o].filled
             /\ committed'[o] = "untold" /\ Behind(o, last_poll_ts)' /\ exch'[o].filled > 0
                   => demo_orders'[o].paper # NONE
  <2>. DEFINE e == demo_orders[o]
              s == eval.results[o]
              b == o \in failed
              f == CommitOrder(SideOf(o), e, s, b)
  <2>1. /\ o \in Orders /\ e \in Entry /\ RowsOk(e) /\ s \in Snapshot
        /\ s.filled \in Nat /\ b \in BOOLEAN
    BY <1>0, NoneAssumption DEF Accepted, TypeInv, TypeOK, RowsInv, Snapshot
  <2>2. Placed(o) /\ exch[o] \in VenueOrder /\ Fits(s, exch[o]) /\ RowsFit(e, exch[o])
    BY <1>0, <2>1 DEF Accepted, SizeInv, AnswersOk, EntriesOk, Placed, TypeInv, TypeOK
  <2>3. Fresh(o, s)
    BY <2>1 DEF Accepted, NamedInv, AnsweredOnce
  <2>4. /\ e.own = NONE /\ e.paper = NONE /\ NamedEntry(e) /\ ~Bound(o)
        /\ (s.filled # 0 => s.filled = exch[o].filled) /\ (s.named \/ OmitsId)
    BY <2>1, <2>3 DEF Fresh, NamedInv, EntriesNamed, CommittedOk, Attributed
  <2>5. demo_orders'[o] = f
    BY <1>3, <2>1
  <2>6. committed'[o] = IF s.filled > 0 THEN "told"
                        ELSE IF ~b /\ s.named THEN "untold"
                        ELSE committed[o]
    BY <1>3, <2>1
  <2>7. RowsFit(f, exch[o]) /\ Knows(e, f)
        /\ (s.filled # 0 => f.paper # NONE /\ f.paper.contracts = exch[o].filled)
    BY <2>1, <2>2, <2>4, SideType, CommitOrderKnows
  <2>8. Behind(o, last_poll_ts) =>
            RowByEid(e) # NONE /\ RowByEid(e).filled = exch[o].filled
    BY <1>0, <2>1 DEF BehindWatermark, Mirrored, Mirrors
  <2>9. Placed(o)' /\ exch'[o] = exch[o]
        /\ (Behind(o, last_poll_ts)' <=> Behind(o, last_poll_ts))
    BY <1>1, <2>2 DEF Placed, Behind
  <2>10. b => f.own = NONE /\ NamedEntry(f)
    BY <2>1, <2>4, SideType, CommitOrderFailed
  <2>11. ~b => f.own # NONE
    BY <2>1, SideType, CommitOrderOwns
  <2>12. ~b /\ s.named =>
            /\ NamedEntry(f) /\ Attributed(f)
            /\ RowByEid(e) # NONE /\ RowByEid(e).filled # 0 => f.paper # NONE
    BY <2>1, <2>4, SideType, CommitOrderNamed DEF Attributed
  <2>. HIDE DEF e, s, b, f
  <2>13. committed'[o] = "untold" => ~b /\ s.named
    BY <1>4, <2>4, <2>6 DEF Bound
  <2>14. ~OmitsId \/ f.own = NONE \/ Bound(o)' => NamedEntry(f)
    BY <2>4, <2>10, <2>11, <2>12, <2>13 DEF Bound
  <2>15. Bound(o)' => Attributed(f)
    BY <2>12, <2>13 DEF Bound
  <2>16. committed'[o] = "told" => f.paper # NONE /\ f.paper.contracts = exch[o].filled
    <3>1. CASE s.filled # 0
      BY <2>7, <3>1
    <3>2. CASE s.filled = 0 /\ committed'[o] = "told"
      <4>1. committed[o] = "told"
        BY <1>4, <2>6, <3>2
      <4>. QED BY <2>1, <2>4, <4>1 DEF NamedInv, CommittedFillsCounted, e
    <3>. QED BY <3>1, <3>2
  <2>17. committed'[o] = "untold" /\ Behind(o, last_poll_ts) /\ exch[o].filled > 0
            => f.paper # NONE
    BY <2>2, <2>8, <2>12, <2>13, NoneAssumption DEF VenueOrder
  <2>. QED BY <2>5, <2>9, <2>14, <2>15, <2>16, <2>17
<1>6. ASSUME NEW o \in Orders, o \notin Accepted
      PROVE  demo_orders'[o] = demo_orders[o] /\ committed'[o] = committed[o]
    BY <1>3, <1>6
<1>7. EntriesNamed'
    BY <1>5, <1>6 DEF NamedInv, EntriesNamed, Bound
<1>8. CommittedOk'
    BY <1>1, <1>5, <1>6 DEF NamedInv, CommittedOk, Bound, Placed
<1>9. CommittedFillsCounted'
    BY <1>1, <1>5, <1>6 DEF NamedInv, CommittedFillsCounted, Behind, Placed
<1>. QED BY <1>2, <1>7, <1>8, <1>9 DEF NamedInv

\* The other steps of the evaluation post an order that has no answer yet, and
\* adopt one that had none.
LEMMA NamedEvaluation == LedgerInv /\ NamedInv /\ Evaluation => NamedInv'
<1>. SUFFICES ASSUME LedgerInv, NamedInv, Evaluation, ~EvalCommit PROVE NamedInv'
    BY NamedEvalCommit
<1>. USE DEF venueVars, dbVars
<1>0. TypeInv /\ RowsInv /\ SizeInv
    BY DEF LedgerInv, WatermarkInv
<1>1. UNCHANGED <<exch, last_poll_ts, committed>>
    BY DEF Evaluation, EvalPost, EvalCreated, EvalRejected, EvalRaises, EvalConflict, EvalAborts
<1>2. ASSUME NEW o \in Orders, Placed(o)
      PROVE  /\ Placed(o)' /\ exch'[o].at = exch[o].at /\ exch'[o].filled = exch[o].filled
             /\ Knows(demo_orders[o], demo_orders'[o])
    BY <1>0, <1>1, <1>2, EvaluationGrows DEF Grows, Placed
<1>3. CommittedOk' /\ CommittedFillsCounted'
    BY <1>1, <1>2, CountedStays
<1>4. ASSUME EntriesNamed', AnsweredOnce' PROVE NamedInv'
    BY <1>3, <1>4 DEF NamedInv
<1>5. ASSUME UNCHANGED demo_orders PROVE EntriesNamed'
    BY <1>1, <1>5 DEF NamedInv, EntriesNamed, Bound
<1>6. ASSUME UNCHANGED demo_orders PROVE \A o, s : Fresh(o, s) => Fresh(o, s)'
    BY <1>1, <1>6 DEF Fresh
<1>7. ASSUME NEW o \in Orders, NEW n \in Contracts, EvalPost(o, n)
      PROVE  NamedInv'
  <2>1. /\ eval'.pc = "posted" /\ eval'.order = o /\ eval'.results = eval.results
        /\ eval'.tried = eval.tried \cup {o} /\ o \notin eval.tried
        /\ UNCHANGED demo_orders
    BY <1>0, <1>7 DEF EvalPost, TypeInv, TypeOK
  <2>2. AnsweredOnce'
    BY <1>1, <2>1 DEF NamedInv, AnsweredOnce, Fresh
  <2>. QED BY <1>4, <1>5, <2>1, <2>2
<1>8. ASSUME eval'.pc = "idle", eval'.tried = eval.tried, eval'.results = eval.results,
             \A o \in Orders : eval.results[o] # NONE => demo_orders'[o] = demo_orders[o]
      PROVE  AnsweredOnce'
    BY <1>1, <1>8 DEF NamedInv, AnsweredOnce, Fresh
<1>9. \A tried, results : EvalIdle(tried, results).tried = tried
    BY DEF EvalIdle
<1>10. CASE EvalCreated
  <2>1. /\ eval'.pc = "idle" /\ eval'.tried = eval.tried
        /\ eval'.results = [eval.results EXCEPT ![eval.order] = eval.reply]
        /\ UNCHANGED demo_orders
    BY <1>9, <1>10, NoAnswers DEF EvalCreated, EndCall
  <2>2. \A o \in Orders :
            eval'.results[o] = IF o = eval.order THEN eval.reply ELSE eval.results[o]
    BY <1>0, <2>1 DEF TypeInv, TypeOK
  <2>3. eval.order \in eval.tried /\ Fresh(eval.order, eval.reply)
    BY <1>10 DEF EvalCreated, NamedInv, AnsweredOnce
  <2>4. AnsweredOnce'
    BY <1>1, <2>1, <2>2, <2>3 DEF NamedInv, AnsweredOnce, Fresh
  <2>. QED BY <1>4, <1>5, <2>1, <2>4
<1>11. CASE EvalRejected \/ EvalRaises
  <2>1. /\ eval'.pc = "idle" /\ eval'.tried = eval.tried /\ eval'.results = eval.results
        /\ UNCHANGED demo_orders
    BY <1>9, <1>11, NoAnswers DEF EvalRejected, EvalRaises, EndCall
  <2>. QED BY <1>4, <1>5, <1>8, <2>1
<1>12. CASE EvalConflict
  <2>1. eval'.pc = "idle" /\ eval'.tried = eval.tried /\ eval'.results = eval.results
    BY <1>9, <1>12, NoAnswers DEF EvalConflict, EndCall
  <2>2. /\ eval.order \in Orders /\ exch[eval.order] \in VenueOrder
        /\ demo_orders[eval.order] \in Entry /\ RowsOk(demo_orders[eval.order])
        /\ eval.contracts \in Contracts /\ Placed(eval.order)
        /\ eval.results[eval.order] = NONE
    BY <1>0, <1>12 DEF EvalConflict, TypeInv, TypeOK, InFlightOk, Placed, RowsInv, NamedInv,
                       AnsweredOnce
  <2>3. PICK named \in BOOLEAN :
            /\ named \/ OmitsId
            /\ \/ UNCHANGED demo_orders
               \/ demo_orders' = [demo_orders EXCEPT ![eval.order] =
                     IdempotentInsert(demo_orders[eval.order],
                                      FinalSnapshot(exch[eval.order], named), eval.contracts)]
    BY <1>12 DEF EvalConflict
  <2>4. CASE UNCHANGED demo_orders
    BY <1>4, <1>5, <1>8, <2>1, <2>4
  <2>5. CASE demo_orders' = [demo_orders EXCEPT ![eval.order] =
                 IdempotentInsert(demo_orders[eval.order],
                                  FinalSnapshot(exch[eval.order], named), eval.contracts)]
    <3>. DEFINE e == demo_orders[eval.order]
                s == FinalSnapshot(exch[eval.order], named)
                f == IdempotentInsert(e, s, eval.contracts)
    <3>1. s \in Snapshot /\ s.named = named
      BY <2>2, SnapshotTypes DEF FinalSnapshot
    <3>2. \A o \in Orders : demo_orders'[o] = IF o = eval.order THEN f ELSE demo_orders[o]
      BY <1>0, <2>5 DEF TypeInv, TypeOK
    <3>. HIDE DEF s
    <3>3. f.own # NONE
      BY <2>2, <3>1, IdempotentInsertOwns
    <3>4. ~OmitsId \/ Bound(eval.order) => NamedEntry(e) /\ (s.named \/ e.own # NONE)
      BY <2>2, <2>3, <3>1 DEF NamedInv, EntriesNamed, CommittedOk, Attributed
    <3>5. ~OmitsId \/ Bound(eval.order) => NamedEntry(f)
      BY <2>2, <3>1, <3>4, IdempotentInsertNamed
    <3>. HIDE DEF e, f
    <3>6. EntriesNamed'
      BY <1>1, <3>2, <3>3, <3>5 DEF NamedInv, EntriesNamed, Bound
    <3>7. AnsweredOnce'
      BY <1>8, <2>1, <2>2, <3>2
    <3>. QED BY <1>4, <3>6, <3>7
  <2>. QED BY <2>3, <2>4, <2>5
<1>13. CASE EvalAborts
  <2>1. eval' = NoCycle /\ UNCHANGED demo_orders
    BY <1>13 DEF EvalAborts
  <2>2. AnsweredOnce'
    BY <2>1, NoAnswers DEF AnsweredOnce
  <2>. QED BY <1>4, <1>5, <2>1, <2>2
<1>. QED BY <1>7, <1>10, <1>11, <1>12, <1>13 DEF Evaluation

\* The reconciler gives an order no row under its client id.
LEMMA ReconciledOwn ==
    ASSUME TypeInv, NEW o \in Orders, demo_orders[o].own = NONE
    PROVE  Reconciled(o, demo_orders[o]).own = NONE
<1>. DEFINE e      == demo_orders[o]
            listed == o \in rec.orders
            snap   == FinalSnapshot(exch[o], TRUE)
            seen   == IF listed THEN UpsertExchangeRecord(e, snap) ELSE e
            status == IF listed THEN VenueStatus(exch[o]) ELSE "executed"
            k      == rec.fills[o]
            f      == ReconcileFills(SideOf(o), seen, k, listed, status)
<1>1. e \in Entry /\ e.own = NONE
    BY DEF TypeInv, TypeOK
<1>2. listed => snap \in Snapshot /\ status \in Status
    BY SnapshotTypes DEF TypeInv, TypeOK, InFlightOk, Placed
<1>3. seen \in Entry
    BY <1>1, <1>2, UpsertType
<1>4. seen.own = NONE
    BY <1>1 DEF UpsertExchangeRecord, Entry
<1>5. Reconciled(o, e) = f
    BY DEF Reconciled
<1>6. listed \in BOOLEAN /\ k \in 0..MaxContracts
    BY DEF TypeInv, TypeOK
<1>7. status \in Status
    BY <1>2 DEF Status
<1>. HIDE DEF e, listed, snap, seen, status, k
<1>8. CASE k = 0 \/ RowByEid(seen) = NONE
    BY <1>4, <1>5, <1>8 DEF ReconcileFills, e
<1>9. CASE ~(k = 0 \/ RowByEid(seen) = NONE)
  <2>. DEFINE row   == FilledBy(SideOf(o), RowByEid(seen), k, listed, status)
              e1    == [seen EXCEPT !.backfill = row]
              trade == PaperFromDemoRow(SideOf(o), row)
  <2>1. row \in DemoOrder
    BY <1>3, <1>6, <1>7, <1>9, SideType, RowByEidType, FilledByType
  <2>2. trade \in PaperTrade \cup {NONE}
    BY <2>1, SideType, PaperFromDemoRowType
  <2>3. f = InsertPaper(e1, trade)
    BY <1>4, <1>9 DEF ReconcileFills, RowByEid
  <2>4. e1 \in Entry /\ e1.own = NONE
    BY <1>3, <1>4, <2>1 DEF Entry
  <2>. HIDE DEF e1, trade
  <2>. QED BY <1>5, <2>2, <2>3, <2>4, InsertPaperKnows DEF e
<1>. QED BY <1>8, <1>9

\* A committed reconcile counts the fills of the orders that its new watermark
\* passes and whose bound rows an evaluation has committed.
LEMMA ReconciledNamed ==
    ASSUME LedgerInv, NamedInv, RecCommit, NEW o \in Orders
    PROVE  LET f == Reconciled(o, demo_orders[o]) IN
           /\ NamedEntry(demo_orders[o]) => NamedEntry(f)
           /\ Bound(o) /\ Behind(o, rec.started) /\ exch[o].filled > 0 => f.paper # NONE
<1>. DEFINE e      == demo_orders[o]
            listed == o \in rec.orders
            snap   == FinalSnapshot(exch[o], TRUE)
            seen   == IF listed THEN UpsertExchangeRecord(e, snap) ELSE e
            status == IF listed THEN VenueStatus(exch[o]) ELSE "executed"
            k      == rec.fills[o]
            f      == ReconcileFills(SideOf(o), seen, k, listed, status)
<1>0. /\ TypeInv /\ PollOk /\ TimeOk /\ FirstPollFirst /\ EntriesOk
      /\ e \in Entry /\ RowsOk(e) /\ (Bound(o) => NamedEntry(e))
    BY DEF LedgerInv, WatermarkInv, PollInv, RowsInv, SizeInv, NamedInv, EntriesNamed,
           TypeInv, TypeOK
<1>1. listed \in BOOLEAN /\ k \in 0..MaxContracts
    BY <1>0 DEF TypeInv, TypeOK
<1>2. listed => exch[o] \in VenueOrder /\ Placed(o)
    BY <1>0 DEF TypeInv, TypeOK, InFlightOk, Placed
<1>3. status \in Status
    BY <1>2, SnapshotTypes DEF Status
<1>4. /\ seen \in Entry /\ RowsOk(seen) /\ Knows(e, seen)
      /\ NamedEntry(e) => NamedEntry(seen)
  <2>1. CASE listed
    <3>1. snap \in Snapshot /\ snap.named /\ Fits(snap, exch[o])
      BY <1>2, <2>1, SnapshotTypes, SnapshotsFit DEF FinalSnapshot
    <3>2. ~UpsertCollides(e, snap)
      BY <2>1 DEF RecCommit, RecCollides
    <3>3. RowsFit(e, exch[o])
      BY <1>0, <1>2, <2>1 DEF EntriesOk
    <3>. HIDE DEF snap
    <3>. QED BY <1>0, <1>2, <2>1, <3>1, <3>2, <3>3, UpsertType, UpsertRows, UpsertNamed,
                UpsertKnows
  <2>2. CASE ~listed
    BY <1>0, <2>2, KnowsReflexive
  <2>. QED BY <2>1, <2>2
<1>5. Reconciled(o, e) = f
    BY DEF Reconciled
<1>. HIDE DEF e, listed, snap, seen, status, k
<1>6. /\ NamedEntry(seen) => NamedEntry(f)
      /\ NamedEntry(seen) /\ k # 0 /\ RowByEid(seen) # NONE /\ RowByEid(seen).intent
            => f.paper # NONE
      /\ k = 0 => f = seen
    BY <1>1, <1>3, <1>4, SideType, ReconcileFillsNamed, ReconcileFillsRows
<1>. HIDE DEF f
<1>7. ASSUME Bound(o), Behind(o, rec.started), exch[o].filled > 0
      PROVE  f.paper # NONE
  <2>0. rec.pc = "orders"
    BY DEF RecCommit
  <2>1. e.own # NONE /\ e.own.intent /\ NamedEntry(e) /\ NamedEntry(seen)
    BY <1>0, <1>4, <1>7 DEF NamedInv, CommittedOk, Attributed, e
  <2>2. CASE Asked(o)
    <3>1. k # 0
      BY <1>0, <1>7, <2>0, <2>2 DEF PollOk, Behind, Asked, k
    <3>2. RowByEid(seen) # NONE /\ RowByEid(seen).intent
      BY <1>4, <2>1 DEF Knows, NamedEntry, RowsOk, RowByEid
    <3>. QED BY <1>6, <2>1, <3>1, <3>2
  <2>3. CASE ~Asked(o)
    <3>1. k = 0 /\ ~listed
      BY <1>0, <2>0, <2>3 DEF PollOk, k, listed
    <3>2. Placed(o)
      BY <1>7 DEF Behind
    <3>3. /\ last_poll_ts # NONE /\ watermark = last_poll_ts
          /\ exch[o].at \in Nat /\ watermark \in Int
      BY <1>0, <2>0, <3>2
         DEF FirstPollFirst, TimeOk, PollOk, TypeInv, TypeOK, VenueOrder, Placed
    <3>4. Behind(o, last_poll_ts)
      BY <2>3, <3>2, <3>3 DEF Asked, Behind
    <3>5. e.paper # NONE
      BY <1>7, <3>4 DEF NamedInv, CommittedFillsCounted, Bound, e
    <3>6. f = e
      BY <1>6, <3>1 DEF seen
    <3>. QED BY <3>5, <3>6
  <2>. QED BY <2>2, <2>3
<1>. QED BY <1>4, <1>5, <1>6, <1>7 DEF e

\* The reconciler keeps what is named and counted, with its watermark.
LEMMA NamedReconciler == LedgerInv /\ NamedInv /\ Reconciler => NamedInv'
<1>. SUFFICES ASSUME LedgerInv, NamedInv, Reconciler PROVE NamedInv'
    OBVIOUS
<1>. USE DEF venueVars, dbVars
<1>0. TypeInv /\ SizeInv /\ AnswersOk
    BY DEF LedgerInv, WatermarkInv, SizeInv
<1>1. UNCHANGED <<exch, eval, committed>>
    BY DEF Reconciler, PollFills, PollOrders, RecCommit, RecFails
<1>2. CASE UNCHANGED <<demo_orders, last_poll_ts>>
    BY <1>1, <1>2 DEF NamedInv, AnsweredOnce, Fresh, EntriesNamed, CommittedOk,
                      CommittedFillsCounted, Bound, Behind, Placed
<1>3. CASE RecCommit
  <2>1. /\ last_poll_ts' = rec.started
        /\ \A o \in Orders : demo_orders'[o] = Reconciled(o, demo_orders[o])
    BY <1>3 DEF RecCommit
  <2>2. ASSUME NEW o \in Orders
        PROVE  /\ Grows(o) /\ SameIntent(demo_orders[o], demo_orders'[o])
               /\ Placed(o) => Knows(demo_orders[o], demo_orders'[o])
               /\ demo_orders[o].own = NONE => demo_orders'[o].own = NONE
    BY <1>0, <2>1, ReconcilerGrows, ReconciledOwn DEF Grows
  <2>3. EntriesNamed'
    <3>. SUFFICES ASSUME NEW o \in Orders,
                         ~OmitsId \/ demo_orders'[o].own = NONE \/ Bound(o)'
                  PROVE  NamedEntry(demo_orders'[o])
      BY DEF EntriesNamed
    <3>1. demo_orders'[o].own = NONE => demo_orders[o].own = NONE
      BY <2>2 DEF Grows, Knows
    <3>2. NamedEntry(demo_orders[o])
      BY <1>1, <3>1 DEF NamedInv, EntriesNamed, Bound
    <3>. QED BY <1>3, <2>1, <3>2, ReconciledNamed
  <2>4. AnsweredOnce'
    <3>1. ASSUME NEW o \in Orders, NEW s, Placed(o), Fresh(o, s)
          PROVE  Fresh(o, s)'
      <4>1. demo_orders'[o].own = NONE /\ demo_orders'[o].paper = NONE
        BY <2>2, <3>1 DEF Fresh, SameIntent, Attributed
      <4>. QED BY <1>1, <3>1, <4>1 DEF Fresh
    <3>2. eval.pc = "created" => Fresh(eval.order, eval.reply)'
      BY <1>0, <1>1, <3>1 DEF AnswersOk, NamedInv, AnsweredOnce, TypeInv, InFlightOk, Fresh
    <3>3. \A o \in Orders : eval.results[o] # NONE => Fresh(o, eval.results[o])'
      BY <1>0, <1>1, <3>1 DEF AnswersOk, NamedInv, AnsweredOnce, Fresh
    <3>. QED BY <1>1, <3>2, <3>3 DEF NamedInv, AnsweredOnce, Fresh
  <2>5. ASSUME NEW o \in Orders, committed[o] # NONE
        PROVE  Placed(o) /\ Knows(demo_orders[o], demo_orders'[o])
    BY <2>2, <2>5 DEF NamedInv, CommittedOk
  <2>6. "told" # NONE /\ "untold" # NONE
    BY OrdersAssumption DEF Commitment
  <2>7. CommittedOk'
    BY <1>1, <2>5, <2>6 DEF NamedInv, CommittedOk, Bound, Attributed, Knows, Placed
  <2>8. CommittedFillsCounted'
    BY <1>1, <1>3, <2>1, <2>5, <2>6, ReconciledNamed
       DEF NamedInv, CommittedFillsCounted, Bound, Behind, Placed, Knows
  <2>. QED BY <2>3, <2>4, <2>7, <2>8 DEF NamedInv
<1>. QED BY <1>2, <1>3 DEF Reconciler, PollFills, PollOrders, RecFails

\* A crash drops the answers.
LEMMA NamedProcess == NamedInv /\ Process => NamedInv'
<1>. SUFFICES ASSUME NamedInv, Process PROVE NamedInv'
    OBVIOUS
<1>. USE DEF venueVars, dbVars
<1>1. UNCHANGED <<exch, demo_orders, last_poll_ts, committed>> /\ (eval' = eval \/ eval' = NoCycle)
    BY DEF Process, Boot, BootCheck, Crash
<1>2. AnsweredOnce'
    BY <1>1, NoAnswers DEF NamedInv, AnsweredOnce, Fresh
<1>. QED BY <1>1, <1>2 DEF NamedInv, EntriesNamed, CommittedOk, CommittedFillsCounted, Bound,
                           Behind, Placed

\* With the invariants of the ledger, what is named and counted is inductive.
LEMMA NamedStep == LedgerInv /\ NamedInv /\ [Next]_vars => NamedInv'
<1>1. NamedInv /\ UNCHANGED vars => NamedInv'
    BY DEF vars, venueVars, dbVars, NamedInv, AnsweredOnce, Fresh, EntriesNamed, CommittedOk,
           CommittedFillsCounted, Bound, Behind, Placed
<1>. QED BY <1>1, NamedVenue, NamedEvaluation, NamedReconciler, NamedProcess DEF Next

\* The invariant of named and counted orders.
LEMMA NamedAlways == Spec => [](LedgerInv /\ NamedInv)
<1>1. LedgerInv /\ NamedInv /\ [Next]_vars => (LedgerInv /\ NamedInv)'
    BY LedgerInvStep, NamedStep
<1>2. Init => LedgerInv /\ NamedInv
    BY LedgerInit, NamedInit
<1>. QED BY <1>1, <1>2, PTL DEF Spec

\* Where answers carry the order id, the reconciler's row of an order and the
\* evaluation's are one row, in whichever order they are written.
THEOREM OneRow == ASSUME ~OmitsId PROVE Spec => []OneRowPerOrder
<1>1. LedgerInv /\ NamedInv => OneRowPerOrder
    BY DEF LedgerInv, WatermarkInv, RowsInv, RowsOk, NamedInv, EntriesNamed, NamedEntry,
           OneRowPerOrder
<1>. QED BY <1>1, NamedAlways, PTL

\* The fills that an answer told are counted in full from the commit on, even
\* where the savepoint of the demo row failed or the answer had no order id; the
\* fills of an order whose answer told none are counted, as the first poll saw
\* them, when the watermark has passed the order and its row was committed with
\* its id.
THEOREM CommittedFills == Spec => []CommittedFillsCounted
<1>1. LedgerInv /\ NamedInv => CommittedFillsCounted
    BY DEF NamedInv
<1>. QED BY <1>1, NamedAlways, PTL

\* The rows of a market add up to the venue's position when no order of the
\* market is ahead of the watermark: term by term the two sums are the same.
LEMMA PositionsAgree ==
    ASSUME ~OmitsId, LedgerInv, NamedInv, NEW t \in Tickers,
           \A o \in OrdersOf(t) : Placed(o) => Behind(o, last_poll_ts)
    PROVE  VenuePosition(t) = LocalPosition(t)
<1>1. ASSUME NEW o \in OrdersOf(t)
      PROVE  (IF Placed(o) THEN Signed(o, exch[o].filled) ELSE 0)
             = Signed(o, FilledOf(demo_orders[o].own) + FilledOf(demo_orders[o].backfill))
  <2>0. /\ o \in Orders /\ demo_orders[o] \in Entry
        /\ RowsOk(demo_orders[o]) /\ NamedEntry(demo_orders[o])
    BY DEF OrdersOf, LedgerInv, WatermarkInv, TypeInv, TypeOK, RowsInv, NamedInv, EntriesNamed
  <2>1. CASE Placed(o)
    <3>1. /\ RowByEid(demo_orders[o]) # NONE
          /\ RowByEid(demo_orders[o]).filled = exch[o].filled
      BY <2>0, <2>1 DEF LedgerInv, WatermarkInv, BehindWatermark, Mirrored, Mirrors
    <3>2. exch[o].filled \in Int
      BY <2>0, <2>1, NoneAssumption DEF LedgerInv, WatermarkInv, TypeInv, TypeOK, VenueOrder,
                                        Placed
    <3>3. FilledOf(demo_orders[o].own) + FilledOf(demo_orders[o].backfill) = exch[o].filled
      BY <2>0, <3>1, <3>2 DEF FilledOf, RowByEid, RowsOk, NamedEntry
    <3>. QED BY <2>1, <3>3
  <2>2. CASE ~Placed(o)
    <3>1. demo_orders[o].own = NONE /\ demo_orders[o].backfill = NONE
      BY <2>0, <2>2 DEF LedgerInv, SizeInv, EntriesOk, EmptyEntry
    <3>2. FilledOf(demo_orders[o].own) + FilledOf(demo_orders[o].backfill) = 0
      BY <3>1 DEF FilledOf
    <3>3. Signed(o, 0) = 0
      <4>1. \A c \in Int : Signed(o, c) = c \/ Signed(o, c) = 0 - c
        BY DEF Signed
      <4>. QED BY <4>1
    <3>. QED BY <2>2, <3>2, <3>3
  <2>. QED BY <2>1, <2>2
<1>2. [o \in OrdersOf(t) |-> IF Placed(o) THEN Signed(o, exch[o].filled) ELSE 0]
        = [o \in OrdersOf(t) |-> Signed(o, FilledOf(demo_orders[o].own)
                                           + FilledOf(demo_orders[o].backfill))]
    BY <1>1
<1>. QED BY <1>2 DEF VenuePosition, LocalPosition

\* Where answers carry the order id, a market whose rows do not add up to the
\* venue's position has an order that the watermark has not passed: the boot
\* check never stumbles over anything else.
THEOREM BootMismatch == ASSUME ~OmitsId PROVE Spec => []BootMismatchIsRecent
<1>1. LedgerInv /\ NamedInv => BootMismatchIsRecent
  <2>. SUFFICES ASSUME LedgerInv, NamedInv, NEW t \in Mismatched
                PROVE  \E o \in OrdersOf(t) : Placed(o) /\ ~Behind(o, last_poll_ts)
    BY DEF BootMismatchIsRecent
  <2>. QED BY PositionsAgree DEF Mismatched
<1>. QED BY <1>1, NamedAlways, PTL
==============================================================================
