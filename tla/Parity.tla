-------------------------------- MODULE Parity --------------------------------
(***************************************************************************)
(* The exclusion windows that a pass draws around the gap rows             *)
(* (bot/replay/inventory.py) and the parity gate that compares the pass's  *)
(* replay with book_state_at (bot/replay/parity.py), over a recorded tape. *)
(* An instant is twice a position of the tape, or that and a tick behind;  *)
(* no two entries share an instant, so no delta ties with a snapshot.      *)
(***************************************************************************)
EXTENDS WsTape

Instant(i) == 2 * i
Tick == 1
Position(at) == at \div 2

StoredGaps(tape) == {g \in DOMAIN tape : tape[g].kind = "gap" /\ tape[g].stored}

\* Mutant: the window opens with the stamp of the gap row.
WindowFromStamp(tape, g) ==
    LET after == {r \in Rows(tape) : r > g}
    IN  [ticker |-> tape[g].ticker, start |-> Instant(g), gap |-> Instant(g),
         end |-> IF after = {} THEN 0 ELSE Instant(Min(after))]

\* ExclusionInventory: from the last row before the gap row to the first row
\* after it, of any ticker; 0 stands for no start and for no end.
Window(tape, g) ==
    LET after == {r \in Rows(tape) : r > g}
    IN  [ticker |-> tape[g].ticker, start |-> Instant(PrevRow(tape, g)), gap |-> Instant(g),
         end |-> IF after = {} THEN 0 ELSE Instant(Min(after))]

\* ExclusionWindow.covers
Covers(w, t, at) ==
    /\ w.ticker \in {t, ALL}
    /\ w.start = 0 \/ at > w.start
    /\ w.end = 0 \/ at < w.end

ExclusionWindows(tape) == {Window(tape, g) : g \in StoredGaps(tape)}

\* check_excluded
PassRaises(windows, t, at) == \E w \in windows : Covers(w, t, at)

OracleRaises(tape, t, at) ==
    LET a == Anchor(tape, t, Position(at)) IN a # 0 /\ GapBetween(tape, t, a, Position(at))

\* _pass_views: a Ladder over every row of the ticker up to the instant; below
\* zero it raises.
PassBook(tape, t, at) ==
    LET f[i \in 0..Position(at)] ==
            IF i = 0 THEN 0
            ELSE IF i \notin RowsOf(tape, t) \/ f[i - 1] < 0 THEN f[i - 1]
            ELSE IF tape[i].kind = "snapshot" THEN tape[i].size ELSE f[i - 1] + tape[i].size
    IN  f[Position(at)]

\* _evaluate
Evaluated(tape, windows, t, at) ==
    LET oracle == OracleRaises(tape, t, at)
        pass   == PassRaises(windows, t, at)
        later  == \E r \in RowsOf(tape, t) : tape[r].kind = "snapshot" /\ Instant(r) > at
    IN  CASE oracle /\ pass -> "agreed_on_raise"
          [] oracle # pass -> "disagreed"
          [] Anchor(tape, t, Position(at)) = 0 -> IF later THEN "excluded_no_anchor" ELSE "disagreed"
          [] OTHER -> IF PassBook(tape, t, at) = Folded(tape, t, Position(at)) THEN "agreed" ELSE "disagreed"

-----------------------------------------------------------------------------
(***************************************************************************)
(* The points that the gate samples                                        *)
(***************************************************************************)

\* _window_points, for the first ticker by its number of rows that has a
\* snapshot by then, ties by name left open; none, and the gate raises.
Probed(tape, g) ==
    LET known == {t \in Tickers : tape[g].ticker \in {t, ALL} /\ Anchor(tape, t, g) # 0}
    IN  {t \in known : \A u \in known : Cardinality(RowsOf(tape, u)) <= Cardinality(RowsOf(tape, t))}

WindowPoints(tape, t, g) ==
    LET before == {r \in RowsOf(tape, t) : r < g}
        after  == {r \in RowsOf(tape, t) : r > g}
    IN  {Instant(g), Instant(Max(before))}
        \cup (IF after = {} THEN {} ELSE {Instant(Min(after)), Instant(Min(after)) + Tick})

\* _ticker_points: rows of the interior, the edges of its snapshots, and the
\* tick behind its last row.
TickerPoints(tape, t) ==
    LET rows  == RowsOf(tape, t)
        inner == {r \in rows : \E k \in 1..5 : Cardinality({q \in rows : q < r}) = (Cardinality(rows) * k) \div 6}
        edges == {r \in rows : tape[r].kind = "snapshot" /\ \E q \in rows : q < r}
        nth(k) == CHOOSE r \in edges : Cardinality({q \in edges : q < r}) = k
        picked == {nth((Cardinality(edges) * k) \div 3) : k \in IF edges = {} THEN {} ELSE 0..2}
    IN  {Instant(r) : r \in inner \cup picked} \cup {Instant(r) + Tick : r \in picked \cup {Max(rows)}}
        \cup {Instant(Max({q \in rows : q < r})) : r \in picked}

-----------------------------------------------------------------------------
(***************************************************************************)
(* SeqBoundaryDetector, over the rows of all tickers                       *)
(***************************************************************************)

SeqBoundaries(tape) ==
    {[row |-> r, kind |-> IF tape[r].seq > tape[PrevRow(tape, r)].seq THEN "skip" ELSE "resubscribe"] :
        r \in {q \in Rows(tape) : PrevRow(tape, q) # 0 /\ tape[q].seq # tape[PrevRow(tape, q)].seq + 1}}

-----------------------------------------------------------------------------
(***************************************************************************)
(* Properties of a tape                                                    *)
(***************************************************************************)

\* A gap row is stamped when it is persisted: the pass refuses earlier.
BeforeTheStamp(windows, t, at) ==
    \E w \in windows : w.ticker \in {t, ALL} /\ w.start < at /\ at < w.gap

\* The first row of any market ends a window: book_state_at refuses until the
\* market's own snapshot.
UntilItsSnapshot(tape, windows, t, at) ==
    \E w \in windows :
        /\ w.ticker \in {t, ALL} /\ w.end # 0 /\ w.end <= at
        /\ Instant(Anchor(tape, t, Position(at))) < w.gap

\* The instants at which something is stored, and the ticks behind them.
Instants(tape) ==
    LET at == {Instant(i) : i \in Rows(tape) \cup StoredGaps(tape)} IN at \cup {x + Tick : x \in at}

PointsOf(tape, t) ==
    (IF RowsOf(tape, t) = {} THEN {} ELSE TickerPoints(tape, t))
    \cup UNION {WindowPoints(tape, t, g) : g \in {h \in StoredGaps(tape) : t \in Probed(tape, h)}}

(* The pass and book_state_at tell the same of every book at every instant,  *)
(* except at the edges of a window, where one of them refuses before the     *)
(* other, and of a market that no snapshot has opened yet (parity.py,        *)
(* _evaluate).  The points that the gate picks lie on neither edge of a      *)
(* market without empty snapshots, but for the tick behind a row.            *)
PathsPartAtTheEdges(tape) ==
    \A windows \in {ExclusionWindows(tape)} : \A t \in Tickers :
        \A parted \in {{at \in Instants(tape) : /\ Anchor(tape, t, Position(at)) # 0
                                                 /\ Evaluated(tape, windows, t, at) = "disagreed"}} :
            /\ \A at \in parted : BeforeTheStamp(windows, t, at) \/ UntilItsSnapshot(tape, windows, t, at)
            /\ parted # {} /\ ClearFrames(tape, t) = {} =>
                  \A at \in parted \cap PointsOf(tape, t) : at % 2 = 1 /\ BeforeTheStamp(windows, t, at)

(* A number that the detector counts as skipped is no lost message without a *)
(* trace: a gap row or an empty snapshot, which has no rows, is in its place *)
(* (inventory.py, SeqBoundaryDetector).                                      *)
SkipsAreExplained(tape) ==
    \A b \in SeqBoundaries(tape) :
        b.kind = "skip" =>
            \E i \in PrevRow(tape, b.row)..b.row :
                tape[i].kind = "gap" \/ \E t \in Tickers : i \in ClearFrames(tape, t)
=============================================================================
