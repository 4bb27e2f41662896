-------------------------------- MODULE WsTape --------------------------------
(***************************************************************************)
(* The recorded tape of the order books and the readers that replay it:    *)
(* book_state_at (bot/lag/ws_book.py), the blind window detector and the   *)
(* clear scan (bot/replay).  A tape is the sequence of everything the      *)
(* recorder stamped, in the order of the stamps, so a position is a time:  *)
(* the frames of the websocket, which the raw tape keeps all, and the gap  *)
(* rows.  "stored" says that the entry reached the database.  A book is    *)
(* the size of one price level.                                            *)
(***************************************************************************)
EXTENDS Integers, Sequences, FiniteSets, FiniteSetsExt

CONSTANTS
    Tickers,
    ALL,         \* the empty ticker of a gap row: the whole connection
    MaxSize      \* bound on the size of the level

ASSUME TapeAssumption ==
    ALL \notin Tickers /\ IsFiniteSet(Tickers) /\ MaxSize \in Nat \ {0}

Entry == [ kind   : {"snapshot", "delta", "gap"},
           ticker : Tickers \cup {ALL},
           seq    : Nat,
           size   : -MaxSize..MaxSize,
           stored : BOOLEAN,
           book   : 0..MaxSize,   \* history: the venue's book at this message
           ver    : Nat ]         \* history: its changes up to this message

\* One row per level: an empty snapshot is a message without rows.
IsRow(e) ==
    /\ e.stored
    /\ \/ e.kind = "delta"
       \/ e.kind = "snapshot" /\ e.size > 0

Rows(tape)      == {i \in DOMAIN tape : IsRow(tape[i])}
RowsOf(tape, t) == {i \in Rows(tape) : tape[i].ticker = t}

Latest(S)   == Max(S \cup {0})
PrevRow(tape, i) == Latest({r \in Rows(tape) : r < i})

-----------------------------------------------------------------------------
(***************************************************************************)
(* book_state_at: the latest snapshot, the gap check, the deltas           *)
(***************************************************************************)

Anchor(tape, t, at) ==
    Latest({r \in RowsOf(tape, t) : r <= at /\ tape[r].kind = "snapshot"})

GapBetween(tape, t, from, to) ==
    \E g \in (from + 1)..to :
        /\ tape[g].kind = "gap" /\ tape[g].stored
        /\ tape[g].ticker \in {t, ALL}

\* The level after the deltas of (anchor, at]; below zero, the fold raises.
Folded(tape, t, at) ==
    LET a == Anchor(tape, t, at)
        f[i \in a..at] ==
            IF i = a THEN tape[a].size
            ELSE IF i \in RowsOf(tape, t) /\ tape[i].kind = "delta" /\ f[i - 1] >= 0
                 THEN f[i - 1] + tape[i].size
                 ELSE f[i - 1]
    IN  f[at]

\* book_state_at returns a book, instead of nothing or a WsGapError.
Answers(tape, t, at) ==
    LET a == Anchor(tape, t, at)
    IN  a # 0 /\ ~GapBetween(tape, t, a, at)

-----------------------------------------------------------------------------
(***************************************************************************)
(* BlindWindowDetector over the rows in their order, and attach_gap_rows   *)
(***************************************************************************)

\* Mutant: a repeated number is not a boundary.
BoundaryStrictly(tape, b) ==
    /\ b \in Rows(tape) /\ PrevRow(tape, b) # 0
    /\ tape[b].seq < tape[PrevRow(tape, b)].seq

IsBoundary(tape, b) ==
    /\ b \in Rows(tape) /\ PrevRow(tape, b) # 0
    /\ tape[b].seq <= tape[PrevRow(tape, b)].seq

\* The burst of snapshots that a boundary opens runs to the message before
\* a delta or the next boundary.
BurstEnd(tape, b) ==
    IF tape[b].kind # "snapshot" THEN b
    ELSE Max({r \in Rows(tape) :
               /\ r >= b
               /\ \A q \in Rows(tape) \cap ((b + 1)..r) :
                     tape[q].kind = "snapshot" /\ ~IsBoundary(tape, q)})

BlindWindows(tape) ==
    {[start |-> PrevRow(tape, b), end |-> BurstEnd(tape, b)] :
        b \in {r \in Rows(tape) : IsBoundary(tape, r)}}

\* The windows, by their starts, that gap row g is attached to: the last one
\* that starts before it, unless an earlier gap row took it or it lies beyond
\* what the scan has read.
AttachedTo(tape, g) ==
    LET start  == Latest({w.start : w \in {v \in BlindWindows(tape) : v.start <= g}})
        earlier == \E h \in (start + 1)..(g - 1) :
                       tape[h].kind = "gap" /\ tape[h].stored
    IN  IF start = 0 \/ earlier \/ g > Latest(Rows(tape)) THEN {} ELSE {start}

-----------------------------------------------------------------------------
(***************************************************************************)
(* scan_clears: the empty snapshots, which only the raw tape has           *)
(***************************************************************************)

ClearFrames(tape, t) ==
    {c \in DOMAIN tape :
        tape[c].ticker = t /\ tape[c].kind = "snapshot" /\ tape[c].size = 0}

\* Rows follow, a snapshot precedes, and the replayed book is not empty.
MidLife(tape, t) ==
    {c \in ClearFrames(tape, t) :
        /\ \E r \in RowsOf(tape, t) : r > c
        /\ Anchor(tape, t, c) # 0
        /\ Folded(tape, t, c) # 0}

\* The replay of t is stale at a time: after a clear and before the next
\* populated snapshot.
StaleAt(tape, t, at) ==
    \E c \in MidLife(tape, t) : c <= at /\ Anchor(tape, t, at) < c
=============================================================================
