------------------------------ MODULE TapeStudy ------------------------------
(***************************************************************************)
(* What the studies of the book tape share (bot/lag/mid.py, tape_studies.py *)
(* and depth_map.py): rows [leg, at, ...] in the order of their arrival,   *)
(* the state that a series of rows leaves in force, the screen of a span   *)
(* against an event day and the exclusions, and weighted tallies.          *)
(***************************************************************************)
EXTENDS Integers, Sequences, FiniteSetsExt, SequencesExt, Functions

\* window_dates: the days that a span touches.
WindowDates(from, to, dayLength) == (from \div dayLength)..(to \div dayLength)

\* A finite set as a sequence, by a rank that no two of its elements share.
Ordered(S, rank) ==
    [n \in 1..Cardinality(S) |-> CHOOSE x \in S : Cardinality({y \in S : rank[y] < rank[x]}) = n - 1]

\* The rows of a tape with an index in I, in the order of the tape.
Among(rows, I) ==
    LET index == Ordered(I, [i \in I |-> i])
    IN  [n \in DOMAIN index |-> rows[index[n]]]

OfLeg(rows, leg) == Among(rows, {i \in DOMAIN rows : rows[i].leg = leg})

InOrderOfArrival(rows) == \A i \in 1..(Len(rows) - 1) : rows[i].at <= rows[i + 1].at

\* _last_at_each: of the rows of an instant, the last.
LastAtEach(rows) ==
    Among(rows, {i \in DOMAIN rows : i = Len(rows) \/ rows[i].at # rows[i + 1].at})

\* The index of the row in force at an instant, 0 before the first.
InForce(rows, at) == Cardinality({i \in DOMAIN rows : rows[i].at <= at})

\* two_sided: an empty side is stored as a bid of nothing.
TwoSided(r) == r.bid > 0 /\ r.noBid > 0 /\ r.bidDepth > 0 /\ r.noDepth > 0

\* mid2: twice the middle of the two quotes.
Mid2(r, dollar) == r.bid + dollar - r.noBid

\* _intersects: the ends belong to an exclusion and to a span.
Meets(merged, start, end) == \E x \in merged : x[1] <= end /\ x[2] >= start

\* screen_cells, for one span: "kept", or why it is not.
Screen(day, merged, start, end) ==
    IF ~(start >= day.start /\ end <= day.end) THEN "out_of_window"
    ELSE IF Meets(merged, start, end) THEN "excluded" ELSE "kept"

\* WeightedTally: what the marks [of, key, weight] add up to for each key, in
\* whatever batches they come.
Tallied(marks) ==
    [k \in {m.key : m \in marks} |-> MapThenSumSet(LAMBDA m : m.weight, {m \in marks : m.key = k})]

Pooled(bags) ==
    [k \in UNION {DOMAIN b : b \in Range(bags)} |->
        MapThenSumSet(LAMBDA i : IF k \in DOMAIN bags[i] THEN bags[i][k] ELSE 0, DOMAIN bags)]

\* weighted_quantile: the least value that num/den of the weight reaches.
Quantile(bins, num, den, none) ==
    LET upTo(v) == MapThenSumSet(LAMBDA w : bins[w], {w \in DOMAIN bins : w <= v})
        all     == MapThenSumSet(LAMBDA w : bins[w], DOMAIN bins)
    IN  IF DOMAIN bins = {} THEN none
        ELSE Min({v \in DOMAIN bins : den * upTo(v) >= num * all})

\* Twice the median of f over S, as numpy takes it.
TwiceMedianOf(S, f(_)) ==
    LET n == Cardinality(S)
        ranked(k) == f(CHOOSE x \in S : /\ Cardinality({y \in S : f(y) < f(x)}) < k
                                        /\ Cardinality({y \in S : f(y) <= f(x)}) >= k)
    IN  ranked((n + 1) \div 2) + ranked(n \div 2 + 1)
=============================================================================
