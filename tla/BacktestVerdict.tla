--------------------------- MODULE BacktestVerdict ---------------------------
(***************************************************************************)
(* What a backtest concludes (score_run of bot/backtest/scoring.py and     *)
(* evaluate_runs of report.py): the orders and skips of each run become a  *)
(* score per city, and the runs of two bankrolls over one or two windows,  *)
(* with what else is known of their rungs and of a second source of        *)
(* forecasts, become one verdict.  Two of the verdicts let the command     *)
(* succeed.  Money is in any unit, probabilities in hundredths of a cent.  *)
(***************************************************************************)
EXTENDS Integers, Sequences, FiniteSetsExt

CONSTANTS
    VdCities,
    VdJobs,     \* the runs a command makes: [slots, fidelity]
    VdOutcomes, \* what a run may come to: [orders, frictions, gross]
    UNKNOWN,    \* the gross P&L before skips of a run that does not know it
    VdRaise     \* by how much the P&L of an order is raised in the property

\* What a run is asked for.
VdSlots == [window : STRING, bankroll : STRING, depth : Nat, sigma : Nat]

ASSUME VerdictAssumption ==
    /\ \A j \in VdJobs : j.slots \in Seq(VdSlots)
    /\ \A o \in VdOutcomes : /\ o.orders \in Seq([city : VdCities, net : Int])
                             /\ o.frictions \in Seq(VdCities)
                             /\ o.gross \in Int \cup {UNKNOWN}
    /\ VdRaise \in Nat

VARIABLES
    vdJob,
    vdLeft,     \* the slots still to be run
    vdRuns,     \* the scored runs
    vdVerdict   \* "", or the verdict

vdVars == <<vdJob, vdLeft, vdRuns, vdVerdict>>

Reference   == "20000"
Sensitivity == "500"
Base == 10      \* BASE_MULTIPLIER, in tenths
VdWindows == {"in_sample", "out_of_sample"}

-----------------------------------------------------------------------------
(***************************************************************************)
(* Scores                                                                  *)
(***************************************************************************)

\* score_run: the cities of its orders and of its skips; only a city with an
\* order has a P&L.
ScoreRun(outcome) ==
    LET ordersIn(c) == {k \in DOMAIN outcome.orders : outcome.orders[k].city = c}
        skipsIn(c)  == {k \in DOMAIN outcome.frictions : outcome.frictions[k] = c}
    IN  [c \in {x \in VdCities : ordersIn(x) \cup skipsIn(x) # {}} |->
            [orders    |-> Cardinality(ordersIn(c)),
             frictions |-> Cardinality(skipsIn(c)),
             net       |-> MapThenSumSet(LAMBDA k : outcome.orders[k].net, ordersIn(c))]]

\* _select, as indices
Select(runs, window, bankroll, depth, sigma) ==
    {k \in DOMAIN runs : /\ runs[k].window = window /\ runs[k].bankroll = bankroll
                         /\ runs[k].depth = depth /\ runs[k].sigma = sigma}

\* _city_pnls: the P&L of each city over all the strategies of a group.
CityPnls(runs, group) ==
    LET traded(c) == {k \in group : c \in DOMAIN runs[k].score /\ runs[k].score[c].orders > 0}
    IN  [c \in {x \in VdCities : traded(x) # {}} |->
            MapThenSumSet(LAMBDA k : runs[k].score[c].net, traded(c))]

\* _all_negative
AllNegative(runs, group) ==
    LET pnls == CityPnls(runs, group)
    IN  DOMAIN pnls # {} /\ \A c \in DOMAIN pnls : pnls[c] < 0

\* _friction_skips
FrictionSkips(runs, group) ==
    MapThenSumSet(LAMBDA k : MapThenSumSet(LAMBDA c : runs[k].score[c].frictions, DOMAIN runs[k].score),
                  group)

OrdersIn(runs, window) ==
    MapThenSumSet(LAMBDA k : MapThenSumSet(LAMBDA c : runs[k].score[c].orders, DOMAIN runs[k].score),
                  {k \in DOMAIN runs : runs[k].window = window})

-----------------------------------------------------------------------------
(***************************************************************************)
(* The verdict                                                             *)
(***************************************************************************)

BaseGroup(runs, window, bankroll) == Select(runs, window, bankroll, Base, Base)

\* friction_bound: a depth at which every city loses, but only because the
\* gate for friction has turned down what would have gained.
FrictionBound(runs, window, depth) ==
    LET group == Select(runs, window, Reference, depth, Base)
        base  == BaseGroup(runs, window, Reference)
    IN  /\ depth # Base /\ base # {}
        /\ FrictionSkips(runs, group) > 2 * FrictionSkips(runs, base)
        /\ \A k \in group : runs[k].gross # UNKNOWN
        /\ MapThenSumSet(LAMBDA k : runs[k].gross, group) >= 0

DepthStop(runs, window) ==
    \E k \in DOMAIN runs :
        /\ runs[k].window = window /\ runs[k].bankroll = Reference
        /\ runs[k].sigma = Base /\ runs[k].depth # Base
        /\ AllNegative(runs, Select(runs, window, Reference, runs[k].depth, Base))
        /\ ~FrictionBound(runs, window, runs[k].depth)

SigmaStop(runs, window) ==
    \E k \in DOMAIN runs :
        /\ runs[k].window = window /\ runs[k].bankroll = Reference
        /\ runs[k].depth = Base /\ runs[k].sigma # Base
        /\ AllNegative(runs, Select(runs, window, Reference, Base, runs[k].sigma))

\* Mutant: the small bankroll need only have fewer skips.
FloorDrivenAlways(runs, window) ==
    LET base  == BaseGroup(runs, window, Reference)
        small == BaseGroup(runs, window, Sensitivity)
    IN  /\ AllNegative(runs, base) /\ small # {}
        /\ FrictionSkips(runs, base) > 2 * FrictionSkips(runs, small)

\* floor_driven: what loses at the one bankroll does not at the other, which
\* has far fewer skips.
FloorDriven(runs, window) ==
    LET base  == BaseGroup(runs, window, Reference)
        small == BaseGroup(runs, window, Sensitivity)
    IN  /\ AllNegative(runs, base) /\ small # {} /\ ~AllNegative(runs, small)
        /\ FrictionSkips(runs, base) > 2 * FrictionSkips(runs, small)

\* The verdict of a window: none if the reference bankroll was not run.
WindowVerdict(runs, window) ==
    LET negative == AllNegative(runs, BaseGroup(runs, window, Reference))
        stopped  == DepthStop(runs, window) \/ SigmaStop(runs, window)
    IN  CASE OrdersIn(runs, window) = 0 -> "insufficient_data"
          [] OrdersIn(runs, window) > 0 /\ BaseGroup(runs, window, Reference) = {} -> "none"
          [] OTHER -> IF stopped \/ (negative /\ ~FloorDriven(runs, window)) THEN "stop"
                      ELSE IF negative THEN "friction_floor_driven" ELSE "survive"

\* Twice the median of f over the indices in I.
TwiceMedian(I, f(_)) ==
    LET rank(k) == f(CHOOSE i \in I : /\ Cardinality({j \in I : f(j) < f(i)}) < k
                                      /\ Cardinality({j \in I : f(j) <= f(i)}) >= k)
        n == Cardinality(I)
    IN  rank((n + 1) \div 2) + rank(n \div 2 + 1)

\* _prob_bound_rows: in the tails the two sources of forecasts may differ by
\* half of the median or five hundredths, then by a quarter, and by half a cent.
ProbsAgree(snaps) ==
    LET deep(i)  == snaps[i].primary <= 200
        rows     == {i \in DOMAIN snaps : snaps[i].primary <= 1000}
        buckets  == {{j \in rows : snaps[j].city = snaps[i].city /\ deep(j) = deep(i)} : i \in rows}
        delta(i) == LET x == snaps[i].primary - snaps[i].cross IN IF x < 0 THEN -x ELSE x
        prim(i)  == snaps[i].primary
    IN  \A I \in buckets :
            LET d == TwiceMedian(I, delta)
                p == TwiceMedian(I, prim)
            IN  IF \A i \in I : deep(i) THEN 2 * d <= Max({p, 20}) ELSE 4 * d <= Min({400, p})

\* _signed_fill_rows: the signed fills may differ by a quarter.
FillsAgree(counts) ==
    \A k \in DOMAIN counts :
        LET d == counts[k].cross - counts[k].primary
            p == IF counts[k].primary < 0 THEN -counts[k].primary ELSE counts[k].primary
        IN  4 * Max({d, -d}) <= p

\* era_flip: the two windows disagree.
EraFlip(runs) ==
    /\ \A w \in VdWindows : BaseGroup(runs, w, Reference) # {} /\ OrdersIn(runs, w) > 0
    /\ AllNegative(runs, BaseGroup(runs, "in_sample", Reference))
         # AllNegative(runs, BaseGroup(runs, "out_of_sample", Reference))

\* evaluate_runs
Final(runs, fidelity) ==
    LET verdicts == {WindowVerdict(runs, w) : w \in {runs[k].window : k \in DOMAIN runs}}
    IN  IF ~ProbsAgree(fidelity.snaps) \/ ~FillsAgree(fidelity.fills) THEN "invalidated"
        ELSE IF EraFlip(runs) THEN "strategy_era_flip"
        ELSE IF "stop" \in verdicts THEN "stop"
        ELSE IF "insufficient_data" \in verdicts THEN "insufficient_data"
        ELSE IF "friction_floor_driven" \in verdicts THEN "friction_floor_driven"
        ELSE "survive"

Passing == {"survive", "friction_floor_driven"}

-----------------------------------------------------------------------------
(***************************************************************************)
(* run_survival: one run after another, then the verdict                   *)
(***************************************************************************)

VdInit ==
    /\ vdJob \in VdJobs
    /\ vdLeft = vdJob.slots /\ vdRuns = <<>> /\ vdVerdict = ""

ScoreOne ==
    /\ vdLeft # <<>>
    /\ \E o \in VdOutcomes :
          vdRuns' = Append(vdRuns, [window |-> Head(vdLeft).window, bankroll |-> Head(vdLeft).bankroll,
                                    depth |-> Head(vdLeft).depth, sigma |-> Head(vdLeft).sigma,
                                    score |-> ScoreRun(o), gross |-> o.gross])
    /\ vdLeft' = Tail(vdLeft)
    /\ UNCHANGED <<vdJob, vdVerdict>>

Evaluate ==
    /\ vdLeft = <<>> /\ vdVerdict = ""
    /\ vdVerdict' = Final(vdRuns, vdJob.fidelity)
    /\ UNCHANGED <<vdJob, vdLeft, vdRuns>>

VdNext == ScoreOne \/ Evaluate

VdSpec == VdInit /\ [][VdNext]_vdVars

-----------------------------------------------------------------------------
(***************************************************************************)
(* Properties                                                              *)
(***************************************************************************)

Loses(window, bankroll) ==
    LET group == BaseGroup(vdRuns, window, bankroll)
        net(c) == MapThenSumSet(LAMBDA k : IF c \in DOMAIN vdRuns[k].score
                                           THEN vdRuns[k].score[c].net ELSE 0, group)
        traded == {c \in VdCities : \E k \in group : c \in DOMAIN vdRuns[k].score
                                                     /\ vdRuns[k].score[c].orders > 0}
    IN  traded # {} /\ \A c \in traded : net(c) < 0

\* A window in which every city loses at both bankrolls never lets the command
\* succeed, and no better result of one run in one city turns a verdict that
\* does into one that does not, but for the two windows' disagreement: nothing
\* in the order of the conditions, the vetoes of the rungs or the excuses for
\* friction punishes a gain.
VerdictIsEarned ==
    vdVerdict \in Passing =>
        /\ \A w \in {vdRuns[k].window : k \in DOMAIN vdRuns} :
              ~(Loses(w, Reference) /\ (Loses(w, Sensitivity)
                                        \/ BaseGroup(vdRuns, w, Sensitivity) = {}))
        /\ \A k \in DOMAIN vdRuns : \A c \in DOMAIN vdRuns[k].score :
              vdRuns[k].score[c].orders > 0 =>
                  Final([vdRuns EXCEPT ![k].score[c].net = @ + VdRaise], vdJob.fidelity)
                      \in Passing \cup {"strategy_era_flip"}
=============================================================================
