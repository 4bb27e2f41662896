------------------------------ MODULE TapeStats ------------------------------
(***************************************************************************)
(* What a study concludes from its clusters (bot/lag/tape_stats.py).  A    *)
(* cluster is [total, weight] with a positive weight; an estimate is the   *)
(* ratio of the two sums.  Whether a seeded resample calls an estimate     *)
(* significant is left open, except where it is degenerate.                *)
(***************************************************************************)
EXTENDS Integers, FiniteSetsExt, Functions

\* cluster_bootstrap: the estimate of a function of clusters.
EstimateOf(clusters) ==
    [total  |-> MapThenSumSet(LAMBDA k : clusters[k].total, DOMAIN clusters),
     weight |-> MapThenSumSet(LAMBDA k : clusters[k].weight, DOMAIN clusters),
     n      |-> Cardinality(DOMAIN clusters)]

\* _replicate_spread: every resample has the same ratio.
Degenerate(clusters) ==
    \A j, k \in DOMAIN clusters :
        clusters[j].total * clusters[k].weight = clusters[k].total * clusters[j].weight

\* The sums of a function over the members of each cluster.
ClustersOf(S, cluster(_), total(_), weight(_)) ==
    [c \in {cluster(x) : x \in S} |->
        [total  |-> MapThenSumSet(total, {x \in S : cluster(x) = c}),
         weight |-> MapThenSumSet(weight, {x \in S : cluster(x) = c})]]

\* evaluate_gate, whose bar is "greater": equality meets a bar above zero.
Gate(clusters, threshold, strict, nMin, significant) ==
    LET e == EstimateOf(clusters)
    IN  [economic    |-> IF strict THEN e.total > threshold * e.weight ELSE e.total >= threshold * e.weight,
         significant |-> significant /\ ~Degenerate(clusters),
         powered     |-> e.n >= nMin,
         undecidable |-> Degenerate(clusters)]

GatePassed(gate) == gate.economic /\ gate.significant /\ gate.powered

\* evaluate_holdout: the same sign, at least half the size, half the clusters.
Holdout(discovery, holdout, nMin, significant) ==
    LET d == EstimateOf(discovery)
        h == EstimateOf(holdout)
        abs(n) == IF n < 0 THEN -n ELSE n
    IN  [sameSign    |-> h.total # 0 /\ (h.total > 0) = (d.total > 0),
         magnitude   |-> 2 * abs(h.total) * d.weight >= abs(d.total) * h.weight,
         significant |-> significant /\ ~Degenerate(holdout),
         powered     |-> h.n >= (nMin + 1) \div 2]

Replicated(h) == h.sameSign /\ h.magnitude /\ h.significant /\ h.powered
=============================================================================
