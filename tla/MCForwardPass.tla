---------------------------- MODULE MCForwardPass -----------------------------
(***************************************************************************)
(* The forward pass on small tapes; tickers and prices are interchangeable.*)
(***************************************************************************)
EXTENDS ForwardPass, TLC

Symmetry == Permutations(Tickers) \cup Permutations(Levels)

\* The pass reads the gap rows and its bound when it begins and, when it is
\* not bounded, looks for new rows when it fetches; what is recorded between
\* two such looks can as well be recorded just before the second.
RecordedBetweenLooks ==
    <<tape, gaps>>' # <<tape, gaps>> =>
        pass.pc = "off" \/ (pass.pc = "read" /\ ~Pinned)

\* Four rows with a gap row or a kill; with both, three.
Bounded == Len(tape) + Len(gaps) + kills <= 5
=============================================================================
