----------------------------- MODULE MCWsRecorder -----------------------------
(***************************************************************************)
(* The instances of WsRecorder that TLC checks; nothing tells the tickers  *)
(* apart.                                                                  *)
(***************************************************************************)
EXTENDS WsRecorder, TLC

Symmetry == Permutations(Tickers)

\* Two changes and a fault, or one change and two faults.
Bounded == SumFunction(ver) + faults <= 3
=============================================================================
