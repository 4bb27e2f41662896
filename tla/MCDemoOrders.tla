----------------------------- MODULE MCDemoOrders -----------------------------
(***************************************************************************)
(* The instances of DemoOrders that TLC checks: one or two orders in one   *)
(* market, the second on the NO leg.                                       *)
(***************************************************************************)
EXTENDS DemoOrders

CONSTANTS t1

OneMarket == [o \in Orders |-> t1]
=============================================================================
