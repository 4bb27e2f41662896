------------------------------ MODULE OrderLedger ------------------------------
(***************************************************************************)
(* What the order path promises about its own knowledge, with neither      *)
(* requests nor tables nor crashes: an order placed at the venue is at     *)
(* some moment recorded, at some moment attributed to the strategy that    *)
(* wanted it and at some moment counted in the exposure; none of this is   *)
(* ever forgotten or revised, and the horizon behind which nothing is      *)
(* looked for any more only passes orders that are recorded.  Who places   *)
(* an order knows its strategy and may count it before it is recorded; who *)
(* finds it at the venue counts it only once it is attributed.             *)
(***************************************************************************)
EXTENDS Integers

CONSTANTS Orders, NONE

VARIABLES
    now,
    placedAt,    \* when the venue booked the order
    recorded,    \* orders with a row
    attributed,  \* orders whose strategy and fair value are known
    counted,     \* contracts of the order in the exposure
    horizon      \* nothing older is polled

ledger == <<recorded, attributed, counted, horizon>>
vars == <<now, placedAt, ledger>>

PlacedOrders == {o \in Orders : placedAt[o] # NONE}

Init ==
    /\ now = 0
    /\ placedAt = [o \in Orders |-> NONE]
    /\ recorded = {} /\ attributed = {}
    /\ counted = [o \in Orders |-> NONE]
    /\ horizon = NONE

Pass == now' = now + 1 /\ UNCHANGED <<placedAt, ledger>>

Place(o) ==
    /\ placedAt[o] = NONE
    /\ placedAt' = [placedAt EXCEPT ![o] = now]
    /\ UNCHANGED <<now, ledger>>

\* One transaction may learn something of several orders.
Learn ==
    /\ recorded \subseteq recorded' /\ recorded' \subseteq PlacedOrders
    /\ attributed \subseteq attributed' /\ attributed' \subseteq recorded'
    /\ \A o \in Orders :
          /\ counted[o] # NONE => counted'[o] = counted[o]
          /\ counted'[o] # NONE => o \in PlacedOrders
    /\ UNCHANGED <<now, placedAt, horizon>>

\* The reconciler learns and moves the horizon.
Advance(h) ==
    /\ recorded \subseteq recorded' /\ recorded' \subseteq PlacedOrders
    /\ attributed' = attributed
    /\ \A o \in Orders :
          /\ counted[o] # NONE => counted'[o] = counted[o]
          /\ counted[o] = NONE /\ counted'[o] # NONE => o \in attributed
    /\ horizon' = h /\ h <= now /\ (horizon # NONE => horizon <= h)
    /\ \A o \in PlacedOrders : placedAt[o] < h => o \in recorded'
    /\ UNCHANGED <<now, placedAt>>

Next ==
    \/ Pass
    \/ \E o \in Orders : Place(o)
    \/ Learn
    \/ Advance(horizon')

Spec == Init /\ [][Next]_vars
=============================================================================
