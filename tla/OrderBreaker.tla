----------------------------- MODULE OrderBreaker -----------------------------
(***************************************************************************)
(* The circuit breaker of order placement (bot/execution/order_placer.py): *)
(* too many 429 answers in a window stop new orders for a pause.  The      *)
(* orders of a cycle are placed one after the other, each with a few       *)
(* attempts.  Times count the ticks since an answer, or until the pause    *)
(* ends.                                                                   *)
(***************************************************************************)
EXTENDS Naturals, Sequences, FiniteSetsExt

CONSTANTS
    Window,        \* _BREAKER_WINDOW_SECONDS
    Limit,         \* _BREAKER_THRESHOLD
    Pause,         \* _BREAKER_PAUSE_SECONDS
    MaxAttempts    \* _MAX_429_RETRIES

ASSUME BreakerAssumption ==
    /\ {Limit, Pause, MaxAttempts} \subseteq Nat \ {0}
    /\ Window \in Nat

VARIABLES
    recent,     \* recent_429: the age of each
    paused,     \* what remains until paused_until
    attempt,    \* attempts that the current order has made
    order,      \* "none", "posted", "backoff"
    last429     \* history: the age of each of the last Limit 429 answers

breakerVars == <<recent, paused, attempt, order, last429>>

BreakerInit ==
    /\ recent = <<>> /\ paused = 0
    /\ attempt = 0 /\ order = "none"
    /\ last429 = <<>>

\* place_order_demo sends the first request of an order.
Begin ==
    /\ order = "none" /\ paused = 0
    /\ order' = "posted" /\ attempt' = 0
    /\ UNCHANGED <<recent, paused, last429>>

\* Any other answer, or none.
Answered ==
    /\ order = "posted" /\ order' = "none"
    /\ UNCHANGED <<recent, paused, attempt, last429>>

\* Mutant: an answer as old as the window has left it.
CountedStrictly == SelectSeq(recent, LAMBDA age : age < Window) \o <<0>>

\* _record_429 drops what is older than the window.
Counted == SelectSeq(recent, LAMBDA age : age <= Window) \o <<0>>

\* 429: the order tries again after a back-off, or gives up.
Limited ==
    /\ order = "posted"
    /\ recent' = Counted
    /\ paused' = IF Len(Counted) >= Limit THEN Pause ELSE paused
    /\ attempt' = attempt + 1
    /\ order' = IF attempt + 1 >= MaxAttempts THEN "none" ELSE "backoff"
    /\ last429' = LET all == Append(last429, 0)
                  IN  IF Len(all) > Limit THEN Tail(all) ELSE all

\* The next attempt does not look at the breaker.
Retry ==
    /\ order = "backoff" /\ order' = "posted"
    /\ UNCHANGED <<recent, paused, attempt, last429>>

\* No age is told apart from one that no pause can depend on.
Aged(ages) == [k \in DOMAIN ages |-> Min({ages[k] + 1, Window + Pause})]

BreakerTick ==
    /\ recent' = Aged(recent) /\ last429' = Aged(last429)
    /\ paused' = Max({paused, 1}) - 1
    /\ UNCHANGED <<attempt, order>>

BreakerNext == Begin \/ Answered \/ Limited \/ Retry \/ BreakerTick

BreakerSpec == BreakerInit /\ [][BreakerNext]_breakerVars

-----------------------------------------------------------------------------
(* Properties *)

\* The last Limit 429 answers came within a window, the newest not a pause ago.
InPause ==
    /\ Len(last429) = Limit
    /\ last429[1] - last429[Limit] <= Window
    /\ last429[Limit] < Pause

\* No order is begun in the pause after a burst of 429 answers, whichever
\* orders and attempts they answered, though answers to the attempts that
\* are still made extend the pause (_record_429, _breaker_paused).
BurstsPause == [][order = "none" /\ order' = "posted" => ~InPause]_breakerVars
=============================================================================
