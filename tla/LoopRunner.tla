----------------------------- MODULE LoopRunner -----------------------------
(***************************************************************************)
(* run_loop of bot/observability/loop_runner.py: the supervisor of each of *)
(* the bot's nine loops.  It runs a body for ever, sleeps between two      *)
(* runs, backs off after failures, raises one alarm when an outage has     *)
(* lasted too long, and ends when the bot is told to stop.  The body is    *)
(* the module that extends this one: it moves the loop from "body" to      *)
(* "busy" while it awaits, and ends with Skipped, Failed or Succeeded.     *)
(* Times are counted up or down from an event and saturate, so that time   *)
(* can pass for ever in finitely many states.                              *)
(***************************************************************************)
EXTENDS Naturals, FiniteSetsExt

CONSTANTS
    Interval,        \* interval_seconds
    Threshold,       \* sustained_failure_threshold_seconds
    RecoverySleep,   \* _FAILURE_RECOVERY_SLEEP_SECONDS
    AfterN,          \* backoff_after_n_failures
    Multiplier,      \* backoff_cap_multiplier
    MaxBody,         \* the longest a body awaits: the timeout of its request
    Horizon          \* times beyond this are not told apart

ASSUME RunnerAssumption ==
    /\ {Interval, Threshold, RecoverySleep, Multiplier} \subseteq Nat \ {0}
    /\ {AfterN, MaxBody, Horizon} \subseteq Nat

VARIABLES
    loop,       \* "body", "busy", "sleep" or "done"
    left,       \* what remains of the sleep, or how long the body has awaited
    failures,   \* consecutive_failures, as far as they change the back-off
    lasted,     \* time since streak_started_at
    alarmed,    \* sustained_alarmed
    stop,       \* the event stop
    outage      \* history: 1 + time since the first failure after a success

runnerVars == <<loop, left, failures, lasted, alarmed, stop, outage>>

Older(t) == Min({t + 1, Horizon})

BackoffCap == Min({Multiplier * Interval, Threshold})

\* _failure_sleep after n failures in a row
FailureSleep(n) ==
    LET base == Min({RecoverySleep, BackoffCap})
    IN  IF n > AfterN THEN Min({base * 2^(n - AfterN), BackoffCap}) ELSE base

\* After more failures than this the sleep is no longer.
MaxFailures == AfterN + BackoffCap

RunnerInit ==
    /\ loop = "body" /\ left = 0
    /\ failures = 0 /\ lasted = 0 /\ alarmed = FALSE
    /\ stop = FALSE
    /\ outage = 0

Sleep(delay) == loop' = "sleep" /\ left' = delay

\* The body raises LoopSkipped.
Skipped ==
    /\ Sleep(Interval)
    /\ UNCHANGED <<failures, lasted, alarmed, stop, outage>>

\* The body raises anything else.
Failed ==
    /\ failures' = Min({failures + 1, MaxFailures})
    /\ lasted' = IF failures = 0 THEN 0 ELSE lasted
    /\ alarmed' = ((failures # 0 /\ alarmed) \/ lasted' >= Threshold)
    /\ Sleep(FailureSleep(failures'))
    /\ outage' = Max({outage, 1})
    /\ UNCHANGED stop

\* The body returns.
Succeeded ==
    /\ Sleep(Interval)
    /\ failures' = 0 /\ lasted' = 0 /\ alarmed' = FALSE
    /\ outage' = 0
    /\ UNCHANGED stop

\* Time passes, up to the next thing that is due.
RunnerTick ==
    /\ \/ loop = "sleep" /\ left > 0 /\ left' = left - 1
       \/ loop = "busy" /\ left < MaxBody /\ left' = left + 1
    /\ lasted' = IF failures = 0 THEN 0 ELSE Older(lasted)
    /\ outage' = IF outage = 0 THEN 0 ELSE Older(outage)
    /\ UNCHANGED <<loop, failures, alarmed, stop>>

\* _sleep_or_stop returns, and the loop looks at stop.
Wake ==
    /\ loop = "sleep" /\ (left = 0 \/ stop)
    /\ loop' = IF stop THEN "done" ELSE "body"
    /\ left' = 0
    /\ UNCHANGED <<failures, lasted, alarmed, stop, outage>>

\* SIGTERM.
Stop ==
    /\ ~stop /\ stop' = TRUE
    /\ UNCHANGED <<loop, left, failures, lasted, alarmed, outage>>
=============================================================================
