----------------------------- MODULE ObsArrivals ------------------------------
(***************************************************************************)
(* The loop that records when each weather observation is first seen       *)
(* (bot/main.py, _obs_arrival_loop): every poll asks the service for the   *)
(* last hours, records what no earlier poll has recorded, and stays away   *)
(* for a growing time when the service refuses it.  The set of what was    *)
(* seen is in memory and the table of arrivals has no unique key.          *)
(***************************************************************************)
EXTENDS LoopRunner, FiniteSets

CONSTANTS
    Observations,    \* (station, valid time)
    BackoffStart,    \* OBS_BACKOFF_START_SECONDS
    BackoffLimit     \* OBS_BACKOFF_CAP_SECONDS

ASSUME ObsAssumption ==
    /\ BackoffStart \in Nat \ {0} /\ BackoffLimit \in Nat
    /\ BackoffStart <= BackoffLimit

\* The longest time between two runs that fail: a refusal and the skips that
\* follow it, or the back-off of the loop, and the wait for the answer.
MaxGap == Max({BackoffLimit + Interval, BackoffCap}) + MaxBody

ASSUME HorizonAssumption == Horizon > Threshold + MaxGap

VARIABLES
    feed,       \* what the service has published
    arrivals,   \* ws_obs_arrivals: how many rows of each
    seen,       \* state.seen
    backoff,    \* state.backoff_seconds
    resume,     \* what remains until state.resume_at
    refusals,   \* history: refusals since the last answer, as far as they count
    quiet       \* history: time since the last refusal

obsVars == <<runnerVars, feed, arrivals, seen, backoff, resume, refusals, quiet>>
obsOnly == <<arrivals, seen, backoff, resume, refusals, quiet>>

Recorded == {o \in Observations : arrivals[o] > 0}

ObsInit ==
    /\ RunnerInit
    /\ feed = {}
    /\ arrivals = [o \in Observations |-> 0]
    /\ seen = {}
    /\ backoff = 0 /\ resume = 0
    /\ refusals = 0 /\ quiet = Horizon

\* The service publishes an observation.
Publish(o) ==
    /\ o \notin feed
    /\ feed' = feed \cup {o}
    /\ UNCHANGED <<runnerVars, obsOnly>>

Skip ==
    /\ loop = "body" /\ resume > 0
    /\ Skipped
    /\ UNCHANGED <<feed, obsOnly>>

Request ==
    /\ loop = "body" /\ resume = 0
    /\ loop' = "busy"
    /\ UNCHANGED <<left, failures, lasted, alarmed, stop, outage, feed, obsOnly>>

\* 403 or 429
Refuse ==
    /\ loop = "busy"
    /\ backoff' = IF backoff = 0 THEN BackoffStart ELSE Min({2 * backoff, BackoffLimit})
    /\ resume' = backoff'
    /\ refusals' = Min({refusals + 1, BackoffLimit})
    /\ quiet' = 0
    /\ Failed
    /\ UNCHANGED <<feed, arrivals, seen>>

\* Mutant: any other failure clears the back-off as well.
BreakResetting ==
    /\ loop = "busy"
    /\ Failed
    /\ backoff' = 0 /\ resume' = 0
    /\ UNCHANGED <<feed, arrivals, seen, refusals, quiet>>

\* Any other status, a timeout, an answer that is no list.
Break ==
    /\ loop = "busy"
    /\ Failed
    /\ UNCHANGED <<feed, obsOnly>>

\* The service answers and the commit fails.
LoseCommit(answer) ==
    /\ loop = "busy" /\ answer \ seen # {}
    /\ Failed
    /\ UNCHANGED <<feed, obsOnly>>

\* The service answers, with every observation or a part of them, and what is
\* new goes into the table, once however often the answer holds it.
Record(answer) ==
    /\ loop = "busy"
    /\ arrivals' = [o \in Observations |->
                      IF o \in answer \ seen THEN arrivals[o] + 1 ELSE arrivals[o]]
    /\ seen' = seen \cup answer
    /\ backoff' = 0 /\ resume' = 0
    /\ refusals' = 0
    /\ Succeeded
    /\ UNCHANGED <<feed, quiet>>

\* Mutant: the new process starts with nothing seen.
RestartBlank ==
    /\ loop # "done"
    /\ loop' = "body" /\ left' = 0
    /\ failures' = 0 /\ lasted' = 0 /\ alarmed' = FALSE /\ stop' = FALSE /\ outage' = 0
    /\ seen' = {}
    /\ backoff' = 0 /\ resume' = 0 /\ refusals' = 0 /\ quiet' = Horizon
    /\ UNCHANGED <<feed, arrivals>>

\* The process dies and a new one loads the table (_load_seen_obs); it does
\* not know that the old one was refused.
Restart ==
    /\ loop # "done"
    /\ loop' = "body" /\ left' = 0
    /\ failures' = 0 /\ lasted' = 0 /\ alarmed' = FALSE /\ stop' = FALSE /\ outage' = 0
    /\ seen' = Recorded
    /\ backoff' = 0 /\ resume' = 0 /\ refusals' = 0 /\ quiet' = Horizon
    /\ UNCHANGED <<feed, arrivals>>

ObsTick ==
    /\ RunnerTick
    /\ resume' = Max({resume, 1}) - 1
    /\ quiet' = Older(quiet)
    /\ UNCHANGED <<feed, arrivals, seen, backoff, refusals>>

ObsNext ==
    \/ \E o \in Observations : Publish(o)
    \/ Skip \/ Request \/ Refuse \/ Break
    \/ \E answer \in SUBSET feed : LoseCommit(answer) \/ Record(answer)
    \/ Restart
    \/ ObsTick
    \/ (Wake \/ Stop) /\ UNCHANGED <<feed, obsOnly>>

ObsSpec == ObsInit /\ [][ObsNext]_obsVars

-----------------------------------------------------------------------------
(* Properties *)

\* No observation gets two rows: seen and the table agree whatever polls were
\* refused or lost their commit and whenever the process was restarted
\* (_poll_obs_arrivals, _load_seen_obs).
ArrivalsRecordedOnce == \A o \in Observations : arrivals[o] <= 1

\* The longest the n-th refusal in a row keeps the loop away.
Owed(n) == IF n = 0 THEN 0 ELSE Min({BackoffStart * 2^(n - 1), BackoffLimit})

\* After n refusals in a row the service is not asked again for the time the
\* n-th is worth, though the loop wakes in between, other requests fail and
\* its own back-off is shorter (state.resume_at against run_loop's sleeps).
RefusedStaysAway ==
    [][loop = "body" /\ loop' = "busy" => quiet >= Owed(refusals)]_obsVars

\* The alarm of an outage is never early, and late by no more than the time to
\* the next failure, though skipped runs neither fail nor succeed (run_loop).
AlarmsAreRight ==
    /\ alarmed => outage > Threshold
    /\ outage > Threshold + MaxGap => alarmed

\* An outage of the service is neither alarmed too early or missed for ever,
\* nor polled in haste (run_loop, _poll_obs_arrivals).
OutagesAreHandled == []AlarmsAreRight /\ RefusedStaysAway

\* What the service has published gets into the table, if the service answers
\* again and again, whatever refusals, lost commits and restarts come between.
EventuallyRecorded == []<>(loop = "done" \/ feed \subseteq Recorded)
=============================================================================
