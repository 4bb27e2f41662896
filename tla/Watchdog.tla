------------------------------- MODULE Watchdog -------------------------------
(***************************************************************************)
(* The health check of the recorder (scripts/ws_watchdog.py), which a      *)
(* timer starts: it counts the gap rows, compares the count with the one   *)
(* its last run saved, pushes an alarm or the daily all-clear, and saves   *)
(* the count.  The recorder goes on writing gap rows meanwhile.            *)
(***************************************************************************)
EXTENDS Naturals

CONSTANTS
    NOCOUNT,      \* null in the state file, and no state file
    MaxGapDelta,  \* MAX_GAP_DELTA
    MaxGapRows    \* bound on the gap rows

ASSUME WatchdogAssumption ==
    /\ NOCOUNT \notin Nat
    /\ {MaxGapDelta, MaxGapRows} \subseteq Nat

VARIABLES
    gapRows,    \* rows of ws_gaps
    healthy,    \* the rest of what is checked: the unit, the heartbeat, the disk
    saved,      \* gap_count of the state file
    torn,       \* the state file was cut while it was written
    pinged,     \* its last_ok_ping is today
    check,      \* the run
    last        \* history: the check of the last run that saved

watchdogVars == <<gapRows, healthy, saved, torn, pinged, check, last>>

\* at is a history: the gap rows when the run counted them.
NoCheck == [on |-> FALSE, count |-> NOCOUNT, alarm |-> FALSE, at |-> 0]

WatchdogInit ==
    /\ gapRows = 0 /\ healthy = TRUE
    /\ saved = NOCOUNT /\ torn = FALSE /\ pinged = FALSE
    /\ check = NoCheck
    /\ last = NoCheck

\* _persist_ws_events writes a gap row.
GapRecorded ==
    /\ gapRows < MaxGapRows
    /\ gapRows' = gapRows + 1
    /\ UNCHANGED <<healthy, saved, torn, pinged, check, last>>

HealthChanges ==
    /\ healthy' = ~healthy
    /\ UNCHANGED <<gapRows, saved, torn, pinged, check, last>>

\* The day changes between two runs.
Midnight ==
    /\ ~check.on /\ pinged' = FALSE
    /\ UNCHANGED <<gapRows, healthy, saved, torn, check, last>>

\* evaluate: there is a delta when both counts are there; a database that
\* cannot be read is an alarm of its own.
Alarm(count) ==
    \/ count = NOCOUNT
    \/ ~healthy
    \/ saved # NOCOUNT /\ count > saved + MaxGapDelta

\* read_db, load_state and evaluate.  A run that finds the file torn raises in
\* load_state: it evaluates nothing, pushes nothing and saves nothing.
Check(readable) ==
    LET count == IF readable THEN gapRows ELSE NOCOUNT
    IN  /\ ~check.on /\ ~torn
        /\ check' = [on |-> TRUE, count |-> count, alarm |-> Alarm(count), at |-> gapRows]
        /\ UNCHANGED <<gapRows, healthy, saved, torn, pinged, last>>

\* post_ntfy, which may fail, and save_state, which does not ask.
Finish(sent) ==
    /\ check.on
    /\ saved' = check.count
    /\ pinged' = (pinged \/ (sent /\ ~check.alarm))
    /\ last' = check /\ check' = NoCheck
    /\ UNCHANGED <<gapRows, healthy, torn>>

\* The run is killed before it saves.
Killed ==
    /\ check.on /\ check' = NoCheck
    /\ UNCHANGED <<gapRows, healthy, saved, torn, pinged, last>>

\* The run is killed while it saves: write_text truncates the file before it
\* writes, and nothing writes it again.
KilledSaving ==
    /\ check.on /\ check' = NoCheck
    /\ torn' = TRUE
    /\ UNCHANGED <<gapRows, healthy, saved, pinged, last>>

WatchdogNext ==
    \/ GapRecorded \/ HealthChanges \/ Midnight \/ Killed \/ KilledSaving
    \/ \E readable \in BOOLEAN : Check(readable)
    \/ \E sent \in BOOLEAN : Finish(sent)

WatchdogSpec == WatchdogInit /\ [][WatchdogNext]_watchdogVars

-----------------------------------------------------------------------------
(* Properties *)

\* A burst of gaps does not go unsaid: after a run that saved without an alarm,
\* the next that saves without one saw at most MAX_GAP_DELTA rows more, though
\* rows are written while a run pushes and runs are killed (run, save_state).
\* Once a run is killed while it writes the state file none saves again, and
\* none alarms: of that silence, and of a push that is lost, it says nothing.
NoSilentBurst ==
    [][last' # last /\ ~last'.alarm /\ last.on /\ ~last.alarm
        => last'.at <= last.at + MaxGapDelta]_watchdogVars
=============================================================================
