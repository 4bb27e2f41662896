-------------------------------- MODULE MCLive --------------------------------
(***************************************************************************)
(* What the bot owes in the end on its two long roads: from an order to    *)
(* its rows, here one order in one market, and from a book to the tape,    *)
(* here two markets.  The roads share no state and are checked side by     *)
(* side: a behaviour is one of the road that its first state names.        *)
(***************************************************************************)
EXTENDS FiniteSets, Integers, TLC

CONSTANTS Orders, Ticker, MaxContracts, Lag, Overlap, ColdStart, MaxTime, NONE,
          Tapes, ALL, MaxSize, BatchMax, MaxChanges, MaxFaults

VARIABLES road,
          clock, exch, stale, demo_orders, last_poll_ts, watermark, phase, eval,
          orderRec, committed,
          market, book, ver, faults, link, client, rec, tape

Demo == INSTANCE DemoOrders WITH
            NoOrders <- Orders, Tickers <- {Ticker},
            TickerOf <- [o \in Orders |-> Ticker], OmitsId <- FALSE,
            rec <- orderRec

Recorder == INSTANCE WsRecorder WITH Tickers <- Tapes

demoVars     == <<clock, exch, stale, demo_orders, last_poll_ts, watermark, phase,
                  eval, orderRec, committed>>
recorderVars == <<market, book, ver, faults, link, client, rec, tape>>

Init ==
    /\ road \in {"orders", "recorder"}
    /\ Demo!Init /\ Recorder!Init
    /\ road = "orders" => \A t \in Tapes : market[t] = "unlisted" /\ book[t] = 0

Next ==
    /\ UNCHANGED road
    /\ \/ road = "orders" /\ Demo!Next /\ UNCHANGED recorderVars
       \/ road = "recorder" /\ Recorder!Next /\ UNCHANGED demoVars

On(r, A) == road = r /\ A

\* The fairness of DemoOrders and of WsRecorder, each on its own road.
Fairness ==
    /\ \A o \in Orders : /\ WF_demoVars(On("orders", Demo!PublishOrder(o)))
                         /\ WF_demoVars(On("orders", Demo!PublishFill(o)))
    /\ WF_demoVars(On("orders", Demo!Boot))
    /\ SF_demoVars(On("orders", Demo!BootCheck /\ phase' = "run"))
    /\ SF_demoVars(On("orders", Demo!PollFills))
    /\ SF_demoVars(On("orders", Demo!PollOrders))
    /\ SF_demoVars(On("orders", Demo!RecCommit))
    /\ \A t \in Tapes : WF_recorderVars(On("recorder", Recorder!SendSnapshot(t)))
    /\ WF_recorderVars(On("recorder", Recorder!Read))
    /\ WF_recorderVars(On("recorder", Recorder!YieldHeld))
    /\ WF_recorderVars(On("recorder", Recorder!YieldGap))
    /\ WF_recorderVars(On("recorder", Recorder!Disconnect))
    /\ WF_recorderVars(On("recorder", Recorder!Reconnect))
    /\ WF_recorderVars(On("recorder", Recorder!Refresh))
    /\ WF_recorderVars(On("recorder", Recorder!Take))
    /\ WF_recorderVars(On("recorder", Recorder!EndBatch))
    /\ WF_recorderVars(On("recorder", Recorder!Commit))
    /\ WF_recorderVars(On("recorder", Recorder!Resubscribe))
    /\ WF_recorderVars(On("recorder", Recorder!Start))

FairSpec == Init /\ [][Next]_<<road, demoVars, recorderVars>> /\ Fairness

\* EventuallyMirrored of the order path: every order the venue books reaches
\* the tables with its fills, whatever becomes of the process that placed it.
EventuallyMirrored == Demo!EventuallyMirrored

\* EventuallyCurrent of the recorder: the tape catches up with every open
\* market, but for a skipped message that nothing follows.
EventuallyCurrent == Recorder!EventuallyCurrent
=============================================================================
