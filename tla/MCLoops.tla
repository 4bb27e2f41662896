------------------------------- MODULE MCLoops --------------------------------
(***************************************************************************)
(* The parts of the bot that run beside the order path and share nothing   *)
(* with each other but the event loop, checked side by side: a behaviour   *)
(* is one of the part that its first state names, and the other parts stay *)
(* as they begin.                                                          *)
(***************************************************************************)
EXTENDS TokenBucket, ObsArrivals, PaperTrader, Watchdog, OrderBreaker, TLC

CONSTANTS c1, c2, m1, m2, m3, e1, e2, s1

EventOfMarket == m1 :> e1 @@ m2 :> e1 @@ m3 :> e2
SeriesOfEvent == e1 :> s1 @@ e2 :> s1
DateOfEvent   == e1 :> 0 @@ e2 :> 1

VARIABLE part

allVars == <<bucketVars, obsVars, paperVars, watchdogVars, breakerVars, part>>

Init ==
    /\ part \in {"bucket", "observations", "paper", "watchdog", "breaker"}
    /\ BucketInit /\ ObsInit /\ PaperInit /\ WatchdogInit /\ BreakerInit

Next ==
    /\ UNCHANGED part
    /\ \/ /\ part = "bucket" /\ BucketNext
          /\ UNCHANGED <<obsVars, paperVars, watchdogVars, breakerVars>>
       \/ /\ part = "observations" /\ ObsNext
          /\ UNCHANGED <<bucketVars, paperVars, watchdogVars, breakerVars>>
       \/ /\ part = "paper" /\ PaperNext
          /\ UNCHANGED <<bucketVars, obsVars, watchdogVars, breakerVars>>
       \/ /\ part = "watchdog" /\ WatchdogNext
          /\ UNCHANGED <<bucketVars, obsVars, paperVars, breakerVars>>
       \/ /\ part = "breaker" /\ BreakerNext
          /\ UNCHANGED <<bucketVars, obsVars, paperVars, watchdogVars>>

On(p, A) == part = p /\ A

\* The event loop runs what is ready and timers fire.  A call whose outcome the
\* environment chooses has its good outcome in the end, if it is made again
\* and again: the answers of the weather services.
Fairness ==
    /\ \A c \in Callers :
        /\ WF_bucketVars(On("bucket", Ask(c))) /\ WF_bucketVars(On("bucket", Take(c)))
        /\ WF_bucketVars(On("bucket", GiveBack(c))) /\ WF_bucketVars(On("bucket", Abort(c)))
    /\ WF_bucketVars(On("bucket", Refill))
    /\ WF_runnerVars(On("observations", Wake)) /\ WF_obsVars(On("observations", ObsTick))
    /\ WF_obsVars(On("observations", Skip)) /\ WF_obsVars(On("observations", Request))
    /\ SF_obsVars(On("observations", Record(feed)))
    /\ WF_paperVars(On("paper", NextDay))
    /\ WF_paperVars(On("paper", Want(LOOP))) /\ SF_paperVars(On("paper", Enter(LOOP)))
    /\ \A s \in Settlers :
        /\ WF_paperVars(On("paper", Book(s)))
        /\ \A e \in Events : WF_paperVars(On("paper", FetchNothing(s, e)))
    /\ \A e \in Events : SF_paperVars(On("paper", FetchHigh(LOOP, e)))

FairSpec == Init /\ [][Next]_allVars /\ Fairness

\* A burst of gap rows is pushed or waits for the next run of the watchdog, and
\* a burst of 429 answers pauses every order.
BurstsAreAnswered == NoSilentBurst /\ BurstsPause

\* Every acquire of a token ends, every observation that the weather service
\* goes on reporting is recorded, every trade is settled.
LoopsEnd == AcquiresEnd /\ EventuallyRecorded /\ EventuallySettled
=============================================================================
