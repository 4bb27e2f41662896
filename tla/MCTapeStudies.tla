---------------------------- MODULE MCTapeStudies ----------------------------
(***************************************************************************)
(* The studies of the recorded tape that end in a verdict of their own.    *)
(* They share the tape and no state: a behaviour is one of the study that  *)
(* its first state names.                                                  *)
(***************************************************************************)
EXTENDS ForecastClass, LockStudy, TakerFlow, LadderStudy, SettlementStudy, LeadLag, MCTapeInputs

MCFlowJobs   == FlowJobs(NOSTAMP)
MCSettleJobs == SettlementJobs(NONOTICE, MISDATED)

SomeForecastJob == CHOOSE j \in FcJobs : TRUE
SomeLockJob     == CHOOSE j \in LkJobs : TRUE
SomeFlowJob     == CHOOSE j \in TfJobs : TRUE
SomeLadderJob   == CHOOSE j \in LdJobs : TRUE
SomeSettleJob   == CHOOSE j \in StJobs : TRUE
SomeLeadJob     == CHOOSE j \in LgJobs : TRUE

VARIABLE study

allVars == <<fcVars, lkVars, tfVars, ldVars, stVars, lgVars, study>>

Init == /\ study \in {"forecast", "lock", "flow", "ladder", "settle", "lead"}
        /\ IF study = "forecast" THEN FcInit ELSE FcStart(SomeForecastJob)
        /\ IF study = "lock" THEN LkInit ELSE LkStart(SomeLockJob)
        /\ IF study = "flow" THEN TfInit ELSE TfStart(SomeFlowJob)
        /\ IF study = "ladder" THEN LdInit ELSE LdStart(SomeLadderJob)
        /\ IF study = "settle" THEN StInit ELSE StStart(SomeSettleJob)
        /\ IF study = "lead" THEN LgInit ELSE LgStart(SomeLeadJob)

Next ==
    /\ UNCHANGED study
    /\ \/ study = "forecast" /\ FcNext /\ UNCHANGED <<lkVars, tfVars, ldVars, stVars, lgVars>>
       \/ study = "lock" /\ LkNext /\ UNCHANGED <<fcVars, tfVars, ldVars, stVars, lgVars>>
       \/ study = "flow" /\ TfNext /\ UNCHANGED <<fcVars, lkVars, ldVars, stVars, lgVars>>
       \/ study = "ladder" /\ LdNext /\ UNCHANGED <<fcVars, lkVars, tfVars, stVars, lgVars>>
       \/ study = "settle" /\ StNext /\ UNCHANGED <<fcVars, lkVars, tfVars, ldVars, lgVars>>
       \/ study = "lead" /\ LgNext /\ UNCHANGED <<fcVars, lkVars, tfVars, ldVars, stVars>>

Spec == Init /\ [][Next]_allVars
=============================================================================
