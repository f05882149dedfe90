-------------------------------- MODULE MCWorker --------------------------------
(* The worker's cycle: intervals are priced, sources of rates are checked     *)
(* and alerts follow the conditions of sensors.  Each behaviour runs the job  *)
(* `focus' names.                                                             *)
EXTENDS RateSync, Alerts

VARIABLE focus

WorkerInit ==
    /\ SyncInit /\ AlertsInit
    /\ focus \in {"sync", "alerts"}
    /\ focus # "alerts" => kind = CHOOSE k \in Kinds : TRUE

WorkerNext ==
    \/ focus = "sync" /\ SyncNext /\ UNCHANGED <<alertVars, focus>>
    \/ focus = "alerts" /\ AlertsNext /\ UNCHANGED <<syncVars, focus>>

\* The fairness of the job that runs: SyncFairness or AlertsFairness, none of it
\* asked of a job at rest.
Run(job, A) == focus = job /\ A
WorkerFairness ==
    /\ WF_syncVars(Run("sync", CheckFallsDue))
    /\ WF_syncVars(Run("sync", LoadSource("worker")))
    /\ WF_syncVars(Run("sync", BeginCheck("worker")))
    /\ \A s \in Syncers : WF_syncVars(Run("sync", CheckAdvances(s)))
    /\ <>[][\A s \in Syncers : ~CheckFails(s)]_syncVars
    /\ WF_alertVars(Run("alerts", Pass))
    /\ WF_alertVars(Run("alerts", Observe))
    /\ SF_alertVars(Run("alerts", ApplyObservation))
    /\ SF_alertVars(Run("alerts", CommitCycle))

WorkerSpec ==
    /\ WorkerInit
    /\ [][WorkerNext]_<<syncVars, alertVars, focus>>
    /\ WorkerFairness

\* A page the parser accepts and the utility leaves alone comes up for review,
\* after parser upgrades and interrupted checks too (PageReachesReview, in the
\* behaviours that check the source).
SourceReachesReview ==
    (focus = "sync" /\ page \in accepted) ~>
        (page \in source.candidates \cup discarded \/ page \notin accepted)
================================================================================
