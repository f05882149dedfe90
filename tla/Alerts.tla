------------------------------- MODULE Alerts -------------------------------
(***************************************************************************)
(* One alert condition: the observations of the worker's cycles, the        *)
(* debounce, the alert they open and resolve, and the operator's           *)
(* acknowledgement and maintenance windows.  (worker/app/jobs.py,          *)
(* routes/settings.py)                                                     *)
(*                                                                         *)
(* The worker's lease is held to the end of a cycle's one transaction, so  *)
(* cycles do not overlap each other; heartbeats, acknowledgements, windows *)
(* and revocations arrive while one is under way, and everything it writes *)
(* becomes visible with its commit, or not at all.                         *)
(*                                                                         *)
(* Time is relative: ages grow with Pass up to a cap past every threshold, *)
(* so that behaviours have no end.  The kinds stand for all alert types:   *)
(* "offline" and "delayed" are judged by the age of the last heartbeat or  *)
(* sample, "fresh" ones by what a fresh heartbeat reports, "operational"   *)
(* ones by a stored status.                                                *)
(***************************************************************************)
EXTENDS Naturals, FiniteSets

CONSTANTS
    FreshAge,     \* a heartbeat is fresh up to this age
    OfflineAge,   \* a sensor is offline beyond this age
    MaxLag,       \* bound: time between an observation and its commit
    MaxNewer      \* bound: heartbeats between an observation and its commit

VARIABLES
    kind,       \* the alert type's kind, fixed
    beat,       \* the latest heartbeat: identity, age, what it reports
    condition,  \* alert_condition_states row
    alerts,     \* live (open or acknowledged) alert rows, and the last's state
    window,     \* a maintenance window covers the present
    revoked,    \* the sensor is revoked: it is not evaluated any more
    cycle       \* the worker cycle under way

alertVars == <<kind, beat, condition, alerts, window, revoked, cycle>>

Kinds == {"offline", "delayed", "fresh", "operational"}
Debounce == CASE kind = "fresh" -> 2 [] kind = "operational" -> 0 [] OTHER -> 1
MinimumObservations == IF kind = "fresh" THEN 2 ELSE 1

AgeCap == OfflineAge + 1
ConditionAgeCap == MaxLag + 2

\* The key of an observation is the heartbeat it saw, given as the number of
\* heartbeats since; from Stale on it is older than any in-flight observation.
Stale == MaxNewer + 1
NoKey == MaxNewer + 2

ASSUME AlertsAssumption ==
    /\ FreshAge \in Nat /\ OfflineAge \in Nat /\ FreshAge < OfflineAge
    /\ MaxLag \in Nat /\ MaxNewer \in Nat

\* _heartbeat_observations: is the condition there, judged by the latest
\* heartbeat or sample?  What a fresh one reports counts only while it is
\* fresh, so a sensor that falls silent has no such fault any more.
HeartbeatFault ==
    CASE kind = "offline" -> beat.age > OfflineAge
      [] kind = "delayed" -> FreshAge < beat.age /\ beat.age <= OfflineAge
      [] OTHER            -> beat.age <= FreshAge /\ beat.faulty

\* evaluate_operational_alerts: rate candidates, sync runs, status files.
OperationalFault == beat.faulty

Faulty == IF kind = "operational" THEN OperationalFault ELSE HeartbeatFault

AlertStates == {"none", "open", "acknowledged", "resolved"}

\* _active_maintenance_window
WindowCovers == window

NoCondition == [exists |-> FALSE, active |-> FALSE, age |-> 0, count |-> 0, key |-> NoKey]
NoCycle == [phase |-> "none"]

AlertsInit ==
    /\ kind \in Kinds
    /\ beat = [age |-> 0, faulty |-> FALSE]
    /\ condition = NoCondition
    /\ alerts = [live |-> 0, state |-> "none"]
    /\ window = FALSE
    /\ revoked = FALSE
    /\ cycle = NoCycle

Lesser(a, b) == IF a < b THEN a ELSE b

Lagging == cycle.phase # "none" /\ cycle.lag = MaxLag

Older(c) == IF c.active THEN [c EXCEPT !.age = Lesser(@ + 1, ConditionAgeCap)] ELSE c

OlderCycle ==
    CASE cycle.phase = "none"     -> cycle
      [] cycle.phase = "observed" -> [cycle EXCEPT !.lag = @ + 1]
      [] cycle.phase = "applied"  -> [cycle EXCEPT !.lag = @ + 1, !.next = Older(@)]

Pass ==
    /\ ~Lagging
    /\ beat' = [beat EXCEPT !.age = Lesser(@ + 1, AgeCap)]
    /\ condition' = Older(condition)
    /\ cycle' = OlderCycle
    /\ UNCHANGED <<kind, alerts, window, revoked>>

Shifted(c) == IF c.key < Stale THEN [c EXCEPT !.key = @ + 1] ELSE c

ShiftedCycle ==
    CASE cycle.phase = "none"     -> cycle
      [] cycle.phase = "observed" -> [cycle EXCEPT !.key = @ + 1]
      [] cycle.phase = "applied"  -> [cycle EXCEPT !.key = @ + 1, !.next = Shifted(@)]

\* A heartbeat or sample arrives, or a stored status changes.
Report(faulty) ==
    /\ ~revoked
    /\ cycle.phase # "none" => cycle.key < MaxNewer
    /\ beat' = [age |-> 0, faulty |-> faulty]
    /\ condition' = Shifted(condition)
    /\ cycle' = ShiftedCycle
    /\ UNCHANGED <<kind, alerts, window, revoked>>

\* acquire_worker_lease: no other cycle is in a transaction.
WorkerLeaseFree == cycle.phase = "none"

\* A cycle begins and reads the latest rows.
Observe ==
    /\ WorkerLeaseFree
    /\ ~revoked
    /\ cycle' = [phase |-> "observed", active |-> Faulty, key |-> 0, lag |-> 0]
    /\ UNCHANGED <<kind, beat, condition, alerts, window, revoked>>

\* A condition that was not active starts its debounce and its count anew.
Restarted(c, o) ==
    IF c.active THEN c
    ELSE [c EXCEPT !.exists = TRUE, !.active = TRUE, !.age = o.lag, !.count = 0, !.key = NoKey]

\* Observations of the same heartbeat count once.
Counted(c, key) ==
    IF c.key = key THEN c
    ELSE [c EXCEPT !.count = Lesser(@ + 1, MinimumObservations), !.key = key]

Cleared(c) ==
    [c EXCEPT !.active = FALSE, !.age = 0, !.count = 0, !.key = NoKey]

AfterObservation(c, o) == IF o.active THEN Counted(Restarted(c, o), o.key) ELSE Cleared(c)

\* The debounce is measured to the time of the observation.
Ready(c, o) == o.active /\ c.age >= Debounce + o.lag /\ c.count >= MinimumObservations

\* Mutant: an acknowledged alert is left to the operator.
EffectOnOpen(c, o) ==
    CASE ~o.active /\ alerts.live > 0 /\ alerts.state = "open" -> "resolve"
      [] Ready(c, o) /\ ~WindowCovers /\ alerts.live = 0            -> "open"
      [] OTHER                                                -> "none"

\* Mutant: an acknowledged alert is overlooked.
EffectOpensAgain(c, o) ==
    CASE ~o.active /\ alerts.live > 0                             -> "resolve"
      [] Ready(c, o) /\ ~WindowCovers /\ alerts.state # "open"   -> "open"
      [] OTHER                                                    -> "none"

\* What the observation does to the alert it finds, open or acknowledged.
Effect(c, o) ==
    CASE ~o.active /\ alerts.live > 0                    -> "resolve"
      [] Ready(c, o) /\ ~WindowCovers /\ alerts.live = 0       -> "open"
      [] OTHER                                           -> "none"

\* _apply_alert_observation: reads the condition and the alert and decides;
\* the writes wait for the commit.
ApplyObservation ==
    LET c == AfterObservation(condition, cycle)
    IN  /\ cycle.phase = "observed"
        /\ cycle' = [phase |-> "applied", key |-> cycle.key, lag |-> cycle.lag,
                     next |-> c, effect |-> Effect(c, cycle)]
        /\ UNCHANGED <<kind, beat, condition, alerts, window, revoked>>

\* The commit at the end of run_jobs.
CommitCycle ==
    /\ cycle.phase = "applied"
    /\ condition' = cycle.next
    /\ alerts' = CASE cycle.effect = "none"    -> alerts
                   [] cycle.effect = "open"    -> [live |-> alerts.live + 1, state |-> "open"]
                   [] cycle.effect = "resolve" -> [live |-> alerts.live - 1, state |-> "resolved"]
    /\ cycle' = NoCycle
    /\ UNCHANGED <<kind, beat, window, revoked>>

\* Another job of the cycle fails: everything it wrote is rolled back.
AbortCycle ==
    /\ cycle.phase # "none"
    /\ cycle' = NoCycle
    /\ UNCHANGED <<kind, beat, condition, alerts, window, revoked>>

acknowledge_alert ==
    /\ alerts.live > 0
    /\ alerts' = [alerts EXCEPT !.state = "acknowledged"]
    /\ UNCHANGED <<kind, beat, condition, window, revoked, cycle>>

\* A window begins, ends or is cancelled.
ChangeWindow ==
    /\ window' = ~window
    /\ UNCHANGED <<kind, beat, condition, alerts, revoked, cycle>>

RevokeDevice ==
    /\ kind # "operational"
    /\ revoked' = TRUE
    /\ UNCHANGED <<kind, beat, condition, alerts, window, cycle>>

AlertsNext ==
    \/ Pass
    \/ \E faulty \in BOOLEAN : Report(faulty)
    \/ Observe \/ ApplyObservation \/ CommitCycle \/ AbortCycle
    \/ acknowledge_alert
    \/ ChangeWindow
    \/ RevokeDevice

\* Time passes, the worker's loop starts cycles, and cycles are not rolled
\* back for ever.
AlertsFairness ==
    /\ WF_alertVars(Pass)
    /\ WF_alertVars(Observe)
    /\ SF_alertVars(ApplyObservation)
    /\ SF_alertVars(CommitCycle)

AlertsSpec == AlertsInit /\ [][AlertsNext]_alertVars /\ AlertsFairness

-----------------------------------------------------------------------------
AlertsTypeOK ==
    /\ kind \in Kinds
    /\ beat \in [age : 0 .. AgeCap, faulty : BOOLEAN]
    /\ condition \in [exists : BOOLEAN, active : BOOLEAN, age : 0 .. ConditionAgeCap,
                      count : 0 .. MinimumObservations, key : 0 .. NoKey]
    /\ alerts.state \in AlertStates
    /\ window \in BOOLEAN /\ revoked \in BOOLEAN
    /\ cycle.phase \in {"none", "observed", "applied"}

\* A condition never has two live alerts, and a live alert rests on a
\* condition that is active, has lasted its debounce and was seen in as many
\* heartbeats as it takes, whatever was acknowledged, suppressed or rolled
\* back on the way.
AlertsRestOnConditions ==
    /\ alerts.live \in {0, 1}
    /\ alerts.live = 1 => /\ condition.active
                         /\ condition.age >= Debounce
                         /\ condition.count >= MinimumObservations

\* A fault that stays, outside maintenance, comes to have a live alert for
\* good, and one that stays away comes to have none, as long as the sensor is
\* not revoked: a revoked sensor is not evaluated and keeps its alerts.
AlertsFollowFaults ==
    /\ <>[](Faulty /\ ~window /\ ~revoked) => <>[](alerts.live = 1)
    /\ <>[](~Faulty /\ ~revoked) => <>[](alerts.live = 0)

\* One live alert at most, and none without its condition.
AlertsSound == AlertsTypeOK /\ AlertsRestOnConditions
=============================================================================
