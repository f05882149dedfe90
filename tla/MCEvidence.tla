------------------------------- MODULE MCEvidence -------------------------------
(* From what sensors send to what the account has used: durable readings and  *)
(* their prices, stateless samples, the usage of the billing cycle, and the    *)
(* branches that say which sensors count.  Each behaviour runs the part        *)
(* `focus' names; a part that has reached its bound rests.                     *)
EXTENDS ReadingCosts, StatelessTelemetry, BillingUsage, ServiceBranches, TLC

CONSTANTS s1, s2

VARIABLE focus

TwoSlots == {s1, s2}

\* What becomes of a meter's sample: delivered before History existed,
\* delivered, delivered without values or without a counter or after a reset of
\* it, or lost.
MCOutcomes == {"legacy", "ok", "bad", "powered", "reset", "lost"}

\* What was delivered before the cycle began: the usage of the cycle is followed
\* from there on.
BeforeCycle == {<<"legacy", "legacy">>, <<"ok", "ok">>, <<"ok", "lost">>,
                <<"ok", "powered">>, <<"lost", "lost">>}

EvidenceSymmetry == Permutations(TwoSlots) \cup Permutations(Editors)

\* The interleavings of requests are the part "ingestion"; prices are followed
\* for one request at a time, of readings with and without energy.
EnergyOnly == \A s \in Slots : req'[s].kind = "readings" => req'[s].payload.content = "energy"
OneAtATime == \A s, t \in Slots : s = t \/ Idle \in {req'[s], req'[t]}

evidenceVars == <<costVars, telemetryVars, usageVars, branchVars, focus>>

EvidenceInit ==
    /\ CostInit /\ TelemetryInit /\ BranchesInit
    /\ focus \in {"ingestion", "costs", "telemetry", "usage", "branches"}
    /\ IF focus = "usage"
       THEN delivered \in [Meters -> BeforeCycle] /\ seed = NoSeed /\ cleared = {}
       ELSE UsageInit

EvidenceNext ==
    \/ focus = "ingestion" /\ Next /\ EnergyOnly
       /\ UNCHANGED <<cost, cycle, raced, telemetryVars, usageVars, branchVars, focus>>
    \/ focus = "costs" /\ CostNext /\ OneAtATime
       /\ UNCHANGED <<telemetryVars, usageVars, branchVars, focus>>
    \/ focus = "telemetry" /\ TelemetryNext
       /\ UNCHANGED <<costVars, usageVars, branchVars, focus>>
    \/ focus = "usage" /\ UsageNext
       /\ UNCHANGED <<costVars, telemetryVars, branchVars, focus>>
    \/ focus = "branches" /\ BranchesNext
       /\ UNCHANGED <<costVars, telemetryVars, usageVars, focus>>
    \/ focus \notin {"ingestion", "costs"} /\ UNCHANGED evidenceVars

EvidenceSpec == EvidenceInit /\ [][EvidenceNext]_evidenceVars

\* EnergyAccountedOnce, in the behaviours of stateless telemetry.
EnergyHolds == focus = "telemetry" => EnergyAccountedOnce

\* UsageSound, in the behaviours of the cycle's usage.
UsageHolds == focus = "usage" => UsageSound
================================================================================
