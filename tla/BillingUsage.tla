---------------------------- MODULE BillingUsage ----------------------------
(***************************************************************************)
(* The energy of the current billing cycle, summed from what the members   *)
(* of the home total delivered: saved intervals, energy recovered across   *)
(* connection gaps, a verified seed, estimates of short gaps; and what may *)
(* be said of it (resolved, tier, projection).  The sum is written twice,  *)
(* in services/billing_usage.py (live price) and in routes/billing.py      *)
(* (overview); services/tiered_billing.py judges it.                       *)
(*                                                                         *)
(* Time is counted in telemetry intervals.  Every member draws constant    *)
(* power, one unit per interval, so the true usage is the elapsed time and *)
(* an energy counted twice or dropped shows as a difference.  An estimate  *)
(* is a fraction of a unit: sums that contain one are in parts of a unit,  *)
(* Scale of them.                                                          *)
(***************************************************************************)
EXTENDS Integers, Sequences, FiniteSets, FiniteSetsExt

CONSTANTS
    Meters,        \* the members of the home-total branch
    Outcomes,      \* what may become of a sample
    CycleStart,    \* the instant the current cycle begins
    BucketSpan,  \* length of a History bucket
    Minute,        \* the overview ends at a full minute
    MaxGap,        \* max_estimatable_gap_seconds
    MinCoverage,   \* estimate_min_coverage, in percent
    Allowance,     \* the Tier 1 allowance of the cycle
    MaxUsageTime,  \* bound: length of a behaviour
    MaxOdd         \* bound: samples without values or counter, and restarts, of a member

\* "legacy" is a durable reading of before the cutover to stateless samples;
\* "bad" a sample without meter values, "powered" one without the cumulative
\* counter, "reset" one whose counter has restarted.
AllOutcomes == {"legacy", "ok", "bad", "powered", "reset", "lost"}

ASSUME UsageAssumption ==
    /\ Outcomes \subseteq AllOutcomes
    /\ CycleStart \in Nat /\ MaxUsageTime \in Nat /\ Allowance \in Nat /\ MaxOdd \in Nat
    /\ BucketSpan \in Nat \ {0} /\ Minute \in Nat \ {0}
    /\ CycleStart % BucketSpan = 0 /\ CycleStart % Minute = 0

VARIABLES
    delivered,  \* per member, what became of the sample of each instant
    seed,       \* the verified cycle-to-date seed, or NoSeed
    cleared     \* counter-reset alerts that are open no longer

usageVars == <<delivered, seed, cleared>>

NoSeed == -1

Clock == Len(delivered[CHOOSE m \in Meters : TRUE])
Instants == 0 .. Clock - 1
Outcome(m, t) == delivered[m][t + 1]

UsageInit ==
    /\ delivered = [m \in Meters |-> <<>>]
    /\ seed = NoSeed
    /\ cleared = {}

Cutover(m, t, outcome) ==
    outcome = "legacy" => \A i \in 0 .. t - 1 : Outcome(m, i) = "legacy"

Odd(outcome) == outcome \in {"bad", "powered", "reset"}

\* The samples of one instant.  The counter of a restarted meter is noticed
\* against an earlier valid sample.
TakeSample(outcomes) ==
    /\ Clock < MaxUsageTime
    /\ \A m \in Meters :
          /\ Cutover(m, Clock, outcomes[m])
          /\ Odd(outcomes[m]) => Cardinality({t \in Instants : Odd(Outcome(m, t))}) < MaxOdd
          /\ outcomes[m] = "reset" => \E t \in Instants : Outcome(m, t) \in {"ok", "reset"}
    /\ delivered' = [m \in Meters |-> Append(delivered[m], outcomes[m])]
    /\ UNCHANGED <<seed, cleared>>

\* create_billing_cycle_adjustment: once per cycle, exact up to "through".
CreateAdjustment(through) ==
    /\ seed = NoSeed
    /\ CycleStart <= through /\ through <= Clock
    /\ seed' = through
    /\ UNCHANGED <<delivered, cleared>>

Resets(m) == {t \in Instants : Outcome(m, t) = "reset"}

\* acknowledge_alert: only open alerts count as unresolved.
AcknowledgeReset(m, t) ==
    /\ t \in Resets(m) /\ <<m, t>> \notin cleared
    /\ cleared' = cleared \cup {<<m, t>>}
    /\ UNCHANGED <<delivered, seed>>

UsageNext ==
    \/ \E outcomes \in [Meters -> Outcomes] : TakeSample(outcomes)
    \/ \E through \in CycleStart .. MaxUsageTime : CreateAdjustment(through)
    \/ \E m \in Meters, t \in 0 .. MaxUsageTime : AcknowledgeReset(m, t)

UsageSpec == UsageInit /\ [][UsageNext]_usageVars

-----------------------------------------------------------------------------
(* What ingestion makes of the samples (_record_energy_evidence,           *)
(* _upsert_history_bucket); the samples arrive in order.                   *)

Deliveries(m) == {t \in Instants : Outcome(m, t) \in {"ok", "bad", "powered", "reset"}}
Powered(m) == {t \in Instants : Outcome(m, t) \in {"ok", "powered", "reset"}}
Valid(m) == {t \in Instants : Outcome(m, t) \in {"ok", "reset"}}
Before(S, t) == {i \in S : i < t}
LastOf(S) == Max(S)

\* More than two intervals without a delivery or without a counter.
OpensGap(m, t) ==
    \/ t - LastOf(Before(Deliveries(m), t)) > 2
    \/ t \in Valid(m) /\ Before(Valid(m), t) # {} /\ t - LastOf(Before(Valid(m), t)) > 2

\* The instant the energy of sample t is counted from.
Baseline(m, t) == IF Before(Valid(m), t) # {} THEN LastOf(Before(Valid(m), t))
                  ELSE LastOf(Before(Deliveries(m), t))

\* Samples whose counter difference goes to their bucket.
Allocated(m) == {t \in Valid(m) : /\ Before(Valid(m), t) # {}
                                  /\ Outcome(m, t) # "reset"
                                  /\ ~OpensGap(m, t)}

CrossesCycle(m, t) == Baseline(m, t) < CycleStart /\ CycleStart <= t

\* TelemetryEnergyEvent rows of gaps; a reset makes an "excluded" one, which
\* billing never reads.
Gap(m, t) ==
    LET recovered == Before(Valid(m), t) # {} /\ ~CrossesCycle(m, t)
    IN  [start |-> Baseline(m, t) + 1, end |-> t, crosses |-> CrossesCycle(m, t),
         included |-> recovered, energy |-> IF recovered THEN t - Baseline(m, t) ELSE 0]

Gaps(m) == {Gap(m, t) : t \in {i \in Valid(m) : /\ Outcome(m, i) # "reset"
                                               /\ Before(Deliveries(m), i) # {}
                                               /\ OpensGap(m, i)}}

Unmeasured == -1

\* NormalizedInterval rows: durable ones of one instant, and History buckets
\* whose completeness is the share of their samples that had power.
Intervals(m) ==
    LET powered == Powered(m)
        energy == [t \in Allocated(m) |-> t - Baseline(m, t)]
        Bucket(start) ==
            LET samples == start .. start + BucketSpan - 1
                counted == samples \cap DOMAIN energy
            IN  [start |-> start, end |-> start + BucketSpan,
                 reliable |-> Cardinality(samples \cap powered),
                 energy |-> IF counted = {} THEN Unmeasured
                            ELSE MapThenSumSet(LAMBDA t : energy[t], counted)]
    IN  {[start |-> t, end |-> t + 1, reliable |-> 1, energy |-> 1] :
            t \in {i \in Instants : Outcome(m, i) = "legacy"}}
        \cup {Bucket(start) : start \in {t - (t % BucketSpan) : t \in Deliveries(m)}}

-----------------------------------------------------------------------------
(* account_cycle_usage and billing_overview.                               *)

ScopeEnd == Clock - (Clock % Minute)

PerMeter(op(_)) == MapThenSumSet(op, Meters)
Total(op(_), S) == MapThenSumSet(op, S)

\* Readings count from the end of the seed.
AutomaticStart(seeded) == IF seeded THEN seed ELSE CycleStart

Within(intervals, from) == {i \in intervals : i.start >= from /\ i.end <= ScopeEnd}
Measured(intervals) == {i \in intervals : i.energy # Unmeasured}

\* Recovered gaps end within the scope.
Recovered(gaps, from) == {g \in gaps : g.included /\ g.end > from /\ g.end <= ScopeEnd}
Unresolved(gaps, from) == {g \in gaps : ~g.included /\ g.end > from /\ g.start < ScopeEnd}

OpenResets(from) ==
    {<<m, t>> \in Meters \X Instants :
        t \in Resets(m) /\ <<m, t>> \notin cleared /\ from <= t /\ t < ScopeEnd}

Length(g) == g.end - g.start
Scale == 2 * BucketSpan

\* The measured intervals before and after a gap, no further than a gap may be
\* long, and of them the nearest.
IntervalsBefore(g, measured) == {i \in measured : i.end <= g.start /\ i.end >= g.start - MaxGap}
IntervalsAfter(g, measured) == {i \in measured : i.start >= g.end /\ i.start <= g.end + MaxGap}

\* The energy an interval has in the time of a bucket.
Rate(i) == i.energy * (BucketSpan \div Length(i))
NeighbourRates(g, measured) ==
    LET before == IntervalsBefore(g, measured)
        after == IntervalsAfter(g, measured)
    IN  [before |-> Rate(CHOOSE i \in before : \A j \in before : j.end <= i.end),
         after |-> Rate(CHOOSE i \in after : \A j \in after : i.start <= j.start)]

\* estimate_short_gap_energy: what a gap must satisfy, its neighbours included,
\* and its energy at their average rate, with the bounds of the two rates.
Estimable(g, measured, from, covered) ==
    /\ g.end > g.start
    /\ g.start >= from /\ g.end <= ScopeEnd /\ ~g.crosses
    /\ OpenResets(from) = {}
    /\ covered
    /\ Length(g) <= MaxGap
    /\ IntervalsBefore(g, measured) # {} /\ IntervalsAfter(g, measured) # {}

Estimate(g, measured) ==
    LET rate == NeighbourRates(g, measured)
    IN  [energy |-> (rate.before + rate.after) * Length(g),
         lower |-> 2 * Min({rate.before, rate.after}) * Length(g),
         upper |-> 2 * Max({rate.before, rate.after}) * Length(g)]

\* The sum and its quality.  The two versions differ in the seeds they accept
\* and in whether an interval without energy is reliable time.
Usage(seeded, strict) ==
    LET from == AutomaticStart(seeded)
        intervals == [m \in Meters |-> Intervals(m)]
        gaps == [m \in Meters |-> Gaps(m)]
        seeding == IF seeded THEN (seed - CycleStart) * Cardinality(Meters) ELSE 0
        expected == (ScopeEnd - CycleStart) * Cardinality(Meters)
        reads(m) == Within(IF strict THEN Measured(intervals[m]) ELSE intervals[m], from)
        reliable == seeding + PerMeter(LAMBDA m : Total(LAMBDA i : i.reliable, reads(m)))
        covered == reliable * 100 >= MinCoverage * expected
        estimated == [m \in Meters |-> {g \in Unresolved(gaps[m], from) :
                                          Estimable(g, Measured(intervals[m]), from, covered)}]
        estimate(m, g) == Estimate(g, Measured(intervals[m]))
        classified == PerMeter(LAMBDA m :
                        Total(Length, Recovered(gaps[m], from) \cup Unresolved(gaps[m], from)))
    IN  [measured |-> seeding + PerMeter(LAMBDA m :
                        Total(LAMBDA i : i.energy, Within(Measured(intervals[m]), from))),
         recovered |-> PerMeter(LAMBDA m : Total(LAMBDA g : g.energy, Recovered(gaps[m], from))),
         estimated |-> PerMeter(LAMBDA m : Total(LAMBDA g : estimate(m, g).energy, estimated[m])),
         lower |-> PerMeter(LAMBDA m : Total(LAMBDA g : estimate(m, g).lower, estimated[m])),
         upper |-> PerMeter(LAMBDA m : Total(LAMBDA g : estimate(m, g).upper, estimated[m])),
         estimatedTime |-> PerMeter(LAMBDA m : Total(Length, estimated[m])),
         coverage |-> IF expected = 0 THEN 100 ELSE Min({100, (reliable * 100) \div expected}),
         unknown |-> PerMeter(LAMBDA m : Cardinality(Unresolved(gaps[m], from) \ estimated[m]))
                     + (IF expected - reliable > classified THEN 1 ELSE 0),
         resets |-> Cardinality(OpenResets(from))]

\* account_cycle_usage: a seed that ends after the scope is ignored, and an
\* interval without energy is not reliable time.
AccountCycleUsage == Usage(seed # NoSeed /\ seed <= ScopeEnd, TRUE)

\* Mutant: the overview does not know of the seed.
OverviewUnseeded == Usage(FALSE, FALSE)

\* billing_overview: any seed counts, and so does any interval.
OverviewUsage == Usage(seed # NoSeed, FALSE)

SavedUsage(u) == Scale * (u.measured + u.recovered)
CurrentUsage(u) == SavedUsage(u) + u.estimated
Resolved(u) == u.unknown = 0 /\ u.resets = 0

\* tier_state_for_quality: the tier both bounds of the usage are in.  That the
\* usage is estimated is not part of the state here.
TierOf(usage) == IF usage <= Scale * Allowance THEN "tier_1" ELSE "tier_2"
TierState(u) ==
    LET lower == TierOf(SavedUsage(u) + u.lower)
        upper == TierOf(SavedUsage(u) + u.upper)
    IN  IF ~Resolved(u) \/ lower # upper THEN "not_confirmed" ELSE lower

\* estimate_confidence, with the default of the upper threshold.
Confidence(u) ==
    IF ~Resolved(u) THEN "insufficient"
    ELSE IF u.coverage >= 99 \/ (u.recovered > 0 /\ u.estimated = 0) THEN "high"
    ELSE IF u.coverage >= MinCoverage THEN "moderate"
    ELSE "insufficient"

-----------------------------------------------------------------------------
(* Properties.                                                             *)

\* Delivery outcomes, seed and cleared alerts have their types.
UsageTypeOK ==
    /\ \A m \in Meters : /\ delivered[m] \in Seq(Outcomes)
                         /\ Len(delivered[m]) = Clock /\ Clock <= MaxUsageTime
    /\ seed \in {NoSeed} \cup CycleStart .. MaxUsageTime
    /\ cleared \subseteq Meters \X (0 .. MaxUsageTime)

TrueUsage == (ScopeEnd - CycleStart) * Cardinality(Meters)

\* A gap that began before the end of the seed and was recovered after it:
\* its energy and its length are both counted whole.
GapStraddlesSeed == \E m \in Meters : \E g \in Recovered(Gaps(m), seed) : g.start < seed /\ seed # NoSeed

EveryCounterRead == \A m \in Meters : \A t \in Instants : Outcome(m, t) # "powered"

\* Usage reported as resolved is the usage: no interval is counted twice or
\* left out, beyond an interval per member at each edge of the scope and two
\* for every counter reset an operator acknowledged; an estimated gap stands
\* for the time it lasted.  The exceptions are a recovered gap across the end
\* of the seed, and samples with power but no counter, whose time is both
\* reliable and part of a recovered gap.
ResolvedUsageIsComplete(usage) ==
    LET counted == usage.measured + usage.recovered + usage.estimatedTime
    IN  (Resolved(usage) /\ ~GapStraddlesSeed /\ EveryCounterRead) =>
            /\ counted <= TrueUsage + 2 * Cardinality(Meters)
            /\ counted >= TrueUsage - Cardinality(Meters) - 2 * Cardinality(cleared)

\* An estimate is of the size of what the gap hid, although the rate of a
\* neighbour is wrong when its bucket began or ended with the gap, is still
\* open, or holds energy of the bucket before: at least one unit for a
\* bucket's time, and at most one more than the bucket is long.
EstimatesPlausible(usage) ==
    /\ usage.estimated >= 2 * usage.estimatedTime
    /\ usage.estimated <= 2 * (BucketSpan + 1) * usage.estimatedTime

\* Usage the live price takes as resolved is resolved for the overview too,
\* with the same amount, the same tier and no lower confidence, though each
\* sums and judges it by code of its own.  The overview alone confirms usage
\* only where an interval has no energy, which it takes as reliable time.
OverviewAgrees(usage, overview) ==
    seed <= ScopeEnd =>
        /\ Resolved(usage) =>
              /\ CurrentUsage(overview) = CurrentUsage(usage)
              /\ TierState(overview) = TierState(usage)
              /\ Confidence(usage) # "insufficient" => Confidence(overview) # "insufficient"
        /\ Resolved(overview) =>
              \/ Resolved(usage)
              \/ \E m \in Meters : \E i \in Intervals(m) : i.energy = Unmeasured

\* Usage shown as resolved is the usage, in the live price and in the overview.
UsageSound ==
    /\ UsageTypeOK
    /\ ScopeEnd > CycleStart =>
          LET usage == AccountCycleUsage
              overview == OverviewUsage
          IN  /\ ResolvedUsageIsComplete(usage)
              /\ EstimatesPlausible(usage) /\ EstimatesPlausible(overview)
              /\ OverviewAgrees(usage, overview)
==============================================================================
