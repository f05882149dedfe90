------------------------- MODULE StatelessTelemetry -------------------------
(***************************************************************************)
(* Stateless sensors (services/stateless_telemetry.py) send their latest    *)
(* value and forget it.  The server orders samples by their effective time, *)
(* the sensor's clock when it is trusted and the time of receipt otherwise, *)
(* turns the counter of the meter into energy of History buckets, and       *)
(* records what a connection gap hid.  The worker finalizes, prices and     *)
(* after a while deletes the buckets.                                       *)
(*                                                                          *)
(* Time is in telemetry intervals and a meter counts one unit in each, so   *)
(* that a counter is the time since the meter was reset.  The network       *)
(* delays, repeats, reorders and loses requests.                            *)
(***************************************************************************)
EXTENDS Integers, FiniteSets, FiniteSetsExt

CONSTANTS
    Sensors,        \* members of the account's aggregate
    MaxTime,        \* bound on time
    BucketLength,   \* telemetry intervals of one History bucket
    CycleChange,    \* the time a new billing cycle starts
    MaxSkew,        \* MAX_SENSOR_TIME_SKEW_SECONDS
    Retention,      \* HomeTelemetrySetting.retention_days
    MaxInAir,       \* bound on the age of a request under way
    MaxFaults       \* bound on a sensor's resets and faulty samples

ASSUME TelemetryAssumption ==
    /\ MaxTime \in Nat /\ BucketLength \in Nat \ {0} /\ MaxSkew \in Nat
    /\ Retention \in Nat /\ MaxInAir \in Nat /\ MaxFaults \in Nat

VARIABLES
    now,
    meter,      \* per sensor: when its counter was reset, and its faults
    air,        \* samples under way
    accepted,   \* per sensor: stateless_telemetry_samples
    latest,     \* per sensor: device_telemetry_states.latest_sample_id
    bucket,     \* per sensor and place: the History bucket
    event,      \* per sensor: telemetry_energy_events
    price,      \* per sensor and place: the energy of the selected cost
    costed,     \* buckets with a row in interval_costs
    worker,     \* the worker's open transaction
    overtaken   \* history: a bucket changed while a transaction had priced it

telemetryVars == <<now, meter, air, accepted, latest, bucket, event, price, costed, worker,
                   overtaken>>

Places    == 0 .. MaxTime \div BucketLength
NoEnergy  == -1
Unselected == -2
NoSample  == [at |-> -1, effective |-> -1, ok |-> FALSE, total |-> 0, late |-> FALSE,
              hidden |-> FALSE]
NoBucket  == [there |-> FALSE, energy |-> NoEnergy, received |-> 0, gap |-> FALSE, final |-> FALSE]
IdleWorker      == [open |-> FALSE, finals |-> {}, prices |-> {}, expired |-> {}]

PlaceOf(t) == t \div BucketLength
Cycle(t)   == IF t < CycleChange THEN 0 ELSE 1
CycleStartAt(t) == IF t < CycleChange THEN 0 ELSE CycleChange

TelemetryInit ==
    /\ now = 0
    /\ meter = [d \in Sensors |-> [zero |-> 0, faults |-> 0]]
    /\ air = {}
    /\ accepted = [d \in Sensors |-> {}]
    /\ latest = [d \in Sensors |-> NoSample]
    /\ bucket = [d \in Sensors |-> [b \in Places |-> NoBucket]]
    /\ event = [d \in Sensors |-> {}]
    /\ price = [d \in Sensors |-> [b \in Places |-> Unselected]]
    /\ costed = {}
    /\ worker = IdleWorker
    /\ overtaken = FALSE

------------------------------------------------------------------------------
(* The sensor and the network *)

\* A telemetry interval passes and every sensor takes a sample: with a valid
\* counter and a trusted clock, or without one of them.  A sensor that takes
\* none, and a sample that is lost, is a sample no request brings.
SampleOf(d, kind) ==
    [sensor |-> d, at |-> now + 1, ok |-> kind # "invalid", trusted |-> kind # "untrusted",
     total |-> now + 1 - meter[d].zero]

Measure(kind) ==
    /\ now < MaxTime
    /\ \A d \in Sensors : kind[d] = "good" \/ meter[d].faults < MaxFaults
    /\ now' = now + 1
    /\ meter' = [d \in Sensors |->
                    IF kind[d] = "good" THEN meter[d] ELSE [meter[d] EXCEPT !.faults = @ + 1]]
    /\ air' = {m \in air : m.at > now + 1 - MaxInAir} \cup {SampleOf(d, kind[d]) : d \in Sensors}
    /\ UNCHANGED <<accepted, latest, bucket, event, price, costed, worker, overtaken>>

MeterResets(d) ==
    /\ meter[d].faults < MaxFaults /\ now > 0
    /\ meter' = [meter EXCEPT ![d] = [zero |-> now, faults |-> @.faults + 1]]
    /\ UNCHANGED <<now, air, accepted, latest, bucket, event, price, costed, worker, overtaken>>

------------------------------------------------------------------------------
(* ingest_stateless_sample *)

EffectiveTime(m) == IF m.trusted /\ now - m.at <= MaxSkew THEN m.at ELSE now

\* Mutant: the order of samples is not looked at.
NeverOutOfOrder(d, t) == FALSE

OutOfOrder(d, t) == latest[d] # NoSample /\ t < latest[d].effective

\* Mutant: the newest sample is the baseline, with a counter or without.
DeliveredBaseline(d, t) == IF latest[d].ok THEN latest[d] ELSE NoSample

\* The valid sample before t, or NoSample.
EnergyBaseline(d, t) ==
    LET before == {s \in accepted[d] : s.ok /\ s.effective < t} IN
    IF before = {} THEN NoSample
    ELSE CHOOSE s \in before : \A u \in before : u.effective <= s.effective

ConnectionGap(d, m, t, prior) ==
    \/ t - latest[d].effective > 2
    \/ m.ok /\ prior # NoSample /\ t - prior.effective > 2

\* _record_energy_evidence: the bucket's energy, whether there was a gap, and
\* the event, if any.
NoEvidence == [energy |-> NoEnergy, gap |-> FALSE, events |-> {}]
Evidence(d, m, t) ==
    LET prior == EnergyBaseline(d, t)
        known == prior # NoSample /\ m.ok
        gap   == ConnectionGap(d, m, t, prior)
        from  == IF prior # NoSample THEN prior.effective ELSE latest[d].effective
        delta == m.total - prior.total
        recovered == known /\ Cycle(from) = Cycle(t)
    IN  CASE latest[d] = NoSample \/ OutOfOrder(d, t) -> NoEvidence
          [] latest[d] # NoSample /\ ~OutOfOrder(d, t) /\ known /\ delta < 0 ->
                [energy |-> NoEnergy, gap |-> gap,
                 events |-> {[type |-> "reset", from |-> from, to |-> t, energy |-> 0]}]
          [] OTHER ->
                IF ~gap THEN [NoEvidence EXCEPT !.energy = IF known THEN delta ELSE NoEnergy]
                ELSE IF ~m.ok THEN [NoEvidence EXCEPT !.gap = TRUE]
                ELSE [energy |-> NoEnergy, gap |-> TRUE,
                      events |-> {[type |-> IF recovered THEN "recovered" ELSE "unresolved",
                                   from |-> from + 1, to |-> t,
                                   energy |-> IF known THEN delta ELSE 0]}]

AddEnergy(old, new) ==
    IF new = NoEnergy THEN old ELSE IF old = NoEnergy THEN new ELSE old + new

\* _finalize_prior_buckets and _upsert_history_bucket.
Finalized(bs, b) == [c \in Places |-> IF c < b /\ bs[c].there
                                      THEN [bs[c] EXCEPT !.final = TRUE] ELSE bs[c]]
Filled(old, m, e) ==
    [there |-> TRUE, energy |-> AddEnergy(old.energy, e.energy),
     received |-> Min({BucketLength, old.received + (IF m.ok THEN 1 ELSE 0)}),
     gap |-> old.gap \/ e.gap, final |-> old.final]
Upserted(bs, b, m, e) == [Finalized(bs, b) EXCEPT ![b] = Filled(@, m, e)]

\* _invalidate_mutable_cost_selections.
PriceWithdrawn(d, b) ==
    IF bucket[d][b].final THEN [price[d] EXCEPT ![b] = Unselected] ELSE price[d]

\* Requests of one sensor never take effect at one instant; a bucket row the
\* worker changed in its open transaction is locked.
Accept(m) ==
    LET d == m.sensor
        t == EffectiveTime(m)
        b == PlaceOf(t)
        e == Evidence(d, m, t)
        s == [at |-> m.at, effective |-> t, ok |-> m.ok, total |-> m.total,
              late |-> OutOfOrder(d, t),
              hidden |-> OutOfOrder(d, t) /\ m.ok /\ ~latest[d].ok]
    IN  /\ m \in air
        /\ \A u \in accepted[d] : u.at # m.at /\ u.effective # t
        /\ \A c \in Places : c <= b => <<d, c>> \notin worker.finals
        /\ accepted' = [accepted EXCEPT ![d] = @ \cup {s}]
        /\ latest' = IF OutOfOrder(d, t) THEN latest ELSE [latest EXCEPT ![d] = s]
        /\ event' = [event EXCEPT ![d] = @ \cup e.events]
        /\ bucket' = [bucket EXCEPT ![d] = Upserted(@, b, m, e)]
        /\ price' = [price EXCEPT ![d] = PriceWithdrawn(d, b)]
        /\ overtaken' = (overtaken \/ \E n \in 0 .. MaxTime : <<d, b, n>> \in worker.prices)
        /\ UNCHANGED <<now, meter, air, costed, worker>>

------------------------------------------------------------------------------
(* The worker: finalize_stateless_history, calculate_pending_costs and        *)
(* apply_stateless_history_retention in one transaction                       *)

Due(d, b) == bucket[d][b].there /\ ~bucket[d][b].final /\ (b + 1) * BucketLength <= now

\* _cost_context gives no context while a gap before the interval is unresolved.
Blocked(d, b) ==
    \E e \in event[d] : /\ e.type = "unresolved"
                        /\ e.to > CycleStartAt(b * BucketLength)
                        /\ e.from < b * BucketLength

\* The members are priced together, all of them or none, and never mixed with a
\* selection of an earlier run.  A bucket that was final before the cycle leads
\* them: the session does not flush by itself, so that a query sees what this
\* cycle finalized only after a group before was priced.
Priceable(b, flushed) ==
    /\ \E d \in Sensors : bucket[d][b].final
    /\ \A d \in Sensors : /\ bucket[d][b].final \/ (flushed /\ Due(d, b))
                          /\ bucket[d][b].energy # NoEnergy
                          /\ price[d][b] = Unselected
                          /\ ~Blocked(d, b)

Expired(d, b, priced) ==
    /\ bucket[d][b].there /\ (bucket[d][b].final \/ Due(d, b))
    /\ (b + 1) * BucketLength < now - Retention
    /\ price[d][b] = Unselected /\ b \notin priced

\* What the transaction holds after its jobs.
Scanned(priced) ==
    [open |-> TRUE,
     finals  |-> {x \in Sensors \X Places : Due(x[1], x[2])},
     prices  |-> {<<d, b, bucket[d][b].energy>> : d \in Sensors, b \in priced},
     expired |-> {x \in Sensors \X Places : Expired(x[1], x[2], priced)}]

\* The scan starts where the last one ended: which groups come after one that
\* was priced is open.
WorkerScans ==
    /\ ~worker.open
    /\ LET whole == {b \in Places : Priceable(b, FALSE)} IN
       \E joined \in SUBSET {b \in Places \ whole : Priceable(b, TRUE)} :
          /\ whole = {} => joined = {}
          /\ worker' = Scanned(whole \cup joined)
    /\ UNCHANGED <<now, meter, air, accepted, latest, bucket, event, price, costed, overtaken>>

\* interval_costs refer to their interval with ON DELETE RESTRICT.
DeletionRefused == \E x \in worker.expired : x \in costed

WorkerCommits ==
    /\ worker.open /\ ~DeletionRefused
    /\ bucket' = [d \in Sensors |-> [b \in Places |->
                     CASE <<d, b>> \in worker.expired -> NoBucket
                       [] <<d, b>> \in worker.finals \ worker.expired ->
                             [bucket[d][b] EXCEPT !.final = TRUE]
                       [] OTHER -> bucket[d][b]]]
    /\ price' = [d \in Sensors |-> [b \in Places |->
                    IF \E e \in 0 .. MaxTime : <<d, b, e>> \in worker.prices
                    THEN CHOOSE e \in 0 .. MaxTime : <<d, b, e>> \in worker.prices
                    ELSE price[d][b]]]
    /\ costed' = costed \cup {<<x[1], x[2]>> : x \in worker.prices}
    /\ worker' = IdleWorker
    /\ UNCHANGED <<now, meter, air, accepted, latest, event, overtaken>>

\* A job of the cycle fails or the worker is killed: everything is rolled back.
WorkerRollsBack ==
    /\ worker.open
    /\ worker' = IdleWorker
    /\ UNCHANGED <<now, meter, air, accepted, latest, bucket, event, price, costed, overtaken>>

TelemetryNext ==
    \/ \E kind \in [Sensors -> {"good", "invalid", "untrusted"}] : Measure(kind)
    \/ \E d \in Sensors : MeterResets(d)
    \/ \E m \in air : Accept(m)
    \/ WorkerScans
    \/ WorkerCommits
    \/ WorkerRollsBack

TelemetrySpec == TelemetryInit /\ [][TelemetryNext]_telemetryVars

------------------------------------------------------------------------------
(* Properties *)

TelemetryTypeOK ==
    /\ now \in 0 .. MaxTime
    /\ \A d \in Sensors, b \in Places :
          /\ bucket[d][b].energy \in NoEnergy .. MaxTime
          /\ bucket[d][b].received \in 0 .. BucketLength
          /\ price[d][b] \in {Unselected} \cup 0 .. MaxTime
    /\ worker.finals \subseteq Sensors \X Places
    /\ costed \subseteq Sensors \X Places

ValidSamples(d) == {s \in accepted[d] : s.ok}
Consumed(S) == IF S = {} THEN 0 ELSE Max({s.at : s \in S}) - Min({s.at : s \in S})
SumOf(S, f(_)) == MapThenFoldSet(LAMBDA x, y : x + y, 0, f, LAMBDA T : CHOOSE x \in T : TRUE, S)
Counted(d) ==
    SumOf({b \in Places : bucket[d][b].energy # NoEnergy}, LAMBDA b : bucket[d][b].energy)
    + SumOf({e \in event[d] : e.type = "recovered"}, LAMBDA e : e.energy)
UnresolvedEnergy(d) == SumOf({e \in event[d] : e.type = "unresolved"}, LAMBDA e : e.energy)
Misdated(d) == \E s, u \in accepted[d] : s.at < u.at /\ s.effective > u.effective

\* Samples that are late, repeated or lost, that carry no counter, and a meter
\* that is reset never make the server count energy twice: buckets and recovered
\* gaps hold at most what was consumed between the samples.  The exception is a
\* sample dated by its receipt after a newer one.
EnergyNeverCountedTwice ==
    \A d \in Sensors : Misdated(d) \/ Counted(d) <= Consumed(ValidSamples(d))

\* Nor is energy lost unseen: without a reset, what is not in a bucket or a
\* recovered gap is in an unresolved one.  A late counter that is accepted while
\* the newest sample carries none moves the baseline and is the exception.
EnergyNeverLostUnseen ==
    \A d \in Sensors :
        \/ Misdated(d) \/ meter[d].zero # 0
        \/ \E s \in accepted[d] : s.hidden
        \/ \E s \in accepted[d] : ~bucket[d][PlaceOf(s.effective)].there
        \/ Counted(d) + UnresolvedEnergy(d) = Consumed({s \in ValidSamples(d) : ~s.late})

\* Live state never moves back in time, whatever order samples arrive in.
LiveStateNeverRegresses ==
    [][\A d \in Sensors : latest[d].effective <= latest'[d].effective]_telemetryVars

\* A selected price is for all the energy its bucket has: energy that arrives
\* after the bucket was priced withdraws the price, except when it arrives
\* while the transaction that prices the bucket is open.
PriceStaleOnlyWhenOvertaken ==
    \/ overtaken
    \/ \A d \in Sensors, b \in Places :
          price[d][b] # Unselected => price[d][b] = bucket[d][b].energy

\* "Delete expired derived History buckets while preserving immutable raw
\* samples/costs": retention never asks for the deletion of a bucket that has
\* cost evidence, which the database refuses together with the whole cycle.
RetentionSparesCosts == worker.expired \cap costed = {}

\* Every watt-hour between the samples a sensor delivered is in one place, and
\* a bucket's price is for the energy the bucket has.
EnergyAccountedOnce ==
    /\ TelemetryTypeOK
    /\ EnergyNeverCountedTwice
    /\ EnergyNeverLostUnseen
    /\ PriceStaleOnlyWhenOvertaken
=============================================================================
