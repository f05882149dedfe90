------------------------------- MODULE Tariff -------------------------------
(***************************************************************************)
(* Publishing checks a rate schedule (rate_workflow.py) and pricing         *)
(* evaluates it (cost_engine.py); the two are written separately and        *)
(* disagree in order: the check picks the most specific periods and then    *)
(* looks at their tiers, the engine picks the periods whose tier holds and  *)
(* then the most specific.  The first part of the module assembles a        *)
(* schedule and compares the two on every instant.  The second part is the  *)
(* pricing loop: an interval's energy is spread over its minutes, cut at    *)
(* the tier threshold and rounded once.                                     *)
(*                                                                          *)
(* A day has Slots minutes; a version covers the days FirstDay .. LastDay.  *)
(* Energy is in mWh, usage and thresholds in half mWh, so that a threshold  *)
(* between two mWh exists; Unbounded is an open tier end.  A schedule with  *)
(* an account allowance names only Tier 1 and Tier 2; their common bound    *)
(* comes from the account when an interval is priced.                       *)
(***************************************************************************)
EXTENDS Integers, Sequences, FiniteSets, FiniteSetsExt, SequencesExt

CONSTANTS
    Slots,          \* minutes of a day
    WeekendDays,    \* days that are a Saturday or a Sunday
    FirstDay, LastDay,
    PlanPeriods,    \* period rows a candidate may carry
    MaxPeriods,     \* bound on the rows of one candidate
    SeasonSets,     \* season definitions a candidate may carry
    Calendars,      \* holiday and event calendars, NoCalendar among them
    NoCalendar,
    Unbounded,      \* greater than every usage
    Usages,         \* cumulative usage before an instant, in half mWh
    Thresholds,     \* tier thresholds of the pricing loop, in half mWh
    MaxEnergy,      \* bound on an interval's energy, in mWh
    MaxMinutes      \* bound on the minutes an interval touches

VersionDays == FirstDay .. LastDay
Treatments == {"not_applicable", "same_as_weekend", "same_as_weekday",
               "explicit_holiday_schedule", "unresolved"}

\* _expanded_periods refuses a tier that ends where it starts or before;
\* positive_kwh_per_day and positive_source_allowance keep an allowance above 0.
ASSUME TariffAssumption ==
    /\ Slots \in Nat \ {0} /\ MaxPeriods \in Nat /\ MaxEnergy \in Nat
    /\ MaxMinutes \in Nat \ {0} /\ FirstDay \in Nat /\ LastDay \in Nat
    /\ \A p \in PlanPeriods : p.low \in Nat /\ p.high \in Nat /\ p.low < p.high
    /\ \A ss \in SeasonSets : IsFiniteSet(ss)
    /\ NoCalendar \in Calendars
    /\ \A c \in Calendars \ {NoCalendar} : c.from \in Nat /\ c.to \in Nat
    /\ Unbounded \in Nat /\ Thresholds \subseteq Nat \ {0}
    /\ Usages \subseteq Nat /\ \A u \in Usages : u < Unbounded

VARIABLES
    draft,      \* the candidate being assembled
    quote     \* the interval being priced

tariffVars == <<draft, quote>>

------------------------------------------------------------------------------
(* Canonical periods, seasons and calendars *)

\* _expanded_periods: a window past midnight becomes two, weekend_holiday two
\* day types, all_days the type "all".
Windows(p) ==
    IF p.start < p.end THEN {<<p.start, p.end>>} ELSE {<<p.start, Slots>>, <<0, p.end>>}
DayTypes(p) ==
    CASE p.day = "weekend_holiday" -> {"weekend", "holiday"}
      [] p.day = "all_days" -> {"all"}
      [] OTHER -> {p.day}
Expanded(rows) ==
    UNION {{[row |-> p, season |-> p.season, day |-> d, start |-> w[1], end |-> w[2],
             low |-> p.low, high |-> p.high, inclusive |-> p.inclusive] :
               d \in DayTypes(p), w \in Windows(p)} : p \in rows}

\* A season runs from its first to its last day, over the end of the year too.
InSeason(s, day) ==
    IF s.first <= s.last THEN s.first <= day /\ day <= s.last
    ELSE day >= s.first \/ day <= s.last
SeasonsAt(seasons, day) == {s.name : s \in {t \in seasons : InSeason(t, day)}}

DaySensitive(ps) == \E p \in ps : p.day \in {"weekday", "weekend", "holiday"}
EventAware(ps) == \E p \in ps : p.day \in {"event_day", "non_event_day"}

\* _canonical_holiday_treatment: unresolved is an error for a schedule that
\* tells days apart and of no consequence for one that does not.
CanonicalTreatment(t) == IF t = "unresolved" THEN "not_applicable" ELSE t
NeedsHolidays(t, ps) ==
    /\ t \in {"same_as_weekend", "same_as_weekday", "explicit_holiday_schedule"}
    /\ DaySensitive(ps)

\* A calendar must be there when the schedule needs it, hold only dates of the
\* range it covers, and cover every local day of the version.
CalendarAccepted(calendar, needed) ==
    IF calendar = NoCalendar THEN ~needed
    ELSE /\ calendar.from <= FirstDay /\ LastDay <= calendar.to
         /\ calendar.dates \subseteq calendar.from .. calendar.to

------------------------------------------------------------------------------
(* Publication: _validate_period_coverage *)

\* An account allowance replaces the bounds of a draft's tiers.
Effective(p, account, threshold) ==
    IF ~account THEN p
    ELSE [p EXCEPT !.low = IF @ > 0 THEN threshold ELSE 0,
                   !.high = IF @ # Unbounded THEN threshold ELSE Unbounded]

Specificity(p, season, priority) ==
    10 * (IF p.season = season THEN 1 ELSE 0) + Len(priority)
       - CHOOSE i \in DOMAIN priority : priority[i] = p.day
MostSpecific(ps, season, priority) ==
    {p \in ps : \A q \in ps :
        Specificity(q, season, priority) <= Specificity(p, season, priority)}
Eligible(ps, season, priority) ==
    {p \in ps : p.season \in {season, "all"} /\ \E i \in DOMAIN priority : priority[i] = p.day}

\* _validate_tier_axis: between any two bounds, and beyond the last, exactly
\* one tier holds; the last is open.
TierHolds(p, usage) == p.low <= usage /\ usage < p.high
TierAxisValid(ps) ==
    LET bounds == {0} \cup {p.low : p \in ps} \cup ({p.high : p \in ps} \ {Unbounded})
    IN  /\ ps # {}
        /\ \A b \in bounds : Cardinality({p \in ps : TierHolds(p, b)}) = 1
        /\ \E p \in ps : TierHolds(p, Max(bounds)) /\ p.high = Unbounded

OneDayValid(ps, season, priority) ==
    \A minute \in 0 .. Slots - 1 :
        LET now == {p \in Eligible(ps, season, priority) :
                       p.start <= minute /\ minute < p.end}
        IN  TierAxisValid(MostSpecific(now, season, priority))

CoverageValid(ps, seasons, treatment) ==
    LET regular == {"weekday", "weekend"} \cup
                   (IF treatment = "explicit_holiday_schedule" THEN {"holiday"} ELSE {})
    IN  \A s \in {t.name : t \in seasons}, day \in regular :
            IF EventAware(ps)
            THEN \A e \in {"event_day", "non_event_day"} :
                    OneDayValid(ps, s, <<e, day, "all">>)
            ELSE OneDayValid(ps, s, <<day, "all">>)

\* Everything publish_rate_candidate asks of the schedule.
Publishes(d) ==
    LET ps == Expanded(d.rows)
        treatment == CanonicalTreatment(d.treatment)
    IN  /\ d.rows # {}
        /\ \A day \in VersionDays : Cardinality(SeasonsAt(d.seasons, day)) = 1
        /\ ~(d.treatment = "unresolved" /\ DaySensitive(ps))
        /\ CalendarAccepted(d.holidays, NeedsHolidays(treatment, ps))
        /\ CalendarAccepted(d.events, EventAware(ps))
        /\ CoverageValid(ps, d.seasons, treatment)

------------------------------------------------------------------------------
(* Pricing: _period_for *)

\* A calendar that is missing or does not cover the day is an error.
Covers(calendar, day) ==
    calendar # NoCalendar /\ calendar.from <= day /\ day <= calendar.to

BaseDayType(d, ps, day) ==
    LET ordinary == IF day \in WeekendDays THEN "weekend" ELSE "weekday"
        treatment == CanonicalTreatment(d.treatment)
    IN  CASE ~NeedsHolidays(treatment, ps) -> ordinary
          [] NeedsHolidays(treatment, ps) /\ ~Covers(d.holidays, day) -> "error"
          [] OTHER -> IF day \notin d.holidays.dates THEN ordinary
                      ELSE CASE treatment = "same_as_weekend" -> "weekend"
                             [] treatment = "same_as_weekday" -> "weekday"
                             [] OTHER -> "holiday"

DayTypePriority(d, ps, day) ==
    LET base == BaseDayType(d, ps, day) IN
    IF ~EventAware(ps) THEN <<base, "all">>
    ELSE IF ~Covers(d.events, day) THEN <<"error">>
    ELSE <<IF day \in d.events.dates THEN "event_day" ELSE "non_event_day", base, "all">>

UpperHolds(p, usage) == usage < p.high \/ (usage = p.high /\ p.inclusive)

\* Mutant: a boundary belongs to both tiers.
KeepBoth(ps, usage, incremental) == ps

\* At a tier boundary that belongs to both, the lower tier holds what was used
\* and the upper tier what is used next.
AtBoundary(ps, usage, incremental) ==
    IF Cardinality(ps) # 2 THEN ps
    ELSE LET lower == CHOOSE p \in ps : \A q \in ps : p.low <= q.low
             upper == CHOOSE p \in ps : p # lower
         IN  IF lower.high = usage /\ usage = upper.low /\ lower.inclusive
             THEN {IF incremental THEN upper ELSE lower} ELSE ps

PeriodsFor(d, day, minute, usage, incremental, threshold, startSeason) ==
    LET ps == Expanded(d.rows)
        seasons == SeasonsAt(d.seasons, day)
        season == CHOOSE s \in seasons : TRUE
        priority == DayTypePriority(d, ps, day)
        now == {Effective(p, d.account, threshold) :
                   p \in {q \in Eligible(ps, season, priority) :
                             q.start <= minute /\ minute < q.end}}
        holding == {p \in now : p.low <= usage /\ UpperHolds(p, usage)}
    IN  IF \/ Cardinality(seasons) # 1
           \/ \E i \in DOMAIN priority : priority[i] = "error"
           \/ d.account /\ \E p \in now : p.season \notin {startSeason, "all"}
        THEN {}
        ELSE AtBoundary(MostSpecific(holding, season, priority), usage, incremental)

------------------------------------------------------------------------------
(* Pricing: price_sensor_interval *)

Total(s) == FoldSeq(LAMBDA x, y : x + y, 0, s)

\* _allocate_integer_energy: by duration, rounded down; the last takes the rest.
AllocateEnergy(mwh, ds) ==
    LET floors == [i \in 1 .. Len(ds) |-> (mwh * ds[i]) \div Total(ds)] IN
    [floors EXCEPT ![Len(ds)] = mwh - Total(floors) + @]

\* Raw costs are in quarters of a microdollar.
HalfEven(q) ==
    LET r == q % 4 IN
    (q \div 4) + (IF r = 3 \/ (r = 2 /\ (q \div 4) % 2 = 1) THEN 1 ELSE 0)

\* Mutant: every slice is rounded by itself.
RoundEach(values) == [i \in DOMAIN values |-> HalfEven(values[i])]

\* _allocate_microdollars: the sum is rounded once, and what the floors leave
\* goes to the largest remainders, the earlier of two equal ones first.
AllocateMicrodollars(values) ==
    LET floors == [i \in DOMAIN values |-> values[i] \div 4]
        left == HalfEven(Total(values)) - Total(floors)
        Before(j, i) == \/ values[j] % 4 > values[i] % 4
                        \/ values[j] % 4 = values[i] % 4 /\ j < i
    IN  [i \in DOMAIN values |->
            floors[i] + IF Cardinality({j \in DOMAIN values : Before(j, i)}) < left
                        THEN 1 ELSE 0]

TierPrice(p) == IF p.low = 0 THEN 3 ELSE 5     \* quarter microdollars per mWh

\* The schedule of the pricing loop: two account tiers, one price each all day.
TwoTiers(inclusive) ==
    LET tier(low, high) == [season |-> "all", day |-> "all_days", start |-> 0, end |-> Slots,
                            low |-> low, high |-> high, inclusive |-> inclusive]
    IN  [rows |-> {tier(0, 1), tier(1, Unbounded)}, account |-> TRUE,
         treatment |-> "not_applicable", holidays |-> NoCalendar, events |-> NoCalendar,
         seasons |-> {[name |-> "year", first |-> FirstDay, last |-> LastDay]}]

NoDraft   == [rows |-> {}, account |-> FALSE, treatment |-> "not_applicable",
              seasons |-> {}, holidays |-> NoCalendar, events |-> NoCalendar]
NoPricing == [phase |-> "idle", energy |-> 0, before |-> 0, threshold |-> 1,
              inclusive |-> TRUE, baseline |-> 0, buckets |-> <<>>, index |-> 1,
              remaining |-> 0, used |-> 0, credit |-> 0, slices |-> <<>>, costs |-> <<>>]

TariffInit ==
    /\ draft = NoDraft
    /\ quote = NoPricing

\* A reviewer's plan gets its evidence and then its periods, one by one.
StartDraft(account, treatment, seasons, holidays, events) ==
    /\ draft = NoDraft /\ quote = NoPricing
    /\ draft' = [rows |-> {}, account |-> account, treatment |-> treatment,
                 seasons |-> seasons, holidays |-> holidays, events |-> events]
    /\ UNCHANGED quote

AddPeriod(p) ==
    /\ draft.seasons # {} /\ p \notin draft.rows
    /\ Cardinality(draft.rows) < MaxPeriods
    /\ p.season \in {"all"} \cup {s.name : s \in draft.seasons}
    /\ draft.account => p.low = 0 <=> p.high # Unbounded
    /\ draft' = [draft EXCEPT !.rows = @ \cup {p}]
    /\ UNCHANGED quote

\* An interval of energy e, over minutes of the durations ds, with usage already
\* counted in its cycle.
StartPricing(e, ds, before, threshold, inclusive, baseline) ==
    /\ draft = NoDraft /\ quote.phase = "idle"
    /\ LET buckets == AllocateEnergy(e, ds) IN
       quote' = [NoPricing EXCEPT !.phase = "pricing", !.energy = e, !.before = before,
                      !.threshold = threshold, !.inclusive = inclusive,
                      !.baseline = baseline, !.credit = baseline, !.buckets = buckets,
                      !.remaining = buckets[1], !.used = before]
    /\ UNCHANGED draft

InBucket ==
    \/ quote.remaining > 0
    \/ quote.buckets[quote.index] = 0 /\ quote.slices = <<>>

SegmentPeriods ==
    PeriodsFor(TwoTiers(quote.inclusive), FirstDay, 0, quote.used,
               quote.remaining > 0, quote.threshold, "year")
\* What is left of the period's tier, in whole mWh.
TierCapacity(p) == (p.high - quote.used) \div 2

PriceSegment ==
    /\ quote.phase = "pricing" /\ quote.index <= Len(quote.buckets) /\ InBucket
    /\ Cardinality(SegmentPeriods) = 1
    /\ \E p \in SegmentPeriods :
          LET mwh == IF p.high = Unbounded THEN quote.remaining
                     ELSE Min({quote.remaining, TierCapacity(p)})
              credited == Min({mwh, quote.credit})
          IN  /\ p.high # Unbounded => TierCapacity(p) > 0
              /\ quote' = [quote EXCEPT
                    !.slices = Append(@, [mwh |-> mwh, tier |-> IF p.low = 0 THEN 1 ELSE 2,
                                          raw |-> mwh * TierPrice(p), credited |-> credited]),
                    !.remaining = @ - mwh, !.used = @ + 2 * mwh, !.credit = @ - credited]
    /\ UNCHANGED draft

\* "tier schedule does not advance at its threshold", or no single period.
PricingFails ==
    /\ quote.phase = "pricing" /\ quote.index <= Len(quote.buckets) /\ InBucket
    /\ \/ Cardinality(SegmentPeriods) # 1
       \/ \E p \in SegmentPeriods : p.high # Unbounded /\ TierCapacity(p) <= 0
    /\ quote' = [quote EXCEPT !.phase = "failed"]
    /\ UNCHANGED draft

NextBucket ==
    /\ quote.phase = "pricing" /\ quote.index <= Len(quote.buckets) /\ ~InBucket
    /\ quote' = [quote EXCEPT !.index = @ + 1,
                      !.remaining = IF quote.index < Len(quote.buckets)
                                    THEN quote.buckets[quote.index + 1] ELSE 0]
    /\ UNCHANGED draft

RoundCosts ==
    /\ quote.phase = "pricing" /\ quote.index > Len(quote.buckets)
    /\ quote' = [quote EXCEPT !.phase = "priced",
                      !.costs = AllocateMicrodollars(
                                   [i \in DOMAIN quote.slices |-> quote.slices[i].raw])]
    /\ UNCHANGED draft

Durations == UNION {[1 .. n -> 1 .. 2] : n \in 1 .. MaxMinutes}

TariffNext ==
    \/ \E account \in BOOLEAN, t \in Treatments, ss \in SeasonSets,
          h \in Calendars, e \in Calendars : StartDraft(account, t, ss, h, e)
    \/ \E p \in PlanPeriods : AddPeriod(p)
    \/ \E e \in 0 .. MaxEnergy, ds \in Durations, before \in Usages, th \in Thresholds,
          inclusive \in BOOLEAN, baseline \in {0, 2} :
             StartPricing(e, ds, before, th, inclusive, baseline)
    \/ PriceSegment
    \/ PricingFails
    \/ NextBucket
    \/ RoundCosts

TariffSpec == TariffInit /\ [][TariffNext]_tariffVars

------------------------------------------------------------------------------
(* Properties *)

TariffTypeOK ==
    /\ draft.rows \subseteq PlanPeriods /\ draft.treatment \in Treatments
    /\ draft.holidays \in Calendars /\ draft.events \in Calendars
    /\ quote.phase \in {"idle", "pricing", "priced", "failed"}
    /\ quote.remaining \in 0 .. MaxEnergy
    /\ quote.credit \in 0 .. quote.baseline
    /\ Total(quote.buckets) = quote.energy

\* A schedule that can be published prices every instant of its version, at
\* every usage and account allowance, with exactly one period: also on the
\* first and last day, on holidays and event days, and exactly on a tier bound.
\* An account allowance is that of the interval's first season, so an interval
\* that runs into another season is left out.
PublishedScheduleResolves ==
    draft.rows # {} /\ Publishes(draft) =>
        \A day \in VersionDays, minute \in 0 .. Slots - 1, usage \in Usages,
           incremental \in BOOLEAN, threshold \in Thresholds :
              \E s \in SeasonsAt(draft.seasons, day) :
                 Cardinality(PeriodsFor(draft, day, minute, usage, incremental,
                                        threshold, s)) = 1

\* The loop over minutes and tiers splits an interval as the bill does: all its
\* energy is in the slices, Tier 1 holds what the allowance had left, and the
\* baseline credit is used up before it is exceeded.
SplitAtAllowance ==
    LET p == quote
        Slices(tier) == SelectSeq(p.slices, LAMBDA x : x.tier = tier)
        Energy(s) == Total([i \in DOMAIN s |-> s[i].mwh])
        left == IF p.threshold > p.before THEN (p.threshold - p.before) \div 2 ELSE 0
    IN  p.phase = "priced" =>
            /\ Energy(p.slices) = p.energy
            /\ Energy(Slices(1)) = Min({p.energy, left})
            /\ Total([i \in DOMAIN p.slices |-> p.slices[i].credited])
                  = Min({p.energy, p.baseline})

\* An interval stays unpriced exactly when the allowance ends inside the mWh the
\* interval uses, or its first minute has no energy and starts less than one mWh
\* below the allowance or exactly on it: no other input stops the loop.
UnpricedOnlyAtAllowance ==
    LET p == quote
        gap == p.threshold - p.before
        inside == gap > 0 /\ gap % 2 = 1 /\ 2 * p.energy > gap
        onBound == p.buckets[1] = 0 /\ (gap = 1 \/ (gap = 0 /\ p.inclusive))
    IN  /\ p.phase = "failed" => inside \/ onBound
        /\ p.phase = "priced" => ~(inside \/ onBound)

\* The slices of an interval add up to its cost rounded once, and no slice is a
\* whole microdollar away from its own cost.
RoundedOnce ==
    LET raw == [i \in DOMAIN quote.slices |-> quote.slices[i].raw]
    IN  quote.phase = "priced" =>
            /\ Total(quote.costs) = HalfEven(Total(raw))
            /\ \A i \in DOMAIN raw :
                  quote.costs[i] \in {raw[i] \div 4, (raw[i] \div 4) + 1}

\* The price of an interval: split where the bill splits it, rounded once, and
\* refused only where the allowance ends inside a mWh.
IntervalPricedExactly ==
    /\ TariffTypeOK
    /\ SplitAtAllowance
    /\ UnpricedOnlyAtAllowance
    /\ RoundedOnce
=============================================================================
