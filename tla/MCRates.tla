-------------------------------- MODULE MCRates --------------------------------
(* Rates: the utility's catalog is crawled, a candidate is reviewed,          *)
(* published and assigned, a schedule is validated and used to price an       *)
(* interval.  Each behaviour runs the part `focus' names.                     *)
EXTENDS RateWorkflow, CatalogCrawl, Tariff, TLC

CONSTANTS domestic, summary, entry, bill, h1, h2, none

VARIABLE focus

--------------------------------------------------------------------------------
(* Rate workflow *)

\* A reviewer attests an allowance for a season or for all of them, a bill
\* prints that of its season.
YearAllowance == [season |-> "all", kwh |-> 10]
SummerAllowance == [season |-> "summer", kwh |-> 11]
MCRules == {YearAllowance, SummerAllowance}
BillAllowance == [season |-> "summer", kwh |-> 12]
\* A public summary page, publishable only with the account's allowance, and an
\* entry made by hand, which is complete.
MCEvidence ==
    [c \in {summary, entry} |->
        [plan |-> domestic, exact |-> TRUE, scopeVerified |-> TRUE, tiered |-> c = summary,
         coverage |-> IF c = summary THEN "semantic_tier_coverage" ELSE "complete",
         rule |-> NoRule]]
MCDocuments == [d \in {bill} |-> [plan |-> domestic, rates |-> "r1", rule |-> BillAllowance]]
MCOffered == {[start |-> 0, end |-> NoEnd], [start |-> 1, end |-> 2]}
\* One reading inside a day and one across the first boundary.
MCIntervals == {[start |-> 1, end |-> 2], [start |-> 0, end |-> 2]}

--------------------------------------------------------------------------------
(* Tariff: three days, the second of a weekend, the third perhaps a holiday   *)
(* or an event day.                                                           *)

PeriodRow(season, day, start, end, low, high, inclusive) ==
    [season |-> season, day |-> day, start |-> start, end |-> end,
     low |-> low, high |-> high, inclusive |-> inclusive]

MCPeriods ==
    {PeriodRow("all", "all_days", 0, 3, 0, 99, TRUE), PeriodRow("all", "all_days", 0, 3, 0, 4, TRUE),
     PeriodRow("all", "all_days", 0, 3, 0, 4, FALSE), PeriodRow("all", "all_days", 0, 3, 4, 99, TRUE),
     PeriodRow("all", "weekday", 2, 1, 0, 99, TRUE), PeriodRow("all", "weekday", 1, 2, 0, 99, TRUE),
     PeriodRow("all", "weekend_holiday", 0, 3, 0, 99, TRUE),
     PeriodRow("summer", "all_days", 0, 3, 0, 99, TRUE),
     PeriodRow("winter", "all_days", 0, 3, 0, 4, TRUE),
     PeriodRow("winter", "all_days", 0, 3, 4, 99, TRUE),
     PeriodRow("all", "event_day", 0, 3, 0, 99, TRUE),
     PeriodRow("all", "holiday", 1, 2, 0, 99, TRUE)}

Season(name, first, last) == [name |-> name, first |-> first, last |-> last]
MCSeasons == {{Season("year", 0, 2)}, {Season("summer", 0, 0), Season("winter", 1, 2)},
              {Season("summer", 2, 0), Season("winter", 1, 1)}, {Season("summer", 0, 1)}}

Calendar(from, to, dates) == [from |-> from, to |-> to, dates |-> dates]
MCCalendars == {none, Calendar(0, 2, {2}), Calendar(0, 1, {1})}

--------------------------------------------------------------------------------
RatesSymmetry == Permutations(Homes)

\* Bound: the summary is attested with the year's allowance, which leaves the
\* bill's in force, and the entry with a summer one, which cuts it short.
Attested(review) == {review[h].rule : h \in Homes} \ {NoRule}

RatesInit ==
    /\ Init /\ CrawlInit /\ TariffInit
    /\ focus \in {"workflow", "entry", "crawl", "tariff"}

RatesNext ==
    \/ /\ focus = "workflow" /\ Next /\ entry \notin candidates'
       /\ Attested(reviews'[summary]) \subseteq {YearAllowance}
       /\ UNCHANGED <<crawlVars, tariffVars, focus>>
    \/ /\ focus = "entry" /\ Next /\ summary \notin candidates'
       /\ Attested(reviews'[entry]) \subseteq {SummerAllowance}
       /\ UNCHANGED <<crawlVars, tariffVars, focus>>
    \/ focus = "crawl" /\ CrawlNext /\ UNCHANGED <<vars, tariffVars, focus>>
    \/ focus = "tariff" /\ TariffNext /\ UNCHANGED <<vars, crawlVars, focus>>

RatesSpec == RatesInit /\ [][RatesNext]_<<vars, crawlVars, tariffVars, focus>>

\* IntervalPricedExactly, in the behaviours of a schedule.
PricingHolds == focus = "tariff" => IntervalPricedExactly
================================================================================
