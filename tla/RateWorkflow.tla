---------------------------- MODULE RateWorkflow ----------------------------
(***************************************************************************)
(* The administrator's rate workflow (backend/app/services/rate_workflow.py *)
(* and the rate routes of backend/app/routes/billing.py): a candidate is    *)
(* reviewed by a home, published as an immutable version of a rate plan and *)
(* activated for the home's utility account; a utility bill is imported,    *)
(* corrected, published and assigned along a second path.  Both paths share *)
(* the version allocator, the assignment table and the account's tier       *)
(* thresholds, and both withdraw the prices the worker has already selected *)
(* for the intervals they re-rate.                                          *)
(*                                                                          *)
(* A home has one utility account, so a home names its account too.  Time   *)
(* is counted in local days 0 .. Horizon; Horizon + 1 stands for "no end".  *)
(* A publication holds the rows it has locked from its first query to its   *)
(* commit (publishing); the worker reads the assignment of an interval and  *)
(* commits its price later (pricing).  Every other handler locks, checks    *)
(* and commits as one step.                                                 *)
(***************************************************************************)
EXTENDS Integers, Sequences, FiniteSets, FiniteSetsExt

CONSTANTS
    Homes,        \* homes, each with its one utility account
    Plans,        \* natural rate-plan identities (name, utility, class)
    Candidates,   \* candidate rows the official source has produced
    Manual,       \* candidate rows an administrator enters by hand
    Evidence,     \* what the parser recorded of each candidate
    Documents,    \* bill documents, each with the plan it names
    Rules,        \* tier-threshold rules a reviewer can attest
    NoRule,       \* no rule attested
    Offered,      \* effective ranges a reviewer can attest
    Intervals,    \* normalised intervals of the home's sensors
    Horizon,      \* last day of the model
    MaxVersions   \* bound on published versions

NoEnd == Horizon + 1
Days == 0 .. Horizon

VARIABLES
    candidates,   \* candidate rows that exist
    seenBy,       \* homes with a sync run that names the candidate's revision
    reviews,      \* the review row of a candidate in a home
    bills,        \* bill extraction of a home and a document
    versions,     \* published rate-plan versions, in the order of commit
    assignments,  \* rate assignments of an account
    thresholds,   \* tier thresholds of an account
    selected,     \* version whose price an interval's selection row points to
    publishing,   \* publications that hold their row locks
    pricing,      \* the price the worker has computed and not committed
    raced         \* intervals re-rated while the worker held their price

vars == <<candidates, seenBy, reviews, bills, versions, assignments,
          thresholds, selected, publishing, pricing, raced>>

------------------------------------------------------------------------------
(* Rows *)

\* An effective range: a first day and the day it ends before.
Ranges == {r \in [start : Days, end : 1 .. NoEnd] : r.start < r.end}
Holds(r, day) == r.start <= day /\ day < r.end

\* Rules come from reviewers, from the parser and from the bills' printed
\* allowances.
AnyRule ==
    (Rules \cup {Evidence[c].rule : c \in Candidates} \cup
        {Documents[d].rule : d \in DOMAIN Documents}) \ {NoRule}

RuleSeasons == {r.season : r \in AnyRule}

\* The schemas refuse ranges and intervals that do not end after they begin; a
\* plan is named by every candidate and by every document.
ASSUME WorkflowAssumption ==
    /\ Manual \subseteq Candidates /\ 0 \notin Candidates
    /\ Horizon \in Nat /\ MaxVersions \in Nat
    /\ Offered \subseteq Ranges
    /\ Intervals \subseteq [start : Nat, end : Nat]
    /\ \A i \in Intervals : i.start < i.end
    /\ \A c \in Candidates : Evidence[c].plan \in Plans
    /\ \A d \in DOMAIN Documents : Documents[d].plan \in Plans

NoReview == [state |-> "none", range |-> [start |-> 0, end |-> NoEnd],
             rule |-> NoRule, version |-> 0]
ReviewRows ==
    [state : {"none", "reviewed", "published", "activated", "rejected"},
     range : Ranges, rule : Rules \cup {NoRule}, version : 0 .. MaxVersions]

\* An absent extraction, a review-required draft (complete or not), or a
\* published one with the version it became.
BillRows == [state : {"none", "review_required", "published"},
             complete : BOOLEAN, version : 0 .. MaxVersions]
NoBill == [state |-> "none", complete |-> FALSE, version |-> 0]

VersionRows == [plan : Plans, number : 1 .. MaxVersions, range : Ranges,
                rule : AnyRule \cup {NoRule}, candidate : Candidates \cup {0}]
AssignmentRows == [version : 1 .. MaxVersions, start : Days, end : 1 .. NoEnd]
ThresholdRows == [plan : Plans, rule : AnyRule, start : Days, end : 1 .. NoEnd]

------------------------------------------------------------------------------
(* Guards shared by the handlers *)

\* The candidate joined to a run of this home: another home's evidence is
\* indistinguishable from a candidate that does not exist.
ExactHomeCandidate(c, h) == c \in candidates /\ h \in seenBy[c]

\* FOR UPDATE on the candidate and its review waits for a publication of it.
Unlocked(c) == \A p \in publishing : p.candidate # c
BillUnlocked(h, d) == \A p \in publishing : <<p.home, p.document>> # <<h, d>>

\* What publish_rate_candidate asks of the parser's evidence: exact prices,
\* verified component scope, and a complete schedule unless the plan is tiered
\* and the account's allowance completes it.
Publishable(c, rule) ==
    /\ Evidence[c].exact
    /\ Evidence[c].scopeVerified
    /\ \/ Evidence[c].coverage = "complete"
       \/ /\ Evidence[c].coverage = "semantic_tier_coverage"
          /\ Evidence[c].tiered
          /\ rule # NoRule

\* The plan row is locked (or is being inserted under its unique key) by the
\* publication that allocated the next version number from it.
PlanLocked(p) == \E q \in publishing : q.plan = p
NextVersionNumber(p) ==
    1 + Max({0} \cup {versions[i].number : i \in {j \in DOMAIN versions :
                                                     versions[j].plan = p}})

------------------------------------------------------------------------------
(* Assignments and thresholds *)

\* Mutant: a row that is cut short disappears.
ClippedAway(rows, s) == {r \in rows : ~(r.start < s /\ r.end > s)}

\* Rows that begin before the new start end there; the new row ends where the
\* first later row begins.
Clipped(rows, s) ==
    {IF r.start < s /\ r.end > s THEN [r EXCEPT !.end = s] ELSE r : r \in rows}
ClippedEnd(rows, s, e) == Min({e} \cup {r.start : r \in {q \in rows : q.start > s}})

\* A different version that begins on the same day is a conflict.
Assignable(h, v, range) ==
    \A a \in assignments[h] : a.start = range.start => a.version = v
AssignedEnd(h, range) == ClippedEnd(assignments[h], range.start, range.end)
NewAssignments(h, v, range) ==
    IF \E a \in assignments[h] : a.start = range.start
    THEN assignments[h]
    ELSE Clipped(assignments[h], range.start) \cup
         {[version |-> v, start |-> range.start, end |-> AssignedEnd(h, range)]}

SameScope(h, p, rule) ==
    {t \in thresholds[h] : t.plan = p /\ t.rule.season = rule.season}
NewThreshold(h, p, rule, s, e) ==
    [plan |-> p, rule |-> rule, start |-> s,
     end |-> ClippedEnd(SameScope(h, p, rule), s, e)]

\* Different evidence that begins at the same instant is a conflict.
ThresholdAccepted(h, p, rule, s, e) ==
    \A t \in SameScope(h, p, rule) :
        t.start = s => t = [plan |-> p, rule |-> rule, start |-> s, end |-> e]

\* Mutant: the allowance of the version before stays beside the new one.
ThresholdsKept(h, p, rule, s, e) ==
    thresholds[h] \cup {NewThreshold(h, p, rule, s, e)}

NewThresholds(h, p, rule, s, e) ==
    LET scope == SameScope(h, p, rule)
    IN  IF \E t \in scope : t.start = s
        THEN thresholds[h]
        ELSE (thresholds[h] \ scope) \cup Clipped(scope, s) \cup
             {NewThreshold(h, p, rule, s, e)}

\* resolve_utility_account_tier_threshold: of the rows in force that day, those
\* of the day's season, and only where there is none those of "all" seasons.
\* More than one is refused as overlapping evidence.
ResolvedThresholds(h, p, season, day) ==
    LET active == {t \in thresholds[h] : t.plan = p /\ Holds(t, day)}
        exact == {t \in active : t.rule.season = season}
    IN  IF exact # {} THEN exact ELSE {t \in active : t.rule.season = "all"}

\* _rate_for_interval: the one assignment whose range, and whose version's
\* range, contain the whole interval.
Covering(h, i) ==
    {a \in assignments[h] : /\ a.start <= i.start /\ i.end <= a.end
                            /\ versions[a.version].range.start <= i.start
                            /\ i.end <= versions[a.version].range.end}

\* Selections are withdrawn from the intervals that lie inside the new range;
\* a delete cannot see the selection an open worker transaction will insert.
Affected(range, e) == {i \in Intervals : i.start >= range.start /\ i.end <= e}
Overtaken(h, range, e) ==
    {<<p.home, p.interval>> : p \in {q \in pricing :
                                       q.home = h /\ q.interval \in Affected(range, e)}}

\* Nor can it see what the worker prices by the old assignments, and commits,
\* before the request commits.
PricedMeanwhile(h, range, e) ==
    {i \in Affected(range, e) : /\ pricing = {} /\ selected[h][i] = 0
                                /\ Cardinality(Covering(h, i)) = 1}
Withdrawn(h, range, e, kept) ==
    [i \in Intervals |-> IF i \in kept THEN (CHOOSE a \in Covering(h, i) : TRUE).version
                         ELSE IF i \in Affected(range, e) THEN 0
                         ELSE selected[h][i]]

\* replace_rate_assignment, the threshold replacement and the withdrawal, as
\* one transaction on the locked account row, at the instant of its DELETE.
Assign(h, v, p, range, rule) ==
    LET e == AssignedEnd(h, range)
    IN  /\ Assignable(h, v, range)
        /\ rule # NoRule => ThresholdAccepted(h, p, rule, range.start, e)
        /\ assignments' = [assignments EXCEPT ![h] = NewAssignments(h, v, range)]
        /\ thresholds' = IF rule = NoRule THEN thresholds
                         ELSE [thresholds EXCEPT ![h] =
                                  NewThresholds(h, p, rule, range.start, e)]
        /\ \E kept \in SUBSET PricedMeanwhile(h, range, e) :
              /\ selected' = [selected EXCEPT ![h] = Withdrawn(h, range, e, kept)]
              /\ raced' = (raced \ {<<h, i>> : i \in Affected(range, e)}) \cup
                          Overtaken(h, range, e) \cup {<<h, i>> : i \in kept}

------------------------------------------------------------------------------
(* Candidate review *)

Init ==
    /\ candidates = {}
    /\ seenBy = [c \in Candidates |-> {}]
    /\ reviews = [c \in Candidates |-> [h \in Homes |-> NoReview]]
    /\ bills = [h \in Homes |-> [d \in DOMAIN Documents |-> NoBill]]
    /\ versions = << >>
    /\ assignments = [h \in Homes |-> {}]
    /\ thresholds = [h \in Homes |-> {}]
    /\ selected = [h \in Homes |-> [i \in Intervals |-> 0]]
    /\ publishing = {}
    /\ pricing = {}
    /\ raced = {}

\* A synchronisation parses the candidate's revision, creates the candidate if
\* the revision has none (also after a home disposed of it) and leaves a run in
\* the home.  It waits for the source row, which a publication or a delete of
\* one of its candidates has locked.
RecordRun(c, h) ==
    /\ c \notin Manual
    /\ Unlocked(c)
    /\ c \notin candidates \/ h \notin seenBy[c]
    /\ candidates' = candidates \cup {c}
    /\ seenBy' = [seenBy EXCEPT ![c] = @ \cup {h}]
    /\ UNCHANGED <<reviews, bills, versions, assignments, thresholds,
                   selected, publishing, pricing, raced>>

\* create_manual_rate_candidate: the same entry of a home is answered with the
\* candidate there is; it comes with a source, a revision and a run of its own,
\* so that no other home sees it.
EnterCandidate(c, h) ==
    /\ c \in Manual \ candidates
    /\ seenBy[c] \subseteq {h}
    /\ candidates' = candidates \cup {c}
    /\ seenBy' = [seenBy EXCEPT ![c] = {h}]
    /\ UNCHANGED <<reviews, bills, versions, assignments, thresholds,
                   selected, publishing, pricing, raced>>

ReviewCandidate(c, h, range, rule) ==
    /\ ExactHomeCandidate(c, h) /\ Unlocked(c)
    /\ reviews[c][h].state \in {"none", "reviewed"}
    /\ reviews' = [reviews EXCEPT ![c][h] =
          [state |-> "reviewed", range |-> range, rule |-> rule, version |-> 0]]
    /\ UNCHANGED <<candidates, seenBy, bills, versions, assignments, thresholds,
                   selected, publishing, pricing, raced>>

RejectCandidate(c, h) ==
    /\ ExactHomeCandidate(c, h) /\ Unlocked(c)
    /\ reviews[c][h].state \in {"none", "reviewed"}
    /\ reviews' = [reviews EXCEPT ![c][h].state = "rejected"]
    /\ UNCHANGED <<candidates, seenBy, bills, versions, assignments, thresholds,
                   selected, publishing, pricing, raced>>

\* Rejected working records can be disposed of by the only home that saw them.
Disposable(c, h) ==
    /\ \A g \in Homes : reviews[c][g].state \in {"none", "rejected"}
    /\ \A g \in Homes \ {h} : reviews[c][g].state = "none" /\ g \notin seenBy[c]
DeleteCandidate(c, h) ==
    /\ ExactHomeCandidate(c, h) /\ Unlocked(c)
    /\ Disposable(c, h)
    /\ candidates' = candidates \ {c}
    /\ reviews' = [reviews EXCEPT ![c] = [g \in Homes |-> NoReview]]
    /\ UNCHANGED <<seenBy, bills, versions, assignments, thresholds, selected,
                   publishing, pricing, raced>>

------------------------------------------------------------------------------
(* Publication *)

\* The rule of the review, or the one the parser found in the plan.
EffectiveRule(c, h) ==
    IF reviews[c][h].rule # NoRule THEN reviews[c][h].rule ELSE Evidence[c].rule

PublishCandidate(c, h) ==
    LET plan == Evidence[c].plan
    IN  /\ ExactHomeCandidate(c, h) /\ Unlocked(c)
        /\ reviews[c][h].state = "reviewed"
        /\ Publishable(c, EffectiveRule(c, h))
        /\ ~PlanLocked(plan)
        /\ Len(versions) + Cardinality(publishing) < MaxVersions
        /\ publishing' = publishing \cup
             {[candidate |-> c, document |-> 0, home |-> h, assign |-> FALSE,
               range |-> reviews[c][h].range, rule |-> EffectiveRule(c, h),
               plan |-> plan, number |-> NextVersionNumber(plan)]}
        /\ UNCHANGED <<candidates, seenBy, reviews, bills, versions, assignments,
                       thresholds, selected, pricing, raced>>

CommitCandidateVersion(p) ==
    /\ p \in publishing /\ p.candidate # 0
    /\ versions' = Append(versions, [plan |-> p.plan, number |-> p.number,
                                     range |-> p.range, rule |-> p.rule,
                                     candidate |-> p.candidate])
    /\ reviews' = [reviews EXCEPT ![p.candidate][p.home].state = "published",
                                  ![p.candidate][p.home].version = Len(versions) + 1]
    /\ publishing' = publishing \ {p}
    /\ UNCHANGED <<candidates, seenBy, bills, assignments, thresholds, selected,
                   pricing, raced>>

\* The process dies or the request fails: the transaction leaves nothing.
AbortPublication(p) ==
    /\ p \in publishing
    /\ publishing' = publishing \ {p}
    /\ UNCHANGED <<candidates, seenBy, reviews, bills, versions, assignments,
                   thresholds, selected, pricing, raced>>

ActivateCandidate(c, h) ==
    LET v == reviews[c][h].version
    IN  /\ ExactHomeCandidate(c, h) /\ Unlocked(c)
        /\ reviews[c][h].state = "published"
        /\ Assign(h, v, versions[v].plan, versions[v].range, EffectiveRule(c, h))
        /\ reviews' = [reviews EXCEPT ![c][h].state = "activated"]
        /\ UNCHANGED <<candidates, seenBy, bills, versions, publishing, pricing>>

------------------------------------------------------------------------------
(* Bill imports *)

\* A document is imported once per home, and a draft whose rates equal a live
\* one is answered with that one.
ImportBill(h, d, complete) ==
    /\ bills[h][d].state = "none"
    /\ \A e \in DOMAIN Documents :
          bills[h][e].state = "none" \/ Documents[e].rates # Documents[d].rates
    /\ bills' = [bills EXCEPT ![h][d] =
                    [state |-> "review_required", complete |-> complete, version |-> 0]]
    /\ UNCHANGED <<candidates, seenBy, reviews, versions, assignments, thresholds,
                   selected, publishing, pricing, raced>>

\* Correcting the billing days resolves the daily allowance and completes the
\* draft.
CorrectBill(h, d) ==
    /\ bills[h][d].state = "review_required" /\ BillUnlocked(h, d)
    /\ ~bills[h][d].complete
    /\ bills' = [bills EXCEPT ![h][d].complete = TRUE]
    /\ UNCHANGED <<candidates, seenBy, reviews, versions, assignments, thresholds,
                   selected, publishing, pricing, raced>>

PublishBill(h, d, range, assign) ==
    LET plan == Documents[d].plan
    IN  /\ bills[h][d].state = "review_required" /\ BillUnlocked(h, d)
        /\ bills[h][d].complete
        /\ ~PlanLocked(plan)
        /\ Len(versions) + Cardinality(publishing) < MaxVersions
        /\ publishing' = publishing \cup
             {[candidate |-> 0, document |-> d, home |-> h, assign |-> assign,
               range |-> range, rule |-> Documents[d].rule,
               plan |-> plan, number |-> NextVersionNumber(plan)]}
        /\ UNCHANGED <<candidates, seenBy, reviews, bills, versions, assignments,
                       thresholds, selected, pricing, raced>>

CommitBillVersion(p) ==
    LET v == Len(versions) + 1
    IN  /\ p \in publishing /\ p.candidate = 0
        /\ versions' = Append(versions, [plan |-> p.plan, number |-> p.number,
                                         range |-> p.range, rule |-> p.rule,
                                         candidate |-> 0])
        /\ \/ p.assign /\ Assign(p.home, v, p.plan, p.range, p.rule)
           \/ ~p.assign /\ UNCHANGED <<assignments, thresholds, selected, raced>>
        /\ bills' = [bills EXCEPT ![p.home][p.document].state = "published",
                                  ![p.home][p.document].version = v]
        /\ publishing' = publishing \ {p}
        /\ UNCHANGED <<candidates, seenBy, reviews, pricing>>

\* The extraction and its upload go, the published version stays.
DeleteBill(h, d) ==
    /\ bills[h][d].state # "none" /\ BillUnlocked(h, d)
    /\ bills' = [bills EXCEPT ![h][d] = NoBill]
    /\ UNCHANGED <<candidates, seenBy, reviews, versions, assignments, thresholds,
                   selected, publishing, pricing, raced>>

------------------------------------------------------------------------------
(* The worker *)

PriceInterval(h, i) ==
    /\ pricing = {} /\ selected[h][i] = 0
    /\ Cardinality(Covering(h, i)) = 1
    /\ \E a \in Covering(h, i) :
          pricing' = {[home |-> h, interval |-> i, version |-> a.version]}
    /\ UNCHANGED <<candidates, seenBy, reviews, bills, versions, assignments,
                   thresholds, selected, publishing, raced>>

CommitPrice ==
    \E p \in pricing :
        /\ pricing' = {}
        /\ selected' = [selected EXCEPT ![p.home][p.interval] = p.version]
        /\ UNCHANGED <<candidates, seenBy, reviews, bills, versions, assignments,
                       thresholds, publishing, raced>>

AbortPrice ==
    /\ pricing # {}
    /\ pricing' = {}
    /\ raced' = raced \ {<<p.home, p.interval>> : p \in pricing}
    /\ UNCHANGED <<candidates, seenBy, reviews, bills, versions, assignments,
                   thresholds, selected, publishing>>

------------------------------------------------------------------------------
Next ==
    \/ \E c \in Candidates, h \in Homes :
          \/ RecordRun(c, h)
          \/ EnterCandidate(c, h)
          \/ RejectCandidate(c, h)
          \/ DeleteCandidate(c, h)
          \/ PublishCandidate(c, h)
          \/ ActivateCandidate(c, h)
          \/ \E range \in Offered, rule \in Rules \cup {NoRule} :
                ReviewCandidate(c, h, range, rule)
    \/ \E h \in Homes, d \in DOMAIN Documents :
          \/ \E complete \in BOOLEAN : ImportBill(h, d, complete)
          \/ CorrectBill(h, d)
          \/ \E range \in Offered, assign \in BOOLEAN : PublishBill(h, d, range, assign)
          \/ DeleteBill(h, d)
    \/ \E p \in publishing :
          CommitCandidateVersion(p) \/ CommitBillVersion(p) \/ AbortPublication(p)
    \/ \E h \in Homes, i \in Intervals : PriceInterval(h, i)
    \/ CommitPrice
    \/ AbortPrice

Spec == Init /\ [][Next]_vars

------------------------------------------------------------------------------
(* Properties *)

\* Every variable stays in its type: rows keep the shapes of the ORM classes.
TypeOK ==
    /\ candidates \subseteq Candidates
    /\ seenBy \in [Candidates -> SUBSET Homes]
    /\ reviews \in [Candidates -> [Homes -> ReviewRows]]
    /\ bills \in [Homes -> [DOMAIN Documents -> BillRows]]
    /\ versions \in Seq(VersionRows) /\ Len(versions) <= MaxVersions
    /\ \A h \in Homes : /\ assignments[h] \subseteq AssignmentRows
                        /\ thresholds[h] \subseteq ThresholdRows
                        /\ selected[h] \in [Intervals -> 0 .. MaxVersions]
    /\ raced \subseteq Homes \X Intervals

\* The versions of a plan are numbered 1, 2, ... without a gap or a repetition,
\* although SCE candidates and bills of several homes are published at once and
\* a publication can die after it has drawn its number
\* (locked_rate_plan_and_next_version).
VersionsNumberedInOrder ==
    \A p \in Plans :
        LET mine == {i \in DOMAIN versions : versions[i].plan = p}
        IN  /\ {versions[i].number : i \in mine} = 1 .. Cardinality(mine)
            /\ \A i, j \in mine : i < j => versions[i].number < versions[j].number

\* A version published from a candidate keeps that candidate, whatever homes
\* reject, dispose of or synchronise again (delete_rate_source_candidate).
ProvenanceRetained ==
    \A v \in DOMAIN versions :
        versions[v].candidate # 0 =>
            /\ versions[v].candidate \in candidates
            /\ \E h \in Homes : reviews[versions[v].candidate][h].version = v

\* A version carries the dates and the allowance of the review it came from: no
\* second request edits the review while it is being published
\* (review_rate_candidate against publish_rate_candidate).
PublishedAsReviewed ==
    \A c \in Candidates, h \in Homes :
        reviews[c][h].state \in {"published", "activated"} =>
            LET v == versions[reviews[c][h].version]
            IN  v.range = reviews[c][h].range /\ v.rule = EffectiveRule(c, h)

\* An account never has two rates on one day, and never a rate on a day outside
\* the range of the version (replace_rate_assignment and its database guard).
AssignmentsDisjoint ==
    \A h \in Homes :
        /\ \A a, b \in assignments[h] : a # b => a.end <= b.start \/ b.end <= a.start
        /\ \A a \in assignments[h] :
              LET r == versions[a.version].range
              IN  r.start <= a.start /\ a.start < a.end /\ a.end <= r.end

\* Whatever season a day has, the resolver never finds overlapping allowances,
\* in whatever order versions and bills of a plan were activated; and on every
\* day of an assignment to which the allowance of its version applies, it finds
\* that allowance.  One exception: an allowance for all seasons cuts no named
\* season's row short, so the day's season as an earlier assignment of the plan
\* had it is preferred to it (replace_utility_account_tier_threshold,
\* resolve_utility_account_tier_threshold).
EachVersionKeepsItsAllowance ==
    \A h \in Homes, season \in RuleSeasons, day \in Days :
        /\ \A p \in Plans : \A t, u \in ResolvedThresholds(h, p, season, day) : t = u
        /\ \A a \in assignments[h] :
              LET v == versions[a.version]
                  found == ResolvedThresholds(h, v.plan, season, day)
              IN  Holds(a, day) /\ v.rule # NoRule /\ v.rule.season \in {season, "all"} =>
                      /\ found # {}
                      /\ \A t \in found :
                            \/ t.rule = v.rule
                            \/ /\ v.rule.season = "all" /\ t.rule.season = season
                               /\ t.start < a.start

\* A selected price was computed with the version that is assigned to its
\* interval, unless the worker read the assignment before it was replaced and
\* committed afterwards (activate_rate_candidate, calculate_pending_costs).
PricedAsAssigned ==
    \A h \in Homes, i \in Intervals :
        selected[h][i] # 0 /\ <<h, i>> \notin raced =>
            \A a \in Covering(h, i) : a.version = selected[h][i]

\* A day that had a rate loses it only to a bounded version that ended before:
\* the assignment it cut short is not resumed (replace_rate_assignment).
RateLostOnlyAfterBoundedVersion ==
    [][\A h \in Homes, day \in Days :
          (\E a \in assignments[h] : Holds(a, day)) =>
              \/ \E a \in assignments'[h] : Holds(a, day)
              \/ \E a \in assignments'[h] \ assignments[h] :
                    versions'[a.version].range.end # NoEnd /\ a.end <= day]_vars

\* The published record of rates: numbered without gaps, kept with its source,
\* as reviewed, and applied to each account day by day, with allowances that
\* fit them and prices that follow the assignments.
RateRecordSound ==
    /\ TypeOK
    /\ VersionsNumberedInOrder
    /\ ProvenanceRetained
    /\ PublishedAsReviewed
    /\ AssignmentsDisjoint
    /\ EachVersionKeepsItsAllowance
    /\ PricedAsAssigned
==============================================================================
