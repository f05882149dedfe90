------------------------------ MODULE Rates_proofs ------------------------------
(***************************************************************************)
(* Proofs about rates: RateRecordSound and RateLostOnlyAfterBoundedVersion *)
(* of module RateWorkflow for any homes, plans, candidates, documents,     *)
(* ranges, intervals and versions, CrawlSound of module CatalogCrawl for   *)
(* any link graph, families and limits, and PublishedScheduleResolves of   *)
(* module Tariff for any periods, seasons, calendars, usage and allowance. *)
(*                                                                         *)
(* RateRecordSound is not inductive.  That a version gets a number of its  *)
(* own follows from the plan's lock: each open publication holds the next  *)
(* number of its plan and the review it started from, and two of them      *)
(* differ in plan and candidate (PublicationsSound).  That an activation   *)
(* assigns what was reviewed follows from the review keeping its version's *)
(* range and rule (ReviewSound).  That an account has one rate a day, each *)
(* with its allowance, is a statement about whole timelines: assignments   *)
(* follow each other, thresholds of a season do, a threshold begins with a *)
(* rate of its own and outlasts it (AccountSound); cutting rows at the new *)
(* start and ending the new row before the next keeps that (Inserted).     *)
(*                                                                         *)
(* CrawlSound needs that every known link's family has an entry, that an   *)
(* accepted link was captured or is off-site, and that every family seen   *)
(* on a page has an entry (CrawlInv).                                      *)
(*                                                                         *)
(* PublishedScheduleResolves compares two algorithms.  The validation      *)
(* looks at tiers only at their bounds, the engine at any usage: a tier    *)
(* holds a usage if it holds the largest bound below (AxisResolves).  The  *)
(* validation takes the most specific periods first and the engine the     *)
(* tiers first: the same, once one of the most specific holds              *)
(* (SpecificFirst).  At a bound that belongs to two tiers there are two    *)
(* periods and the engine takes one (BoundaryResolves); an account's       *)
(* allowance moves the bound both tiers share (AccountAxis).               *)
(***************************************************************************)
EXTENDS RateWorkflow, CatalogCrawl, Tariff, FiniteSetTheorems,
        WellFoundedInduction, TLAPS

\* The least of a set of natural numbers.
LEMMA LeastNatural ==
    ASSUME NEW T, T \subseteq Nat, T # {}
    PROVE  \E x \in T : \A y \in T : x <= y
<1>1. PICK x \in T : \A y \in T : ~ (<<y, x>> \in OpToRel(<, Nat))
  BY NatLessThanWellFounded, WFMin, Zenon
<1>2. \A y \in T : ~ (<<y, x>> \in {ss \in Nat \X Nat : ss[1] < ss[2]})
  BY <1>1, Zenon DEF OpToRel
<1>3. ASSUME NEW y \in T PROVE x <= y
  <2>1. x \in Nat /\ y \in Nat
    OBVIOUS
  <2>2. <<y, x>> \in Nat \X Nat /\ <<y, x>>[1] = y /\ <<y, x>>[2] = x
    BY <2>1
  <2>3. ~ (y < x)
    BY <1>2, <2>2
  <2>4. QED
    BY <2>1, <2>3
<1>4. QED
  BY <1>3

\* Min is the least of a set of natural numbers.
LEMMA MinIsLeast ==
    ASSUME NEW T, T \subseteq Nat, T # {}
    PROVE  Min(T) \in T /\ \A y \in T : Min(T) <= y
BY LeastNatural, Zenon DEF Min

--------------------------------------------------------------------------------
(* Timelines: rows with a start and an end of which no two share a day. *)

\* Two rows that share no day.
Apart(a, b) == a = b \/ a.end <= b.start \/ b.end <= a.start
\* Rows that follow each other.
Timeline(rows) ==
    /\ \A r \in rows : r.start \in Nat /\ r.end \in Nat /\ r.start < r.end
    /\ \A a, b \in rows : Apart(a, b)
\* A row that runs past a day ends there.
Cut(r, s) == IF r.start < s /\ r.end > s THEN [r EXCEPT !.end = s] ELSE r
\* Cutting a row short keeps its start.
Cuttable(rows, s) ==
    \A r \in rows : [r EXCEPT !.end = s].start = r.start /\ [r EXCEPT !.end = s].end = s
\* A row begins on the day.
Begins(rows, s) == \E r \in rows : r.start = s

\* Where the new row ends: not after its own end nor a later row, and at one of them.
LEMMA ClippedEndIs ==
    ASSUME NEW rows, Timeline(rows), NEW s \in Nat, NEW e \in Nat, s < e
    PROVE  /\ ClippedEnd(rows, s, e) \in Nat
           /\ s < ClippedEnd(rows, s, e) /\ ClippedEnd(rows, s, e) <= e
           /\ \A r \in rows : r.start > s => ClippedEnd(rows, s, e) <= r.start
           /\ \/ ClippedEnd(rows, s, e) = e
              \/ \E r \in rows : r.start > s /\ ClippedEnd(rows, s, e) = r.start
<1> DEFINE T == {e} \cup {r.start : r \in {q \in rows : q.start > s}}
<1>1. T \subseteq Nat /\ T # {}
  BY DEF Timeline
<1>2. Min(T) \in T /\ \A y \in T : Min(T) <= y
  BY <1>1, MinIsLeast
<1>3. ClippedEnd(rows, s, e) = Min(T)
  BY DEF ClippedEnd
<1> DEFINE m == Min(T)
<1> HIDE DEF m
<1>4. m \in T /\ \A y \in T : m <= y
  BY <1>2 DEF m
<1>5. \A r \in rows : r.start > s => r.start \in T
  OBVIOUS
<1>6. m = e \/ \E r \in rows : r.start > s /\ m = r.start
  BY <1>4
<1>7. m <= e
  BY <1>4
<1>8. s < m /\ m \in Nat
  BY <1>6 DEF Timeline
<1>9. QED
  BY <1>3, <1>4, <1>5, <1>6, <1>7, <1>8 DEF m

\* What a clipped row was.
LEMMA ClippedRow ==
    ASSUME NEW rows, NEW s, NEW x \in Clipped(rows, s)
    PROVE  \E r \in rows : x = Cut(r, s)
BY DEF Clipped, Cut

\* Every row is among the clipped ones, perhaps cut.
LEMMA RowClipped ==
    ASSUME NEW rows, NEW s, NEW r \in rows
    PROVE  Cut(r, s) \in Clipped(rows, s)
BY DEF Clipped, Cut

\* A cut row begins where it did and ends where it did, or at the cut.
LEMMA CutIs ==
    ASSUME NEW rows, NEW s \in Nat, Timeline(rows), Cuttable(rows, s), NEW r \in rows
    PROVE  /\ Cut(r, s).start = r.start
           /\ Cut(r, s).end = IF r.start < s /\ r.end > s THEN s ELSE r.end
BY DEF Cut, Cuttable

\* A new row put in a timeline: it cuts the rows before it and ends before those
\* after it.
LEMMA Inserted ==
    ASSUME NEW rows, Timeline(rows), NEW s \in Nat, NEW e \in Nat, s < e,
           Cuttable(rows, s), ~Begins(rows, s), NEW new,
           new.start = s, new.end = ClippedEnd(rows, s, e)
    PROVE  Timeline(Clipped(rows, s) \cup {new})
<1> DEFINE m == ClippedEnd(rows, s, e)
<1>1. /\ m \in Nat /\ s < m
      /\ \A r \in rows : r.start > s => m <= r.start
  BY ClippedEndIs
<1> HIDE DEF m
<1>0. new.end = m
  BY DEF m
<1>2. ASSUME NEW x \in Clipped(rows, s)
      PROVE  /\ x.start \in Nat /\ x.end \in Nat /\ x.start < x.end
             /\ Apart(x, new) /\ Apart(new, x)
  <2>1. PICK r \in rows : x = Cut(r, s)
    BY ClippedRow
  <2>2. /\ x.start = r.start
        /\ x.end = IF r.start < s /\ r.end > s THEN s ELSE r.end
    BY <2>1, CutIs
  <2>3. r.start # s /\ r.start \in Nat /\ r.end \in Nat /\ r.start < r.end
    BY DEF Begins, Timeline
  <2>4. QED
    BY <1>0, <1>1, <2>2, <2>3 DEF Apart
<1>3. ASSUME NEW x \in Clipped(rows, s), NEW y \in Clipped(rows, s)
      PROVE  Apart(x, y)
  <2>1. PICK r \in rows : x = Cut(r, s)
    BY ClippedRow
  <2>2. PICK q \in rows : y = Cut(q, s)
    BY ClippedRow
  <2>3. CASE r = q
    BY <2>1, <2>2, <2>3 DEF Apart
  <2>4. CASE r # q
    <3>1. r.end <= q.start \/ q.end <= r.start
      BY <2>4 DEF Timeline, Apart
    <3>2. /\ x.start = r.start
          /\ x.end = IF r.start < s /\ r.end > s THEN s ELSE r.end
      BY <2>1, CutIs
    <3>3. /\ y.start = q.start
          /\ y.end = IF q.start < s /\ q.end > s THEN s ELSE q.end
      BY <2>2, CutIs
    <3>4. /\ r.start \in Nat /\ r.end \in Nat /\ r.start < r.end
          /\ q.start \in Nat /\ q.end \in Nat /\ q.start < q.end
      BY DEF Timeline
    <3>5. QED
      BY <3>1, <3>2, <3>3, <3>4 DEF Apart
  <2>5. QED
    BY <2>3, <2>4
<1>4. Apart(new, new) /\ new.start \in Nat /\ new.end \in Nat /\ new.start < new.end
  BY <1>0, <1>1 DEF Apart
<1>5. QED
  BY <1>2, <1>3, <1>4 DEF Timeline

--------------------------------------------------------------------------------
(* The invariant of the rate workflow *)

\* The open transactions of a publication, and of a price.
Publications ==
    [candidate : Candidates \cup {0}, document : DOMAIN Documents \cup {0},
     home : Homes, assign : BOOLEAN, range : Ranges, rule : AnyRule \cup {NoRule},
     plan : Plans, number : 1 .. MaxVersions]
Prices == [home : Homes, interval : Intervals, version : 1 .. MaxVersions]

\* The types of TypeOK, with the domains of the account tables and the rows of
\* the open transactions.
RatesTyped ==
    /\ candidates \subseteq Candidates
    /\ seenBy \in [Candidates -> SUBSET Homes]
    /\ reviews \in [Candidates -> [Homes -> ReviewRows]]
    /\ bills \in [Homes -> [DOMAIN Documents -> BillRows]]
    /\ versions \in Seq(VersionRows) /\ Len(versions) <= MaxVersions
    /\ assignments \in [Homes -> SUBSET AssignmentRows]
    /\ thresholds \in [Homes -> SUBSET ThresholdRows]
    /\ selected \in [Homes -> [Intervals -> 0 .. MaxVersions]]
    /\ publishing \subseteq Publications
    /\ pricing \subseteq Prices
    /\ raced \subseteq Homes \X Intervals

\* The threshold that an assignment came with.
AllowanceOf(h, a) ==
    LET v == versions[a.version]
    IN  v.rule # NoRule =>
            \E t \in thresholds[h] : /\ t.plan = v.plan /\ t.rule = v.rule
                                     /\ t.start = a.start /\ a.end <= t.end
\* Thresholds that could contradict each other.
SameSeason(t, u) == t.plan = u.plan /\ t.rule.season = u.rule.season
\* An assignment inside the range of its version.
AssignedInRange(a) ==
    /\ a.version \in 1 .. Len(versions)
    /\ versions[a.version].range.start <= a.start
    /\ a.end <= versions[a.version].range.end

\* No two thresholds of an account begin on the same day.
OneThresholdAStart(rows) == \A t, u \in rows : t.start = u.start => t = u

\* An account's rates follow each other inside the ranges of their versions; so
\* do its thresholds of one plan and season; a threshold begins with a rate, no
\* two with the same one, and the rate of a version with an allowance has its
\* threshold for as long as it lasts.
AccountSound(h) ==
    /\ Timeline(assignments[h])
    /\ \A a \in assignments[h] : AssignedInRange(a) /\ AllowanceOf(h, a)
    /\ \A t \in thresholds[h] : Begins(assignments[h], t.start) /\ t.start < t.end
    /\ \A t, u \in thresholds[h] : SameSeason(t, u) => Apart(t, u)
    /\ OneThresholdAStart(thresholds[h])

\* Versions are only appended.
VersionsKept ==
    /\ Len(versions) <= Len(versions')
    /\ \A j \in 1 .. Len(versions) : versions'[j] = versions[j]

\* Rows of the two tables can be cut.
LEMMA RowsCuttable ==
    ASSUME NEW s
    PROVE  /\ \A rows \in SUBSET AssignmentRows : Cuttable(rows, s)
           /\ \A rows \in SUBSET ThresholdRows : Cuttable(rows, s)
BY DEF Cuttable, AssignmentRows, ThresholdRows

\* The ranges on offer are not empty.
LEMMA RangeFacts ==
    /\ Horizon \in Nat /\ MaxVersions \in Nat
    /\ \A r \in Ranges : r.start \in Days /\ r.end \in 1 .. NoEnd /\ r.start < r.end
                         /\ r.start \in Nat /\ r.end \in Nat
BY WorkflowAssumption DEF Ranges, Days, NoEnd

\* The rows of an account after replace_rate_assignment.
LEMMA AssignedRows ==
    ASSUME RatesTyped, NEW h \in Homes, AccountSound(h),
           NEW v \in 1 .. MaxVersions, NEW range \in Ranges,
           \A a \in assignments[h] : a.version # v, Assignable(h, v, range)
    PROVE  /\ ~Begins(assignments[h], range.start)
           /\ NewAssignments(h, v, range) =
                 Clipped(assignments[h], range.start) \cup
                 {[version |-> v, start |-> range.start, end |-> AssignedEnd(h, range)]}
           /\ Timeline(NewAssignments(h, v, range))
           /\ NewAssignments(h, v, range) \subseteq AssignmentRows
           /\ AssignedEnd(h, range) \in Nat
           /\ range.start < AssignedEnd(h, range) /\ AssignedEnd(h, range) <= range.end
           /\ \A a \in assignments[h] : a.start > range.start => AssignedEnd(h, range) <= a.start
           /\ \/ AssignedEnd(h, range) = range.end
              \/ \E a \in assignments[h] :
                    a.start > range.start /\ AssignedEnd(h, range) = a.start
<1> DEFINE A == assignments[h]
           s == range.start
           e == AssignedEnd(h, range)
           new == [version |-> v, start |-> s, end |-> e]
<1>1. A \subseteq AssignmentRows /\ Timeline(A) /\ Cuttable(A, s)
  BY RowsCuttable DEF RatesTyped, AccountSound
<1>2. s \in Days /\ s \in Nat /\ range.end \in Nat /\ range.end \in 1 .. NoEnd /\ s < range.end
  BY RangeFacts
<1>3. ~Begins(A, s)
  BY DEF Begins, Assignable
<1>4. /\ e \in Nat /\ s < e /\ e <= range.end
      /\ \A r \in A : r.start > s => e <= r.start
      /\ e = range.end \/ \E r \in A : r.start > s /\ e = r.start
  BY <1>1, <1>2, ClippedEndIs DEF AssignedEnd
<1>5. NewAssignments(h, v, range) = Clipped(A, s) \cup {new}
  BY <1>3 DEF NewAssignments, Begins
<1>6. Timeline(Clipped(A, s) \cup {new})
  <2>1. new.start = s /\ new.end = ClippedEnd(A, s, range.end)
    BY DEF AssignedEnd
  <2> HIDE DEF new, A, s
  <2>2. QED
    BY <1>1, <1>2, <1>3, <2>1, Inserted
<1>7. new \in AssignmentRows
  BY <1>2, <1>4, RangeFacts DEF AssignmentRows, NoEnd, Days
<1>8. Clipped(A, s) \subseteq AssignmentRows
  BY <1>1, <1>2, RangeFacts DEF Clipped, AssignmentRows, NoEnd, Days
<1>9. QED
  BY <1>3, <1>4, <1>5, <1>6, <1>7, <1>8

\* The thresholds of an account after replace_utility_account_tier_threshold: a
\* threshold begins with a rate, so none begins where a new rate does.
LEMMA AllowedRows ==
    ASSUME RatesTyped, NEW h \in Homes, AccountSound(h), NEW p \in Plans, NEW rule \in AnyRule,
           NEW s \in Days, NEW e \in Nat, s < e, e <= NoEnd,
           ~Begins(assignments[h], s),
           \A a \in assignments[h] : a.start > s => e <= a.start
    PROVE  LET scope == SameScope(h, p, rule)
               new == [plan |-> p, rule |-> rule, start |-> s, end |-> e]
           IN  /\ NewThresholds(h, p, rule, s, e) =
                     (thresholds[h] \ scope) \cup Clipped(scope, s) \cup {new}
               /\ NewThresholds(h, p, rule, s, e) \subseteq ThresholdRows
               /\ Timeline(scope) /\ Cuttable(scope, s)
               /\ Timeline(Clipped(scope, s) \cup {new})
<1> DEFINE scope == SameScope(h, p, rule)
           new == [plan |-> p, rule |-> rule, start |-> s, end |-> e]
<1>1. scope \subseteq thresholds[h] /\ thresholds[h] \subseteq ThresholdRows
  BY DEF SameScope, RatesTyped
<1>2. Cuttable(scope, s)
  BY <1>1, RowsCuttable
<1>3. Timeline(scope)
  <2>1. \A t \in scope : t.start \in Nat /\ t.end \in Nat /\ t.start < t.end
    BY <1>1, RangeFacts DEF AccountSound, ThresholdRows, Days, NoEnd
  <2>2. \A t, u \in scope : Apart(t, u)
    BY <1>1 DEF SameScope, AccountSound, SameSeason
  <2>3. QED
    BY <2>1, <2>2 DEF Timeline
<1>4. ~Begins(scope, s) /\ \A t \in scope : t.start > s => e <= t.start
  BY <1>1 DEF AccountSound, Begins
<1>5. s \in Nat
  BY RangeFacts DEF Days
<1>6. ClippedEnd(scope, s, e) = e
  BY <1>3, <1>4, <1>5, ClippedEndIs
<1>7. NewThresholds(h, p, rule, s, e) = (thresholds[h] \ scope) \cup Clipped(scope, s) \cup {new}
  BY <1>4, <1>6 DEF NewThresholds, NewThreshold, Begins
<1>8. Timeline(Clipped(scope, s) \cup {new})
  <2>1. new.start = s /\ new.end = ClippedEnd(scope, s, e)
    BY <1>6
  <2> HIDE DEF new, scope
  <2>2. QED
    BY <1>2, <1>3, <1>4, <1>5, <2>1, Inserted
<1>9. new \in ThresholdRows
  BY RangeFacts DEF ThresholdRows, NoEnd, Days
<1>10. Clipped(scope, s) \subseteq ThresholdRows
  <2>1. s \in 0 .. Horizon
    BY DEF Days
  <2>2. QED
    BY <1>1, <2>1, RangeFacts DEF Clipped, ThresholdRows, NoEnd, Days
<1>11. QED
  BY <1>1, <1>2, <1>3, <1>7, <1>8, <1>9, <1>10

\* The rates of an account after an assignment lie in their versions.
LEMMA AssignKeepsRates ==
    ASSUME RatesTyped, NEW h \in Homes, AccountSound(h),
           NEW v \in 1 .. MaxVersions, NEW range \in Ranges, VersionsKept,
           v \in 1 .. Len(versions'), versions'[v].range = range,
           \A a \in assignments[h] : a.version # v, Assignable(h, v, range),
           assignments'[h] = NewAssignments(h, v, range)
    PROVE  \A a \in assignments'[h] : AssignedInRange(a)'
<1> DEFINE A == assignments[h]
           s == range.start
           e == AssignedEnd(h, range)
           new == [version |-> v, start |-> s, end |-> e]
<1>1. /\ assignments'[h] = Clipped(A, s) \cup {new}
      /\ s < e /\ e <= range.end
  BY AssignedRows
<1>2. ASSUME NEW a, a = new
      PROVE  AssignedInRange(a)'
  <2>1. /\ a.version = v /\ a.start = s /\ a.end = e
        /\ range.start <= s
    BY <1>2, RangeFacts
  <2> HIDE DEF new, s, e
  <2>2. QED
    BY <1>1, <2>1 DEF AssignedInRange
<1>3. ASSUME NEW a \in Clipped(A, s)
      PROVE  AssignedInRange(a)'
  <2>1. PICK r \in A : a = Cut(r, s)
    BY ClippedRow
  <2>2. AssignedInRange(r) /\ r \in AssignmentRows
    BY DEF AccountSound, RatesTyped
  <2>3. Timeline(A) /\ Cuttable(A, s) /\ s \in Nat
    BY RowsCuttable, RangeFacts DEF AccountSound, RatesTyped
  <2>4. /\ a.start = r.start
        /\ a.end = IF r.start < s /\ r.end > s THEN s ELSE r.end
    BY <2>1, <2>3, CutIs
  <2>5. a.version = r.version
    BY <2>1, <2>2 DEF Cut, AssignmentRows
  <2>6. versions'[r.version] = versions[r.version] /\ r.version \in 1 .. Len(versions')
    BY <2>2 DEF VersionsKept, AssignedInRange, RatesTyped
  <2>7. r.version \in 1 .. Len(versions) /\ versions[r.version] \in VersionRows
    BY <2>2 DEF AssignedInRange, RatesTyped
  <2>8. versions[r.version].range.end \in Nat
    BY <2>7, RangeFacts DEF VersionRows
  <2>9. a.end <= r.end /\ r.end \in Nat /\ a.end \in Nat
    BY <2>3, <2>4 DEF Timeline
  <2>10. QED
    BY <2>2, <2>4, <2>5, <2>6, <2>8, <2>9 DEF AssignedInRange
<1>4. QED
  BY <1>1, <1>2, <1>3

\* The threshold row of an account that replace_utility_account_tier_threshold
\* leaves, cuts or adds.
KeepsThreshold(h, s, t, u) ==
    /\ t \in thresholds[h] /\ u \in thresholds'[h]
    /\ u.plan = t.plan /\ u.rule = t.rule /\ u.start = t.start
    /\ u.end = t.end \/ (t.start < s /\ s < t.end /\ u.end = s)

\* Every threshold there was is there, perhaps cut at the new start.
ThresholdsCut(h, s) == \A t \in thresholds[h] : \E u \in thresholds'[h] : KeepsThreshold(h, s, t, u)
\* Every threshold there is was there, or is the new one.
ThresholdsFrom(h, s) ==
    \A u \in thresholds'[h] : u.start = s \/ \E t \in thresholds[h] : KeepsThreshold(h, s, t, u)

\* The thresholds of an account after replace_threshold_assignment.
LEMMA ThresholdRowsOf ==
    ASSUME RatesTyped, NEW h \in Homes, AccountSound(h), NEW p \in Plans, NEW rule \in AnyRule,
           NEW s \in Days, NEW e \in Nat, s < e, e <= NoEnd,
           ~Begins(assignments[h], s),
           \A a \in assignments[h] : a.start > s => e <= a.start,
           thresholds'[h] = NewThresholds(h, p, rule, s, e)
    PROVE  /\ ThresholdsCut(h, s) /\ ThresholdsFrom(h, s)
           /\ thresholds'[h] \subseteq ThresholdRows
           /\ [plan |-> p, rule |-> rule, start |-> s, end |-> e] \in thresholds'[h]
           /\ \A t, u \in thresholds'[h] : SameSeason(t, u) => Apart(t, u)
           /\ \A t \in thresholds'[h] : t.start < t.end
           /\ OneThresholdAStart(thresholds'[h])
<1> DEFINE scope == SameScope(h, p, rule)
           new == [plan |-> p, rule |-> rule, start |-> s, end |-> e]
           TH == thresholds[h]
<1>1. /\ thresholds'[h] = (TH \ scope) \cup Clipped(scope, s) \cup {new}
      /\ thresholds'[h] \subseteq ThresholdRows
      /\ Timeline(scope) /\ Cuttable(scope, s)
      /\ Timeline(Clipped(scope, s) \cup {new})
  BY AllowedRows, SMTT(30)
<1>2. scope \subseteq TH /\ TH \subseteq ThresholdRows /\ s \in Nat
  BY RangeFacts DEF SameScope, RatesTyped, Days
<1>3. ASSUME NEW t \in scope
      PROVE  /\ Cut(t, s) \in Clipped(scope, s)
             /\ KeepsThreshold(h, s, t, Cut(t, s))
  <2>1. Cut(t, s) \in Clipped(scope, s)
    BY RowClipped
  <2>2. /\ Cut(t, s).start = t.start
        /\ Cut(t, s).end = IF t.start < s /\ t.end > s THEN s ELSE t.end
    BY <1>1, <1>2, CutIs
  <2>3. Cut(t, s).plan = t.plan /\ Cut(t, s).rule = t.rule
    BY <1>2 DEF Cut, ThresholdRows
  <2>4. t.start \in Nat /\ t.end \in Nat
    BY <1>1 DEF Timeline
  <2>5. Cut(t, s) \in thresholds'[h] /\ t \in thresholds[h]
    BY <1>1, <1>2, <2>1
  <2> HIDE DEF TH, scope, new
  <2>6. QED
    BY <2>1, <2>2, <2>3, <2>4, <2>5 DEF KeepsThreshold
<1>4. ASSUME NEW t \in TH \ scope
      PROVE  t \in thresholds'[h] /\ KeepsThreshold(h, s, t, t)
  BY <1>1 DEF KeepsThreshold
<1>5. ThresholdsCut(h, s)
  <2> SUFFICES ASSUME NEW t \in thresholds[h]
               PROVE  \E u \in thresholds'[h] : KeepsThreshold(h, s, t, u)
    BY DEF ThresholdsCut
  <2>1. CASE t \in scope
    BY <1>1, <1>3, <2>1
  <2>2. CASE t \notin scope
    BY <1>4, <2>2
  <2>3. QED
    BY <2>1, <2>2
<1>6. ThresholdsFrom(h, s)
  <2> SUFFICES ASSUME NEW u \in thresholds'[h], u # new
               PROVE  \E t \in thresholds[h] : KeepsThreshold(h, s, t, u)
    BY DEF ThresholdsFrom
  <2>1. CASE u \in Clipped(scope, s)
    <3>1. PICK t \in scope : u = Cut(t, s)
      BY <2>1, ClippedRow
    <3>2. QED
      BY <1>2, <1>3, <3>1
  <2>2. CASE u \in TH \ scope
    BY <1>4, <2>2
  <2>3. QED
    BY <1>1, <2>1, <2>2
<1>7. \A u \in Clipped(scope, s) \cup {new} : u.plan = p /\ u.rule.season = rule.season
  <2>1. ASSUME NEW u \in Clipped(scope, s)
        PROVE  u.plan = p /\ u.rule.season = rule.season
    <3>1. PICK t \in scope : u = Cut(t, s)
      BY ClippedRow
    <3>2. u.plan = t.plan /\ u.rule = t.rule
      BY <1>3, <3>1 DEF KeepsThreshold
    <3>3. QED
      BY <3>2 DEF SameScope
  <2>2. QED
    BY <2>1
<1>8. \A u \in TH \ scope : ~(u.plan = p /\ u.rule.season = rule.season)
  BY DEF SameScope
<1>9. ASSUME NEW t \in thresholds'[h], NEW u \in thresholds'[h], SameSeason(t, u)
      PROVE  Apart(t, u)
  <2> HIDE DEF TH, scope, new
  <2>1. CASE t \in TH \ scope /\ u \in TH \ scope
    BY <1>9, <2>1 DEF AccountSound, TH
  <2>2. CASE t \in Clipped(scope, s) \cup {new} /\ u \in Clipped(scope, s) \cup {new}
    BY <1>1, <2>2 DEF Timeline
  <2>3. QED
    BY <1>1, <1>7, <1>8, <1>9, <2>1, <2>2 DEF SameSeason
<1>10. ASSUME NEW t \in thresholds'[h] PROVE t.start < t.end
  <2>1. CASE t \in TH \ scope
    BY <2>1 DEF AccountSound
  <2>2. CASE t \in Clipped(scope, s) \cup {new}
    BY <1>1, <2>2 DEF Timeline
  <2>3. QED
    BY <1>1, <2>1, <2>2
<1>11. OneThresholdAStart(thresholds'[h])
  <2> DEFINE Row(t) == IF t \in scope THEN Cut(t, s) ELSE t
  <2>1. ASSUME NEW u \in thresholds'[h], u # new
        PROVE  \E t \in TH : u = Row(t) /\ u.start = t.start /\ t.start # s
    <3>1. \A t \in TH : t.start # s
      BY DEF AccountSound, Begins
    <3>2. CASE u \in Clipped(scope, s)
      <4>1. PICK t \in scope : u = Cut(t, s)
        BY <3>2, ClippedRow
      <4>2. u.start = t.start
        BY <1>3, <4>1 DEF KeepsThreshold
      <4>3. QED
        BY <1>2, <3>1, <4>1, <4>2
    <3>3. CASE u \in TH \ scope
      BY <3>1, <3>3
    <3>4. QED
      BY <1>1, <2>1, <3>2, <3>3
  <2>2. new.start = s
    OBVIOUS
  <2>3. OneThresholdAStart(TH)
    BY DEF AccountSound
  <2> HIDE DEF TH, scope, new, Row
  <2> SUFFICES ASSUME NEW t \in thresholds'[h], NEW u \in thresholds'[h], t.start = u.start
               PROVE  t = u
    BY DEF OneThresholdAStart
  <2>4. CASE t = new \/ u = new
    BY <2>1, <2>2, <2>4
  <2>5. CASE t # new /\ u # new
    <3>1. PICK x \in TH : t = Row(x) /\ t.start = x.start
      BY <2>1, <2>5
    <3>2. PICK y \in TH : u = Row(y) /\ u.start = y.start
      BY <2>1, <2>5
    <3>3. x = y
      BY <2>3, <3>1, <3>2 DEF OneThresholdAStart
    <3>4. QED
      BY <3>1, <3>2, <3>3
  <2>6. QED
    BY <2>4, <2>5
<1>12. QED
  BY <1>1, <1>5, <1>6, <1>9, <1>10, <1>11

\* An assignment keeps its account sound.
LEMMA AssignKeepsAccount ==
    ASSUME RatesTyped, NEW h \in Homes, AccountSound(h),
           NEW v \in 1 .. MaxVersions, NEW range \in Ranges, NEW p \in Plans,
           NEW rule \in AnyRule \cup {NoRule}, VersionsKept,
           v \in 1 .. Len(versions'), versions'[v].range = range,
           versions'[v].plan = p, versions'[v].rule = rule,
           \A a \in assignments[h] : a.version # v, Assign(h, v, p, range, rule)
    PROVE  /\ AccountSound(h)'
           /\ assignments'[h] \subseteq AssignmentRows
           /\ thresholds'[h] \subseteq ThresholdRows
<1> DEFINE A == assignments[h]
           s == range.start
           e == AssignedEnd(h, range)
<1>1. Assignable(h, v, range) /\ assignments'[h] = NewAssignments(h, v, range)
  BY DEF Assign, RatesTyped
<1>2. /\ ~Begins(A, s)
      /\ assignments'[h] = Clipped(A, s) \cup {[version |-> v, start |-> s, end |-> e]}
      /\ Timeline(assignments'[h])
      /\ assignments'[h] \subseteq AssignmentRows
      /\ e \in Nat /\ s < e /\ e <= range.end
      /\ \A a \in A : a.start > s => e <= a.start
  BY <1>1, AssignedRows
<1>3. s \in Days /\ s \in Nat /\ e <= NoEnd
  BY <1>2, RangeFacts DEF NoEnd
<1>4. \A a \in assignments'[h] : AssignedInRange(a)'
  BY <1>1, AssignKeepsRates
<1>5. Timeline(A) /\ Cuttable(A, s) /\ A \subseteq AssignmentRows
  BY RowsCuttable DEF AccountSound, RatesTyped
<1>6. /\ ThresholdsCut(h, s) /\ ThresholdsFrom(h, s)
      /\ thresholds'[h] \subseteq ThresholdRows
      /\ rule # NoRule => [plan |-> p, rule |-> rule, start |-> s, end |-> e] \in thresholds'[h]
      /\ \A t, u \in thresholds'[h] : SameSeason(t, u) => Apart(t, u)
      /\ \A t \in thresholds'[h] : t.start < t.end
      /\ OneThresholdAStart(thresholds'[h])
  <2>1. CASE rule = NoRule
    <3>1. thresholds' = thresholds
      BY <2>1 DEF Assign
    <3>2. \A t \in thresholds[h] : KeepsThreshold(h, s, t, t)
      BY <3>1 DEF KeepsThreshold
    <3>3. ThresholdsCut(h, s) /\ ThresholdsFrom(h, s)
      BY <3>1, <3>2 DEF ThresholdsCut, ThresholdsFrom
    <3>4. /\ thresholds'[h] \subseteq ThresholdRows
          /\ \A t, u \in thresholds'[h] : SameSeason(t, u) => Apart(t, u)
          /\ \A t \in thresholds'[h] : t.start < t.end
          /\ OneThresholdAStart(thresholds'[h])
      BY <3>1 DEF AccountSound, RatesTyped
    <3>5. QED
      BY <2>1, <3>3, <3>4
  <2>2. CASE rule # NoRule
    <3>1. rule \in AnyRule
      BY <2>2
    <3>2. thresholds'[h] = NewThresholds(h, p, rule, s, e)
      BY <2>2 DEF Assign, RatesTyped
    <3> HIDE DEF A, s, e
    <3>3. QED
      BY <1>2, <1>3, <3>1, <3>2, ThresholdRowsOf DEF A
  <2>3. QED
    BY <2>1, <2>2
<1>7. \A r \in A : Cut(r, s) \in assignments'[h] /\ Cut(r, s).start = r.start
  BY <1>2, <1>3, <1>5, RowClipped, CutIs
<1>8. \A t \in thresholds'[h] : Begins(assignments'[h], t.start)
  <2> SUFFICES ASSUME NEW u \in thresholds'[h]
               PROVE  Begins(assignments'[h], u.start)
    OBVIOUS
  <2>1. CASE u.start = s
    <3>1. PICK n \in assignments'[h] : n = [version |-> v, start |-> s, end |-> e]
      BY <1>2
    <3>2. n.start = s
      BY <3>1
    <3>3. QED
      BY <2>1, <3>2 DEF Begins
  <2>2. CASE u.start # s
    <3>1. PICK t \in thresholds[h] : u.start = t.start
      BY <1>6, <2>2 DEF ThresholdsFrom, KeepsThreshold
    <3>2. PICK r \in A : r.start = t.start
      BY DEF AccountSound, Begins
    <3>3. QED
      BY <1>7, <3>1, <3>2 DEF Begins
  <2>3. QED
    BY <2>1, <2>2
<1>9. ASSUME NEW a \in assignments'[h]
      PROVE  AllowanceOf(h, a)'
  <2>1. CASE a = [version |-> v, start |-> s, end |-> e]
    <3>1. a.version = v /\ a.start = s /\ a.end = e
      BY <2>1
    <3>2. CASE rule = NoRule
      BY <3>1, <3>2 DEF AllowanceOf
    <3>3. CASE rule # NoRule
      <4>1. PICK t \in thresholds'[h] : t = [plan |-> p, rule |-> rule, start |-> s, end |-> e]
        BY <1>6, <3>3
      <4>2. t.plan = p /\ t.rule = rule /\ t.start = s /\ t.end = e /\ e <= e
        BY <1>2, <4>1
      <4> HIDE DEF s, e
      <4>3. QED
        BY <3>1, <4>2 DEF AllowanceOf
    <3>4. QED
      BY <3>2, <3>3
  <2>2. CASE a \in Clipped(A, s)
    <3>1. PICK r \in A : a = Cut(r, s)
      BY <2>2, ClippedRow
    <3>2. /\ a.start = r.start
          /\ a.end = IF r.start < s /\ r.end > s THEN s ELSE r.end
      BY <1>3, <1>5, <3>1, CutIs
    <3>3. a.version = r.version
      BY <1>5, <3>1 DEF Cut, AssignmentRows
    <3>4. versions'[r.version] = versions[r.version]
      BY DEF VersionsKept, AccountSound, AssignedInRange
    <3>5. r.start \in Nat /\ r.end \in Nat /\ r.start < r.end
      BY <1>5 DEF Timeline
    <3>6. CASE versions[r.version].rule = NoRule
      BY <3>3, <3>4, <3>6 DEF AllowanceOf
    <3>7. CASE versions[r.version].rule # NoRule
      <4>1. PICK t \in thresholds[h] : /\ t.plan = versions[r.version].plan
                                       /\ t.rule = versions[r.version].rule
                                       /\ t.start = r.start /\ r.end <= t.end
        BY <3>7 DEF AccountSound, AllowanceOf
      <4>2. PICK u \in thresholds'[h] : KeepsThreshold(h, s, t, u)
        BY <1>6 DEF ThresholdsCut
      <4>3. t.end \in Nat
        BY RangeFacts DEF RatesTyped, ThresholdRows, NoEnd
      <4>4. a.end <= u.end
        BY <1>3, <3>2, <3>5, <4>1, <4>2, <4>3 DEF KeepsThreshold
      <4>5. /\ u.plan = versions'[a.version].plan
            /\ u.rule = versions'[a.version].rule /\ u.start = a.start
        BY <3>2, <3>3, <3>4, <4>1, <4>2 DEF KeepsThreshold
      <4>6. QED
        BY <4>4, <4>5 DEF AllowanceOf
    <3>8. QED
      BY <3>6, <3>7
  <2>3. QED
    BY <1>2, <2>1, <2>2
<1>10. QED
  BY <1>2, <1>4, <1>6, <1>8, <1>9 DEF AccountSound

\* What is outside the account that is assigned to keeps its rates.
LEMMA OtherAccountKept ==
    ASSUME RatesTyped, NEW h \in Homes, AccountSound(h), VersionsKept,
           assignments'[h] = assignments[h], thresholds'[h] = thresholds[h]
    PROVE  AccountSound(h)'
<1>1. ASSUME NEW a \in assignments[h]
      PROVE  AssignedInRange(a)' /\ AllowanceOf(h, a)'
  <2>1. AssignedInRange(a) /\ AllowanceOf(h, a)
    BY DEF AccountSound
  <2>2. versions'[a.version] = versions[a.version] /\ a.version \in 1 .. Len(versions')
    BY <2>1 DEF VersionsKept, AssignedInRange, RatesTyped
  <2>3. QED
    BY <2>1, <2>2 DEF AssignedInRange, AllowanceOf
<1>2. QED
  BY <1>1 DEF AccountSound

--------------------------------------------------------------------------------
(* Prices *)

\* The price that is selected, and the one the worker is about to select, is that
\* of the rate that covers the interval, but for a race.
PricesSound ==
    /\ PricedAsAssigned
    /\ \A p, q \in pricing : p = q
    /\ \A p \in pricing :
          /\ selected[p.home][p.interval] = 0
          /\ <<p.home, p.interval>> \notin raced =>
                 \A a \in Covering(p.home, p.interval) : a.version = p.version

\* The rates that cover an interval of an account whose assignments stay.
LEMMA CoveringKept ==
    ASSUME RatesTyped, VersionsKept, NEW h \in Homes, AccountSound(h), NEW i \in Intervals,
           assignments'[h] = assignments[h]
    PROVE  Covering(h, i)' = Covering(h, i)
<1>1. \A a \in assignments[h] : versions'[a.version] = versions[a.version]
  BY DEF VersionsKept, AccountSound, AssignedInRange
<1>2. QED
  BY <1>1 DEF Covering

\* Outside the range of a new assignment, the rates that cover an interval are old ones.
LEMMA CoveringAssigned ==
    ASSUME RatesTyped, NEW h \in Homes, AccountSound(h),
           NEW v \in 1 .. MaxVersions, NEW range \in Ranges, VersionsKept,
           \A a \in assignments[h] : a.version # v, Assignable(h, v, range),
           assignments'[h] = NewAssignments(h, v, range),
           NEW i \in Intervals, i \notin Affected(range, AssignedEnd(h, range)),
           NEW a \in Covering(h, i)'
    PROVE  \E r \in Covering(h, i) : r.version = a.version
<1> DEFINE A == assignments[h]
           s == range.start
           e == AssignedEnd(h, range)
<1>1. /\ assignments'[h] = Clipped(A, s) \cup {[version |-> v, start |-> s, end |-> e]}
      /\ e \in Nat
  BY AssignedRows
<1>2. /\ a \in assignments'[h] /\ a.start <= i.start /\ i.end <= a.end
      /\ versions'[a.version].range.start <= i.start
      /\ i.end <= versions'[a.version].range.end
  BY DEF Covering
<1>3. i.start \in Nat /\ i.end \in Nat /\ s \in Nat
  BY WorkflowAssumption, RangeFacts
<1>4. a # [version |-> v, start |-> s, end |-> e]
  BY <1>1, <1>2, <1>3 DEF Affected
<1>5. PICK r \in A : a = Cut(r, s)
  BY <1>1, <1>2, <1>4, ClippedRow
<1>6. Timeline(A) /\ Cuttable(A, s) /\ A \subseteq AssignmentRows
  BY RowsCuttable DEF AccountSound, RatesTyped
<1>7. /\ a.start = r.start
      /\ a.end = IF r.start < s /\ r.end > s THEN s ELSE r.end
  BY <1>3, <1>5, <1>6, CutIs
<1>8. a.version = r.version
  BY <1>5, <1>6 DEF Cut, AssignmentRows
<1>9. versions'[r.version] = versions[r.version]
  BY DEF VersionsKept, AccountSound, AssignedInRange
<1>10. i.end <= r.end
  BY <1>2, <1>3, <1>6, <1>7 DEF Timeline
<1>11. r \in Covering(h, i)
  BY <1>2, <1>7, <1>8, <1>9, <1>10 DEF Covering
<1>12. QED
  BY <1>8, <1>11

\* An assignment withdraws or marks every price it makes wrong.
LEMMA AssignKeepsPrices ==
    ASSUME RatesTyped, \A g \in Homes : AccountSound(g), PricesSound, NEW h \in Homes,
           NEW v \in 1 .. MaxVersions, NEW range \in Ranges, NEW p, NEW rule, VersionsKept,
           \A a \in assignments[h] : a.version # v, Assign(h, v, p, range, rule),
           pricing' = pricing
    PROVE  /\ PricesSound'
           /\ selected' \in [Homes -> [Intervals -> 0 .. MaxVersions]]
           /\ raced' \subseteq Homes \X Intervals
<1> DEFINE e == AssignedEnd(h, range)
           hit == Affected(range, e)
<1>1. /\ Assignable(h, v, range) /\ assignments'[h] = NewAssignments(h, v, range)
      /\ \A g \in Homes \ {h} : assignments'[g] = assignments[g]
  BY DEF Assign, RatesTyped
<1>2. hit \subseteq Intervals
  BY DEF Affected
<1>3. ASSUME NEW g \in Homes, NEW i \in Intervals, ~(g = h /\ i \in hit),
             NEW a \in Covering(g, i)'
      PROVE  \E r \in Covering(g, i) : r.version = a.version
  <2>1. CASE g = h
    BY <1>1, <1>3, <2>1, CoveringAssigned
  <2>2. CASE g # h
    BY <1>1, <1>3, <2>2, CoveringKept
  <2>3. QED
    BY <2>1, <2>2
<1>a. PICK kept \in SUBSET PricedMeanwhile(h, range, e) :
        /\ selected' = [selected EXCEPT ![h] = Withdrawn(h, range, e, kept)]
        /\ raced' = (raced \ {<<h, i>> : i \in hit}) \cup
                    Overtaken(h, range, e) \cup {<<h, i>> : i \in kept}
  BY DEF Assign
<1>b. kept \subseteq hit /\ (pricing # {} => kept = {})
  BY DEF PricedMeanwhile
<1>c. \A i \in kept : (CHOOSE a \in Covering(h, i) : TRUE).version \in 0 .. MaxVersions
  <2> SUFFICES ASSUME NEW i \in kept
               PROVE  (CHOOSE a \in Covering(h, i) : TRUE).version \in 0 .. MaxVersions
    OBVIOUS
  <2>1. \E a : a \in Covering(h, i)
    <3>1. Cardinality(Covering(h, i)) = 1
      BY DEF PricedMeanwhile
    <3>2. QED
      BY <3>1, FS_EmptySet
  <2>2. (CHOOSE a \in Covering(h, i) : TRUE) \in Covering(h, i)
    BY <2>1
  <2>3. Covering(h, i) \subseteq AssignmentRows
    BY DEF Covering, RatesTyped
  <2>4. QED
    BY <2>2, <2>3, RangeFacts DEF AssignmentRows
<1>4. /\ \A i \in hit \ kept : selected'[h][i] = 0
      /\ \A i \in Intervals \ hit : selected'[h][i] = selected[h][i]
      /\ \A g \in Homes \ {h} : selected'[g] = selected[g]
      /\ selected' \in [Homes -> [Intervals -> 0 .. MaxVersions]]
  <2> DEFINE old(i) == (CHOOSE a \in Covering(h, i) : TRUE).version
  <2>1. Withdrawn(h, range, e, kept)
          = [i \in Intervals |-> IF i \in kept THEN old(i)
                                 ELSE IF i \in hit THEN 0 ELSE selected[h][i]]
    BY DEF Withdrawn
  <2>2. \A i \in kept : old(i) \in 0 .. MaxVersions
    BY <1>c
  <2> HIDE DEF e, hit, old
  <2>3. Withdrawn(h, range, e, kept) \in [Intervals -> 0 .. MaxVersions]
    BY <2>1, <2>2, RangeFacts DEF RatesTyped
  <2>4. QED
    BY <1>2, <1>a, <1>b, <2>1, <2>3 DEF RatesTyped
<1>5. /\ \A g \in Homes, i \in Intervals :
            ~(g = h /\ i \in hit) => (<<g, i>> \in raced' <=> <<g, i>> \in raced)
      /\ \A q \in pricing : q.home = h /\ q.interval \in hit => <<q.home, q.interval>> \in raced'
      /\ \A i \in kept : <<h, i>> \in raced'
      /\ raced' \subseteq Homes \X Intervals
  <2>1. /\ raced' = (raced \ {<<h, i>> : i \in hit}) \cup Overtaken(h, range, e) \cup
                    {<<h, i>> : i \in kept}
        /\ kept \subseteq hit
    BY <1>a, <1>b
  <2>2. Overtaken(h, range, e) = {<<q.home, q.interval>> : q \in {x \in pricing : x.home = h /\ x.interval \in hit}}
    BY DEF Overtaken
  <2>3. \A q \in pricing : q.home \in Homes /\ q.interval \in Intervals
    BY DEF RatesTyped, Prices
  <2> HIDE DEF e, hit
  <2>4. QED
    BY <1>2, <2>1, <2>2, <2>3 DEF RatesTyped
<1>6. PricedAsAssigned'
  <2> SUFFICES ASSUME NEW g \in Homes, NEW i \in Intervals,
                      selected'[g][i] # 0, <<g, i>> \notin raced',
                      NEW a \in Covering(g, i)'
               PROVE  a.version = selected'[g][i]
    BY DEF PricedAsAssigned
  <2>1. ~(g = h /\ i \in hit)
    BY <1>4, <1>5
  <2>2. selected'[g][i] = selected[g][i] /\ <<g, i>> \notin raced
    BY <1>4, <1>5, <2>1
  <2>3. PICK r \in Covering(g, i) : r.version = a.version
    BY <1>3, <2>1
  <2>4. QED
    BY <2>2, <2>3 DEF PricesSound, PricedAsAssigned
<1>7. ASSUME NEW q \in pricing
      PROVE  /\ selected'[q.home][q.interval] = 0
             /\ <<q.home, q.interval>> \notin raced' =>
                   \A a \in Covering(q.home, q.interval)' : a.version = q.version
  <2>1. q.home \in Homes /\ q.interval \in Intervals
    BY DEF RatesTyped, Prices
  <2>2. selected[q.home][q.interval] = 0
    BY DEF PricesSound
  <2>3. selected'[q.home][q.interval] = 0
    BY <1>4, <1>b, <2>1, <2>2
  <2>4. ASSUME <<q.home, q.interval>> \notin raced', NEW a \in Covering(q.home, q.interval)'
        PROVE  a.version = q.version
    <3>1. ~(q.home = h /\ q.interval \in hit)
      BY <1>5, <2>4
    <3>2. <<q.home, q.interval>> \notin raced
      BY <1>5, <2>1, <2>4, <3>1
    <3>3. PICK r \in Covering(q.home, q.interval) : r.version = a.version
      BY <1>3, <2>1, <3>1
    <3>4. QED
      BY <3>2, <3>3 DEF PricesSound
  <2>5. QED
    BY <2>3, <2>4
<1>8. \A x, y \in pricing' : x = y
  BY DEF PricesSound
<1>9. QED
  BY <1>4, <1>5, <1>6, <1>7, <1>8 DEF PricesSound

\* Prices stay right where no rate, price or race changes.
LEMMA QuietPrices ==
    ASSUME RatesTyped, \A g \in Homes : AccountSound(g), PricesSound, VersionsKept,
           assignments' = assignments, selected' = selected, pricing' = pricing, raced' = raced
    PROVE  PricesSound'
<1>1. \A g \in Homes, i \in Intervals : Covering(g, i)' = Covering(g, i)
  BY CoveringKept
<1>2. \A q \in pricing : q.home \in Homes /\ q.interval \in Intervals
  BY DEF RatesTyped, Prices
<1>3. PricedAsAssigned'
  BY <1>1 DEF PricesSound, PricedAsAssigned
<1>4. \A q \in pricing : Covering(q.home, q.interval)' = Covering(q.home, q.interval)
  BY <1>1, <1>2
<1>5. QED
  BY <1>3, <1>4 DEF PricesSound

--------------------------------------------------------------------------------
(* Version numbers *)

\* The versions of a plan, their numbers, and the numbers in order without a gap.
Mine(p) == {i \in DOMAIN versions : versions[i].plan = p}
Numbers(p) == {versions[i].number : i \in Mine(p)}
NumberedPlan(p) ==
    /\ Numbers(p) = 1 .. Cardinality(Mine(p))
    /\ \A i, j \in Mine(p) : i < j => versions[i].number < versions[j].number

\* Numbering is a matter of each plan.
LEMMA NumberedByPlan == VersionsNumberedInOrder <=> \A p \in Plans : NumberedPlan(p)
BY DEF VersionsNumberedInOrder, NumberedPlan, Numbers, Mine

\* The versions of a plan are counted.
LEMMA MineCounted ==
    ASSUME RatesTyped, NEW p
    PROVE  /\ IsFiniteSet(Mine(p)) /\ Cardinality(Mine(p)) \in Nat
           /\ Cardinality(Mine(p)) <= Len(versions)
<1>1. Len(versions) \in Nat /\ DOMAIN versions = 1 .. Len(versions)
  BY DEF RatesTyped
<1>2. IsFiniteSet(1 .. Len(versions)) /\ Cardinality(1 .. Len(versions)) = Len(versions)
  <2>1. /\ IsFiniteSet(1 .. Len(versions))
        /\ Cardinality(1 .. Len(versions)) =
              IF 1 > Len(versions) THEN 0 ELSE Len(versions) - 1 + 1
    BY <1>1, FS_Interval
  <2>2. QED
    BY <1>1, <2>1
<1>3. Mine(p) \subseteq 1 .. Len(versions)
  BY <1>1 DEF Mine
<1>4. QED
  BY <1>2, <1>3, FS_Subset, FS_CardinalityType

\* The next number is one more than there are versions of the plan.
LEMMA NextNumber ==
    ASSUME RatesTyped, NEW p \in Plans, NumberedPlan(p)
    PROVE  NextVersionNumber(p) = Cardinality(Mine(p)) + 1
<1> DEFINE k == Cardinality(Mine(p))
<1>1. k \in Nat
  BY MineCounted
<1>2. NextVersionNumber(p) = 1 + Max({0} \cup Numbers(p))
  BY DEF NextVersionNumber, Numbers, Mine
<1>3. Numbers(p) = 1 .. k
  BY DEF NumberedPlan
<1> HIDE DEF k
<1>4. {0} \cup (1 .. k) = 0 .. k
  BY <1>1
<1>5. Max(0 .. k) = k
  <2>1. k \in 0 .. k /\ \A y \in 0 .. k : k >= y
    BY <1>1
  <2>2. \A x \in 0 .. k : (\A y \in 0 .. k : x >= y) => x = k
    BY <1>1
  <2>3. QED
    BY <2>1, <2>2 DEF Max
<1>6. {0} \cup Numbers(p) = 0 .. k
  BY <1>3, <1>4
<1>7. Max({0} \cup Numbers(p)) = k
  BY <1>5, <1>6
<1>8. 1 + k = k + 1
  BY <1>1
<1>9. QED
  BY <1>2, <1>7, <1>8, Zenon DEF k

\* The numbers of a plan whose versions a step leaves alone.
LEMMA PlanUntouched ==
    ASSUME NEW p, Mine(p)' = Mine(p), \A i \in Mine(p) : versions'[i] = versions[i]
    PROVE  /\ NextVersionNumber(p)' = NextVersionNumber(p)
           /\ NumberedPlan(p)' <=> NumberedPlan(p)
<1>1. Numbers(p)' = Numbers(p)
  BY DEF Numbers
<1>2. NextVersionNumber(p) = 1 + Max({0} \cup Numbers(p))
  BY DEF NextVersionNumber, Numbers, Mine
<1>3. NextVersionNumber(p)' = 1 + Max({0} \cup Numbers(p)')
  BY DEF NextVersionNumber, Numbers, Mine
<1>4. QED
  BY <1>1, <1>2, <1>3 DEF NumberedPlan

\* A version committed with the number its publication drew.
LEMMA VersionAppended ==
    ASSUME RatesTyped, VersionsNumberedInOrder, NEW row \in VersionRows,
           row.number = NextVersionNumber(row.plan), versions' = Append(versions, row)
    PROVE  /\ VersionsNumberedInOrder' /\ VersionsKept
           /\ Len(versions') = Len(versions) + 1
           /\ versions'[Len(versions) + 1] = row
           /\ \A p \in Plans \ {row.plan} : NextVersionNumber(p)' = NextVersionNumber(p)
<1> DEFINE n == Len(versions) + 1
           pl == row.plan
<1>1. /\ versions \in Seq(VersionRows) /\ Len(versions) \in Nat /\ DOMAIN versions = 1 .. Len(versions)
      /\ Len(versions') = n /\ DOMAIN versions' = 1 .. n
      /\ versions'[n] = row /\ \A j \in 1 .. Len(versions) : versions'[j] = versions[j]
  BY DEF RatesTyped
<1>2. VersionsKept
  BY <1>1 DEF VersionsKept
<1>3. ASSUME NEW p \in Plans \ {pl}
      PROVE  NumberedPlan(p)' /\ NextVersionNumber(p)' = NextVersionNumber(p)
  <2>1. Mine(p)' = Mine(p)
    BY <1>1 DEF Mine
  <2>2. \A i \in Mine(p) : versions'[i] = versions[i]
    BY <1>1 DEF Mine
  <2>3. NumberedPlan(p)
    BY NumberedByPlan
  <2>4. QED
    BY <2>1, <2>2, <2>3, PlanUntouched
<1>4. NumberedPlan(pl)'
  <2> DEFINE k == Cardinality(Mine(pl))
  <2>1. pl \in Plans /\ NumberedPlan(pl)
    BY NumberedByPlan DEF VersionRows
  <2>2. IsFiniteSet(Mine(pl)) /\ k \in Nat
    BY MineCounted
  <2>3. row.number = k + 1
    BY <2>1, NextNumber
  <2>4. Mine(pl)' = Mine(pl) \cup {n} /\ n \notin Mine(pl)
    BY <1>1 DEF Mine
  <2>5. Cardinality(Mine(pl)') = k + 1
    BY <2>2, <2>4, FS_AddElement
  <2>6. \A i \in Mine(pl) : versions'[i] = versions[i] /\ i < n
    BY <1>1 DEF Mine
  <2>7. Numbers(pl)' = Numbers(pl) \cup {k + 1}
    <3>1. Numbers(pl)' = {versions'[i].number : i \in Mine(pl) \cup {n}}
      BY <2>4 DEF Numbers
    <3>2. versions'[n].number = k + 1
      BY <1>1, <2>3
    <3>3. QED
      BY <2>6, <3>1, <3>2, ZenonT(60) DEF Numbers
  <2>8. Numbers(pl) = 1 .. k
    BY <2>1 DEF NumberedPlan
  <2>9. Numbers(pl)' = 1 .. k + 1
    BY <2>2, <2>7, <2>8
  <2>10. \A i \in Mine(pl) : versions[i].number <= k /\ versions[i].number \in Nat
    <3>1. \A i \in Mine(pl) : versions[i].number \in Numbers(pl)
      BY DEF Numbers
    <3> HIDE DEF k
    <3>2. QED
      BY <2>2, <2>8, <3>1
  <2>11. ASSUME NEW i \in Mine(pl)', NEW j \in Mine(pl)', i < j
         PROVE  versions'[i].number < versions'[j].number
    <3>1. i \in Mine(pl)
      <4>1. i # n
        BY <1>1, <2>4, <2>6, <2>11 DEF Mine
      <4>2. QED
        BY <2>4, <4>1
    <3>2. CASE j \in Mine(pl)
      BY <2>1, <2>6, <2>11, <3>1, <3>2 DEF NumberedPlan
    <3>3. CASE j = n
      <4>1. versions'[j].number = k + 1 /\ versions'[i].number = versions[i].number
        BY <1>1, <2>3, <2>6, <3>1, <3>3
      <4> HIDE DEF k
      <4>2. QED
        BY <2>2, <2>10, <3>1, <4>1
    <3>4. QED
      BY <2>4, <3>2, <3>3
  <2>12. QED
    BY <2>5, <2>9, <2>11 DEF NumberedPlan
<1>5. VersionsNumberedInOrder'
  <2>1. \A p \in Plans : NumberedPlan(p)'
    BY <1>3, <1>4
  <2>2. QED
    BY <2>1 DEF VersionsNumberedInOrder, NumberedPlan, Numbers, Mine
<1>6. QED
  BY <1>1, <1>2, <1>3, <1>5

--------------------------------------------------------------------------------
(* Publications and reviews *)

\* A publication holds the number that is next, and the review it started from.
PublicationFits(q) ==
    /\ q.number = NextVersionNumber(q.plan)
    /\ q.candidate # 0 =>
          /\ q.candidate \in candidates
          /\ reviews[q.candidate][q.home].state = "reviewed"
          /\ q.range = reviews[q.candidate][q.home].range
          /\ q.rule = EffectiveRule(q.candidate, q.home)
\* Publications of one plan, or of one candidate, exclude each other.
Exclusive(q, r) == q.plan = r.plan \/ (q.candidate = r.candidate /\ q.candidate # 0) => q = r
\* Every open publication fits, excludes the others, and has room to commit.
PublicationsSound ==
    /\ IsFiniteSet(publishing)
    /\ Len(versions) + Cardinality(publishing) <= MaxVersions
    /\ \A q \in publishing : PublicationFits(q)
    /\ \A q, r \in publishing : Exclusive(q, r)

\* A review has a version from its publication on: one of its candidate, as
\* reviewed, and not assigned before it is activated.
ReviewSound(c, h) ==
    LET r == reviews[c][h]
    IN  /\ r.state \notin {"published", "activated"} => r.version = 0
        /\ r.state \in {"published", "activated"} =>
              /\ c \in candidates
              /\ r.version \in 1 .. Len(versions)
              /\ versions[r.version].candidate = c
              /\ versions[r.version].range = r.range
              /\ versions[r.version].rule = EffectiveRule(c, h)
        /\ r.state = "published" => \A a \in assignments[h] : a.version # r.version

\* The inductive invariant.
RateInv ==
    /\ RatesTyped
    /\ VersionsNumberedInOrder
    /\ PublicationsSound
    /\ \A c \in Candidates, h \in Homes : ReviewSound(c, h)
    /\ ProvenanceRetained
    /\ \A h \in Homes : AccountSound(h)
    /\ PricesSound

\* A step that leaves versions, rates and prices alone.
LEMMA RecordQuiet ==
    ASSUME RateInv,
           UNCHANGED <<versions, assignments, thresholds, selected, pricing, raced>>
    PROVE  /\ VersionsNumberedInOrder' /\ PricesSound'
           /\ \A h \in Homes : AccountSound(h)'
           /\ \A p : NextVersionNumber(p)' = NextVersionNumber(p)
           /\ VersionsKept
<1>1. VersionsKept
  BY DEF VersionsKept, RateInv, RatesTyped
<1>2. \A h \in Homes : AccountSound(h)'
  BY <1>1, OtherAccountKept DEF RateInv
<1>3. PricesSound'
  BY <1>1, QuietPrices DEF RateInv
<1>4. VersionsNumberedInOrder' /\ \A p : NextVersionNumber(p)' = NextVersionNumber(p)
  BY DEF RateInv, VersionsNumberedInOrder, NextVersionNumber
<1>5. QED
  BY <1>1, <1>2, <1>3, <1>4

\* Synchronisation, an entry by hand, and the steps of a bill before publication.
LEMMA CandidatesGrow ==
    ASSUME RateInv, RatesTyped', candidates \subseteq candidates',
           UNCHANGED <<reviews, versions, assignments, thresholds, selected,
                       publishing, pricing, raced>>
    PROVE  RateInv'
<1>1. /\ VersionsNumberedInOrder' /\ PricesSound'
      /\ \A h \in Homes : AccountSound(h)'
      /\ \A p : NextVersionNumber(p)' = NextVersionNumber(p)
  BY RecordQuiet
<1>2. \A c \in Candidates, h \in Homes : ReviewSound(c, h)'
  BY DEF RateInv, ReviewSound, EffectiveRule
<1>3. PublicationsSound'
  <2>1. \A q \in publishing : PublicationFits(q)'
    BY <1>1 DEF RateInv, PublicationsSound, PublicationFits, EffectiveRule
  <2>2. QED
    BY <2>1 DEF RateInv, PublicationsSound
<1>4. ProvenanceRetained'
  BY DEF RateInv, ProvenanceRetained
<1>5. QED
  BY <1>1, <1>2, <1>3, <1>4 DEF RateInv

\* A synchronisation run and an entry by hand.
LEMMA RecordSteps ==
    ASSUME RateInv, NEW c \in Candidates, NEW h \in Homes,
           RecordRun(c, h) \/ EnterCandidate(c, h)
    PROVE  RateInv'
<1>1. RatesTyped /\ candidates \subseteq candidates'
  BY DEF RateInv, RecordRun, EnterCandidate
<1>2. UNCHANGED <<reviews, bills, versions, assignments, thresholds,
                  selected, publishing, pricing, raced>>
  BY DEF RecordRun, EnterCandidate
<1>3. candidates' \subseteq Candidates
  BY <1>1 DEF RatesTyped, RecordRun, EnterCandidate
<1>4. seenBy' \in [Candidates -> SUBSET Homes]
  <2>1. seenBy \in [Candidates -> SUBSET Homes] /\ seenBy[c] \cup {h} \in SUBSET Homes /\ {h} \in SUBSET Homes
    BY <1>1 DEF RatesTyped
  <2>2. \E T \in SUBSET Homes : seenBy' = [seenBy EXCEPT ![c] = T]
    BY <2>1 DEF RecordRun, EnterCandidate
  <2>3. QED
    BY <2>1, <2>2
<1>5. RatesTyped'
  BY <1>1, <1>2, <1>3, <1>4 DEF RatesTyped
<1>6. QED
  BY <1>1, <1>2, <1>5, CandidatesGrow

\* A bill before its publication.
LEMMA BillSteps ==
    ASSUME RateInv, NEW h \in Homes, NEW d \in DOMAIN Documents,
           \/ \E complete \in BOOLEAN : ImportBill(h, d, complete)
           \/ CorrectBill(h, d)
           \/ DeleteBill(h, d)
    PROVE  RateInv'
<1>1. RatesTyped
  BY DEF RateInv
<1>2. bills' \in [Homes -> [DOMAIN Documents -> BillRows]]
  <2>1. CASE \E complete \in BOOLEAN : ImportBill(h, d, complete)
    <3>1. PICK complete \in BOOLEAN : ImportBill(h, d, complete)
      BY <2>1
    <3>2. [state |-> "review_required", complete |-> complete, version |-> 0] \in BillRows
      BY RangeFacts DEF BillRows
    <3>3. QED
      BY <1>1, <3>1, <3>2 DEF ImportBill, RatesTyped
  <2>2. CASE CorrectBill(h, d)
    <3>1. [bills[h][d] EXCEPT !.complete = TRUE] \in BillRows
      <4>1. bills[h][d] \in BillRows
        BY <1>1 DEF RatesTyped
      <4>2. QED
        BY <4>1 DEF BillRows
    <3>2. QED
      BY <1>1, <2>2, <3>1 DEF CorrectBill, RatesTyped
  <2>3. CASE DeleteBill(h, d)
    <3>1. NoBill \in BillRows
      BY RangeFacts DEF BillRows, NoBill
    <3>2. QED
      BY <1>1, <2>3, <3>1 DEF DeleteBill, RatesTyped
  <2>4. QED
    BY <2>1, <2>2, <2>3
<1>3. UNCHANGED <<candidates, seenBy, reviews, versions, assignments, thresholds,
                  selected, publishing, pricing, raced>>
  BY DEF ImportBill, CorrectBill, DeleteBill
<1>4. RatesTyped'
  BY <1>1, <1>2, <1>3 DEF RatesTyped
<1>5. QED
  BY <1>3, <1>4, CandidatesGrow

\* The review of one home changes, and not while it is being published.
LEMMA ReviewChanged ==
    ASSUME RateInv, NEW c \in Candidates, NEW h \in Homes, Unlocked(c),
           reviews[c][h].state \in {"none", "reviewed"},
           NEW row \in ReviewRows, row.state \in {"reviewed", "rejected"}, row.version = 0,
           reviews' = [reviews EXCEPT ![c][h] = row],
           UNCHANGED <<candidates, seenBy, bills, versions, assignments, thresholds,
                       selected, publishing, pricing, raced>>
    PROVE  RateInv'
<1>1. RatesTyped
  BY DEF RateInv
<1>2. /\ reviews' \in [Candidates -> [Homes -> ReviewRows]]
      /\ reviews'[c][h] = row
      /\ \A x \in Candidates, g \in Homes : ~(x = c /\ g = h) => reviews'[x][g] = reviews[x][g]
  BY <1>1 DEF RatesTyped
<1>3. RatesTyped'
  BY <1>1, <1>2 DEF RatesTyped
<1>4. /\ VersionsNumberedInOrder' /\ PricesSound'
      /\ \A g \in Homes : AccountSound(g)'
      /\ \A p : NextVersionNumber(p)' = NextVersionNumber(p)
  BY RecordQuiet
<1>5. ASSUME NEW x \in Candidates, NEW g \in Homes
      PROVE  ReviewSound(x, g)'
  <2>1. CASE x = c /\ g = h
    BY <1>2, <2>1 DEF ReviewSound
  <2>2. CASE ~(x = c /\ g = h)
    <3>1. reviews'[x][g] = reviews[x][g] /\ ReviewSound(x, g)
      BY <1>2, <2>2 DEF RateInv
    <3>2. QED
      BY <3>1 DEF ReviewSound, EffectiveRule
  <2>3. QED
    BY <2>1, <2>2
<1>6. ASSUME NEW q \in publishing PROVE PublicationFits(q)'
  <2>1. PublicationFits(q) /\ q \in Publications
    BY <1>1 DEF RateInv, PublicationsSound, RatesTyped
  <2>2. CASE q.candidate = 0
    BY <1>4, <2>1, <2>2 DEF PublicationFits
  <2>3. CASE q.candidate # 0
    <3>1. q.candidate \in Candidates /\ q.home \in Homes /\ q.candidate # c
      BY <2>1, <2>3 DEF Publications, Unlocked
    <3>2. reviews'[q.candidate][q.home] = reviews[q.candidate][q.home]
      BY <1>2, <3>1
    <3>3. QED
      BY <1>4, <2>1, <3>2 DEF PublicationFits, EffectiveRule
  <2>4. QED
    BY <2>2, <2>3
<1>7. PublicationsSound'
  BY <1>6 DEF RateInv, PublicationsSound
<1>8. ProvenanceRetained'
  <2> SUFFICES ASSUME NEW v \in DOMAIN versions, versions[v].candidate # 0
               PROVE  /\ versions[v].candidate \in candidates
                      /\ \E g \in Homes : reviews'[versions[v].candidate][g].version = v
    BY DEF ProvenanceRetained
  <2> DEFINE x == versions[v].candidate
  <2>1. x \in candidates /\ \E g \in Homes : reviews[x][g].version = v
    BY DEF RateInv, ProvenanceRetained
  <2>2. PICK g \in Homes : reviews[x][g].version = v
    BY <2>1
  <2>3. reviews[c][h].version = 0
    BY DEF RateInv, ReviewSound
  <2>4. v # 0 /\ x \in Candidates
    BY <1>1, <2>1 DEF RatesTyped
  <2>5. reviews'[x][g] = reviews[x][g]
    BY <1>2, <2>2, <2>3, <2>4
  <2>6. QED
    BY <2>1, <2>2, <2>5
<1>9. QED
  BY <1>3, <1>4, <1>5, <1>7, <1>8 DEF RateInv

\* A review and a rejection: neither touches an open publication of the candidate.
LEMMA ReviewSteps ==
    ASSUME RateInv, NEW c \in Candidates, NEW h \in Homes,
           \/ \E range \in Offered, rule \in Rules \cup {NoRule} : ReviewCandidate(c, h, range, rule)
           \/ RejectCandidate(c, h)
    PROVE  RateInv'
<1>1. CASE \E range \in Offered, rule \in Rules \cup {NoRule} : ReviewCandidate(c, h, range, rule)
  <2>1. PICK range \in Offered, rule \in Rules \cup {NoRule} : ReviewCandidate(c, h, range, rule)
    BY <1>1
  <2> DEFINE row == [state |-> "reviewed", range |-> range, rule |-> rule, version |-> 0]
  <2>2. row \in ReviewRows /\ row.state = "reviewed" /\ row.version = 0
    BY WorkflowAssumption, RangeFacts DEF ReviewRows
  <2>3. reviews' = [reviews EXCEPT ![c][h] = row]
    BY <2>1 DEF ReviewCandidate
  <2> HIDE DEF row
  <2>4. QED
    BY <2>1, <2>2, <2>3, ReviewChanged DEF ReviewCandidate
<1>2. CASE RejectCandidate(c, h)
  <2> DEFINE row == [reviews[c][h] EXCEPT !.state = "rejected"]
  <2>1. reviews \in [Candidates -> [Homes -> ReviewRows]] /\ reviews[c][h] \in ReviewRows
    BY DEF RateInv, RatesTyped
  <2>2. reviews[c][h].version = 0
    BY <1>2 DEF RateInv, ReviewSound, RejectCandidate
  <2>3. row \in ReviewRows /\ row.state = "rejected" /\ row.version = 0
    BY <2>1, <2>2 DEF ReviewRows
  <2>4. reviews' = [reviews EXCEPT ![c][h] = row]
    BY <1>2, <2>1 DEF RejectCandidate
  <2> HIDE DEF row
  <2>5. QED
    BY <1>2, <2>3, <2>4, ReviewChanged DEF RejectCandidate
<1>3. QED
  BY <1>1, <1>2

\* Disposing of a candidate leaves no version without its candidate.
LEMMA DeleteStep ==
    ASSUME RateInv, NEW c \in Candidates, NEW h \in Homes, DeleteCandidate(c, h)
    PROVE  RateInv'
<1>1. RatesTyped
  BY DEF RateInv
<1>2. NoReview \in ReviewRows /\ NoReview.state = "none" /\ NoReview.version = 0
  BY RangeFacts DEF NoReview, ReviewRows, Ranges, Days, NoEnd
<1>3. /\ reviews' \in [Candidates -> [Homes -> ReviewRows]]
      /\ \A g \in Homes : reviews'[c][g] = NoReview
      /\ \A x \in Candidates, g \in Homes : x # c => reviews'[x][g] = reviews[x][g]
      /\ candidates' = candidates \ {c}
  BY <1>1, <1>2 DEF RatesTyped, DeleteCandidate
<1>4. UNCHANGED <<seenBy, bills, versions, assignments, thresholds, selected,
                  publishing, pricing, raced>>
  BY DEF DeleteCandidate
<1>5. RatesTyped'
  BY <1>1, <1>3, <1>4 DEF RatesTyped
<1>6. /\ VersionsNumberedInOrder' /\ PricesSound'
      /\ \A g \in Homes : AccountSound(g)'
      /\ \A p : NextVersionNumber(p)' = NextVersionNumber(p)
  BY <1>4, RecordQuiet
<1>7. ASSUME NEW x \in Candidates, NEW g \in Homes
      PROVE  ReviewSound(x, g)'
  <2>1. CASE x = c
    BY <1>2, <1>3, <2>1 DEF ReviewSound
  <2>2. CASE x # c
    <3>1. reviews'[x][g] = reviews[x][g] /\ ReviewSound(x, g)
      BY <1>3, <2>2 DEF RateInv
    <3>2. QED
      BY <1>3, <1>4, <2>2, <3>1 DEF ReviewSound, EffectiveRule
  <2>3. QED
    BY <2>1, <2>2
<1>8. ASSUME NEW q \in publishing PROVE PublicationFits(q)'
  <2>1. PublicationFits(q) /\ q \in Publications
    BY <1>1 DEF RateInv, PublicationsSound, RatesTyped
  <2>2. CASE q.candidate = 0
    BY <1>6, <2>1, <2>2 DEF PublicationFits
  <2>3. CASE q.candidate # 0
    <3>1. q.candidate \in Candidates /\ q.home \in Homes /\ q.candidate # c
      BY <2>1, <2>3 DEF Publications, Unlocked, DeleteCandidate
    <3>2. reviews'[q.candidate][q.home] = reviews[q.candidate][q.home]
      BY <1>3, <3>1
    <3>3. QED
      BY <1>3, <1>6, <2>1, <3>1, <3>2 DEF PublicationFits, EffectiveRule
  <2>4. QED
    BY <2>2, <2>3
<1>9. PublicationsSound'
  BY <1>4, <1>8 DEF RateInv, PublicationsSound
<1>10. ProvenanceRetained'
  <2> SUFFICES ASSUME NEW v \in DOMAIN versions, versions[v].candidate # 0
               PROVE  /\ versions[v].candidate \in candidates'
                      /\ \E g \in Homes : reviews'[versions[v].candidate][g].version = v
    BY <1>4 DEF ProvenanceRetained
  <2> DEFINE x == versions[v].candidate
  <2>1. x \in candidates /\ \E g \in Homes : reviews[x][g].version = v
    BY DEF RateInv, ProvenanceRetained
  <2>2. PICK g \in Homes : reviews[x][g].version = v
    BY <2>1
  <2>3. reviews[c][g].version = 0
    BY DEF RateInv, ReviewSound, DeleteCandidate, Disposable
  <2>4. v # 0 /\ x \in Candidates
    BY <1>1, <2>1 DEF RatesTyped
  <2>5. x # c
    BY <2>2, <2>3, <2>4
  <2>6. QED
    BY <1>3, <2>1, <2>2, <2>4, <2>5
<1>11. QED
  BY <1>5, <1>6, <1>7, <1>9, <1>10 DEF RateInv

\* A publication that takes its locks.
LEMMA PublicationBegun ==
    ASSUME RateInv, NEW q, q \in Publications, PublicationFits(q), ~PlanLocked(q.plan),
           q.candidate # 0 => Unlocked(q.candidate),
           Len(versions) + Cardinality(publishing) < MaxVersions,
           publishing' = publishing \cup {q},
           UNCHANGED <<candidates, seenBy, reviews, bills, versions, assignments,
                       thresholds, selected, pricing, raced>>
    PROVE  RateInv'
<1>1. RatesTyped
  BY DEF RateInv
<1>2. RatesTyped'
  BY <1>1 DEF RatesTyped
<1>3. /\ VersionsNumberedInOrder' /\ PricesSound'
      /\ \A g \in Homes : AccountSound(g)'
      /\ \A p : NextVersionNumber(p)' = NextVersionNumber(p)
  BY RecordQuiet
<1>4. \A c \in Candidates, h \in Homes : ReviewSound(c, h)'
  BY DEF RateInv, ReviewSound, EffectiveRule
<1>5. ProvenanceRetained'
  BY DEF RateInv, ProvenanceRetained
<1>6. \A r \in publishing' : PublicationFits(r)'
  <2>1. \A r \in publishing' : PublicationFits(r)
    BY DEF RateInv, PublicationsSound
  <2>2. QED
    BY <1>3, <2>1 DEF PublicationFits, EffectiveRule
<1>7. \A x, y \in publishing' : Exclusive(x, y)
  <2>1. \A x \in publishing : x.plan # q.plan /\ (q.candidate # 0 => x.candidate # q.candidate)
    BY DEF PlanLocked, Unlocked
  <2>2. \A x, y \in publishing : Exclusive(x, y)
    BY DEF RateInv, PublicationsSound
  <2>3. QED
    BY <2>1, <2>2 DEF Exclusive
<1>8. IsFiniteSet(publishing') /\ Len(versions') + Cardinality(publishing') <= MaxVersions
  <2>1. IsFiniteSet(publishing) /\ Len(versions) \in Nat
    BY <1>1 DEF RateInv, PublicationsSound, RatesTyped
  <2>2. q \notin publishing
    BY DEF PlanLocked
  <2>3. IsFiniteSet(publishing') /\ Cardinality(publishing') = Cardinality(publishing) + 1
    BY <2>1, <2>2, FS_AddElement
  <2>4. Cardinality(publishing) \in Nat
    BY <2>1, FS_CardinalityType
  <2>5. QED
    BY <2>1, <2>3, <2>4, RangeFacts
<1>9. PublicationsSound'
  BY <1>6, <1>7, <1>8 DEF PublicationsSound
<1>10. QED
  BY <1>2, <1>3, <1>4, <1>5, <1>9 DEF RateInv

\* The number a publication draws is a version number.
LEMMA DrawnNumber ==
    ASSUME RateInv, NEW p \in Plans, Len(versions) + Cardinality(publishing) < MaxVersions
    PROVE  NextVersionNumber(p) \in 1 .. MaxVersions
<1>1. NumberedPlan(p)
  BY NumberedByPlan DEF RateInv
<1>2. NextVersionNumber(p) = Cardinality(Mine(p)) + 1
  BY <1>1, NextNumber DEF RateInv
<1>3. Cardinality(Mine(p)) \in Nat /\ Cardinality(Mine(p)) <= Len(versions)
  BY MineCounted DEF RateInv
<1>4. Cardinality(publishing) \in Nat /\ Len(versions) \in Nat
  BY FS_CardinalityType DEF RateInv, PublicationsSound, RatesTyped
<1>5. QED
  BY <1>2, <1>3, <1>4, RangeFacts

\* The rule a candidate is published with is one of the known rules or none.
LEMMA RuleKnown ==
    ASSUME RatesTyped, NEW c \in Candidates, NEW h \in Homes
    PROVE  EffectiveRule(c, h) \in AnyRule \cup {NoRule}
BY DEF EffectiveRule, AnyRule, RatesTyped, ReviewRows

\* A publication begins: it takes the lock of its plan and the next number.
LEMMA PublishSteps ==
    ASSUME RateInv,
           \/ \E c \in Candidates, h \in Homes : PublishCandidate(c, h)
           \/ \E h \in Homes, d \in DOMAIN Documents, range \in Offered, assign \in BOOLEAN :
                 PublishBill(h, d, range, assign)
    PROVE  RateInv'
<1>1. CASE \E c \in Candidates, h \in Homes : PublishCandidate(c, h)
  <2>1. PICK c \in Candidates, h \in Homes : PublishCandidate(c, h)
    BY <1>1
  <2> DEFINE plan == Evidence[c].plan
             q == [candidate |-> c, document |-> 0, home |-> h, assign |-> FALSE,
                   range |-> reviews[c][h].range, rule |-> EffectiveRule(c, h),
                   plan |-> plan, number |-> NextVersionNumber(plan)]
  <2>2. /\ ExactHomeCandidate(c, h) /\ Unlocked(c) /\ reviews[c][h].state = "reviewed"
        /\ ~PlanLocked(plan) /\ Len(versions) + Cardinality(publishing) < MaxVersions
        /\ publishing' = publishing \cup {q}
        /\ UNCHANGED <<candidates, seenBy, reviews, bills, versions, assignments,
                       thresholds, selected, pricing, raced>>
    BY <2>1 DEF PublishCandidate
  <2>3. plan \in Plans /\ NextVersionNumber(plan) \in 1 .. MaxVersions
    BY <2>2, WorkflowAssumption, DrawnNumber
  <2>4. reviews[c][h].range \in Ranges
    BY DEF RateInv, RatesTyped, ReviewRows
  <2>5. EffectiveRule(c, h) \in AnyRule \cup {NoRule}
    BY RuleKnown DEF RateInv
  <2>6. q \in Publications
    BY <2>3, <2>4, <2>5 DEF Publications
  <2>7. c # 0
    BY WorkflowAssumption
  <2>8. /\ q.candidate = c /\ q.home = h /\ q.plan = plan /\ q.number = NextVersionNumber(plan)
        /\ q.range = reviews[c][h].range /\ q.rule = EffectiveRule(c, h)
    OBVIOUS
  <2> HIDE DEF q, plan
  <2>9. PublicationFits(q)
    BY <2>2, <2>8 DEF PublicationFits, ExactHomeCandidate
  <2>10. QED
    BY <2>2, <2>6, <2>7, <2>8, <2>9, PublicationBegun
<1>2. CASE \E h \in Homes, d \in DOMAIN Documents, range \in Offered, assign \in BOOLEAN :
              PublishBill(h, d, range, assign)
  <2>1. PICK h \in Homes, d \in DOMAIN Documents, range \in Offered, assign \in BOOLEAN :
            PublishBill(h, d, range, assign)
    BY <1>2
  <2> DEFINE plan == Documents[d].plan
             q == [candidate |-> 0, document |-> d, home |-> h, assign |-> assign,
                   range |-> range, rule |-> Documents[d].rule,
                   plan |-> plan, number |-> NextVersionNumber(plan)]
  <2>2. /\ ~PlanLocked(plan) /\ Len(versions) + Cardinality(publishing) < MaxVersions
        /\ publishing' = publishing \cup {q}
        /\ UNCHANGED <<candidates, seenBy, reviews, bills, versions, assignments,
                       thresholds, selected, pricing, raced>>
    BY <2>1 DEF PublishBill
  <2>3. plan \in Plans /\ NextVersionNumber(plan) \in 1 .. MaxVersions
    BY <2>2, WorkflowAssumption, DrawnNumber
  <2>4. range \in Ranges /\ Documents[d].rule \in AnyRule \cup {NoRule}
    BY WorkflowAssumption DEF AnyRule
  <2>5. q \in Publications
    BY <2>3, <2>4 DEF Publications
  <2>6. q.candidate = 0 /\ q.plan = plan /\ q.number = NextVersionNumber(plan)
    OBVIOUS
  <2> HIDE DEF q, plan
  <2>7. PublicationFits(q)
    BY <2>6 DEF PublicationFits
  <2>8. QED
    BY <2>2, <2>5, <2>6, <2>7, PublicationBegun
<1>3. QED
  BY <1>1, <1>2

\* The publications that are left when one ends.
LEMMA PublicationEnded ==
    ASSUME RateInv, NEW q \in publishing, publishing' = publishing \ {q}
    PROVE  /\ IsFiniteSet(publishing')
           /\ Cardinality(publishing') = Cardinality(publishing) - 1
           /\ Cardinality(publishing) \in Nat /\ Cardinality(publishing) >= 1
           /\ \A x, y \in publishing' : Exclusive(x, y)
           /\ \A x \in publishing' : /\ x.plan # q.plan /\ PublicationFits(x)
                                     /\ q.candidate # 0 => x.candidate # q.candidate
<1>1. /\ IsFiniteSet(publishing) /\ \A x, y \in publishing : Exclusive(x, y)
      /\ \A x \in publishing : PublicationFits(x)
  BY DEF RateInv, PublicationsSound
<1>2. IsFiniteSet(publishing') /\ Cardinality(publishing') = Cardinality(publishing) - 1
  BY <1>1, FS_RemoveElement
<1>3. Cardinality(publishing) \in Nat /\ Cardinality(publishing') \in Nat
  BY <1>1, <1>2, FS_CardinalityType
<1>4. \A x \in publishing' : x.plan # q.plan /\ (q.candidate # 0 => x.candidate # q.candidate)
  BY <1>1 DEF Exclusive
<1>5. QED
  BY <1>1, <1>2, <1>3, <1>4

\* A publication is rolled back.
LEMMA AbortStep ==
    ASSUME RateInv, NEW q \in publishing, AbortPublication(q)
    PROVE  RateInv'
<1>1. RatesTyped /\ Len(versions) \in Nat
  BY DEF RateInv, RatesTyped
<1>2. /\ publishing' = publishing \ {q}
      /\ UNCHANGED <<candidates, seenBy, reviews, bills, versions, assignments,
                     thresholds, selected, pricing, raced>>
  BY DEF AbortPublication
<1>3. RatesTyped'
  BY <1>1, <1>2 DEF RatesTyped
<1>4. /\ VersionsNumberedInOrder' /\ PricesSound'
      /\ \A g \in Homes : AccountSound(g)'
      /\ \A p : NextVersionNumber(p)' = NextVersionNumber(p)
  BY <1>2, RecordQuiet
<1>5. \A c \in Candidates, h \in Homes : ReviewSound(c, h)'
  BY <1>2 DEF RateInv, ReviewSound, EffectiveRule
<1>6. ProvenanceRetained'
  BY <1>2 DEF RateInv, ProvenanceRetained
<1>7. \A r \in publishing' : PublicationFits(r)'
  BY <1>2, <1>4, PublicationEnded DEF PublicationFits, EffectiveRule
<1>8. PublicationsSound'
  <2>1. Len(versions) + Cardinality(publishing) <= MaxVersions
    BY DEF RateInv, PublicationsSound
  <2>2. /\ IsFiniteSet(publishing') /\ Cardinality(publishing') = Cardinality(publishing) - 1
        /\ Cardinality(publishing) \in Nat /\ \A x, y \in publishing' : Exclusive(x, y)
    BY <1>2, PublicationEnded
  <2>3. Len(versions') + Cardinality(publishing') <= MaxVersions
    BY <1>1, <1>2, <2>1, <2>2, RangeFacts
  <2>4. QED
    BY <1>7, <2>2, <2>3 DEF PublicationsSound
<1>9. QED
  BY <1>3, <1>4, <1>5, <1>6, <1>8 DEF RateInv

\* What the commit of a publication does to versions and to the publications left.
RowOf(q) == [plan |-> q.plan, number |-> q.number, range |-> q.range, rule |-> q.rule,
             candidate |-> q.candidate]

\* The version has the number reserved for it, and every other reservation still holds.
LEMMA VersionCommitted ==
    ASSUME RateInv, NEW q \in publishing, publishing' = publishing \ {q},
           versions' = Append(versions, RowOf(q))
    PROVE  /\ VersionsNumberedInOrder' /\ VersionsKept
           /\ Len(versions) \in Nat /\ Len(versions') = Len(versions) + 1
           /\ versions'[Len(versions) + 1] = RowOf(q)
           /\ Len(versions) + 1 \in 1 .. MaxVersions
           /\ versions' \in Seq(VersionRows) /\ Len(versions') <= MaxVersions
           /\ IsFiniteSet(publishing')
           /\ Len(versions') + Cardinality(publishing') <= MaxVersions
           /\ \A x, y \in publishing' : Exclusive(x, y)
           /\ \A x \in publishing' : x.number = NextVersionNumber(x.plan)'
<1>1. RatesTyped /\ Len(versions) \in Nat /\ q \in Publications /\ versions \in Seq(VersionRows)
  BY DEF RateInv, RatesTyped
<1>2. RowOf(q) \in VersionRows
  BY <1>1 DEF RowOf, Publications, VersionRows
<1>3. RowOf(q).plan = q.plan /\ RowOf(q).number = q.number
  BY DEF RowOf
<1>4. q.number = NextVersionNumber(q.plan)
  BY DEF RateInv, PublicationsSound, PublicationFits
<1>5. /\ VersionsNumberedInOrder' /\ VersionsKept
      /\ Len(versions') = Len(versions) + 1
      /\ versions'[Len(versions) + 1] = RowOf(q)
      /\ \A p \in Plans \ {q.plan} : NextVersionNumber(p)' = NextVersionNumber(p)
  BY <1>2, <1>3, <1>4, VersionAppended DEF RateInv
<1>6. Len(versions) + Cardinality(publishing) <= MaxVersions
  BY DEF RateInv, PublicationsSound
<1>7. /\ IsFiniteSet(publishing')
      /\ Cardinality(publishing') = Cardinality(publishing) - 1
      /\ Cardinality(publishing) \in Nat /\ Cardinality(publishing) >= 1
      /\ \A x, y \in publishing' : Exclusive(x, y)
      /\ \A x \in publishing' : x.plan # q.plan /\ PublicationFits(x)
  BY PublicationEnded
<1>8. \A x \in publishing' : x.plan \in Plans
  BY <1>1 DEF RatesTyped, Publications
<1>9. \A x \in publishing' : x.number = NextVersionNumber(x.plan)'
  BY <1>5, <1>7, <1>8 DEF PublicationFits
<1>10. /\ Len(versions') + Cardinality(publishing') <= MaxVersions
       /\ Len(versions') <= MaxVersions /\ Len(versions) + 1 \in 1 .. MaxVersions
  BY <1>1, <1>5, <1>6, <1>7, RangeFacts
<1>11. versions' \in Seq(VersionRows)
  BY <1>1, <1>2
<1>12. QED
  BY <1>1, <1>5, <1>7, <1>9, <1>10, <1>11

\* Reviews whose row does not change keep what they say of their version.
LEMMA ReviewKept ==
    ASSUME RateInv, VersionsKept, Len(versions') \in Nat, NEW c \in Candidates, NEW h \in Homes,
           candidates' = candidates, reviews'[c][h] = reviews[c][h],
           reviews[c][h].state = "published" =>
               \A a \in assignments'[h] : a.version # reviews[c][h].version
    PROVE  ReviewSound(c, h)'
<1>1. ReviewSound(c, h) /\ Len(versions) \in Nat
  BY DEF RateInv, RatesTyped
<1>2. EffectiveRule(c, h)' = EffectiveRule(c, h)
  BY DEF EffectiveRule
<1>3. CASE reviews[c][h].state \notin {"published", "activated"}
  BY <1>1, <1>3 DEF ReviewSound
<1>4. CASE reviews[c][h].state \in {"published", "activated"}
  <2>1. /\ reviews[c][h].version \in 1 .. Len(versions)
        /\ versions'[reviews[c][h].version] = versions[reviews[c][h].version]
        /\ reviews[c][h].version \in 1 .. Len(versions')
    BY <1>1, <1>4 DEF ReviewSound, VersionsKept
  <2>2. QED
    BY <1>1, <1>2, <1>4, <2>1 DEF ReviewSound
<1>5. QED
  BY <1>3, <1>4

\* The publication of a candidate commits.
LEMMA CommitCandidateStep ==
    ASSUME RateInv, NEW q \in publishing, CommitCandidateVersion(q)
    PROVE  RateInv'
<1> DEFINE c == q.candidate
           h == q.home
           n == Len(versions) + 1
<1>1. RatesTyped /\ q \in Publications /\ c # 0
  BY DEF RateInv, RatesTyped, CommitCandidateVersion
<1>2. /\ c \in Candidates /\ h \in Homes /\ c \in candidates
      /\ reviews[c][h].state = "reviewed" /\ reviews[c][h].version = 0
      /\ q.range = reviews[c][h].range /\ q.rule = EffectiveRule(c, h)
  BY <1>1 DEF RateInv, PublicationsSound, PublicationFits, Publications, ReviewSound
<1>3. /\ publishing' = publishing \ {q} /\ versions' = Append(versions, RowOf(q))
      /\ UNCHANGED <<candidates, seenBy, bills, assignments, thresholds, selected, pricing, raced>>
  BY DEF CommitCandidateVersion, RowOf
<1>4. /\ VersionsNumberedInOrder' /\ VersionsKept
      /\ Len(versions) \in Nat /\ Len(versions') = n
      /\ versions'[n] = RowOf(q) /\ n \in 1 .. MaxVersions
      /\ versions' \in Seq(VersionRows) /\ Len(versions') <= MaxVersions
      /\ IsFiniteSet(publishing')
      /\ Len(versions') + Cardinality(publishing') <= MaxVersions
      /\ \A x, y \in publishing' : Exclusive(x, y)
      /\ \A x \in publishing' : x.number = NextVersionNumber(x.plan)'
  BY <1>3, VersionCommitted
<1>5. /\ reviews' \in [Candidates -> [Homes -> ReviewRows]]
      /\ reviews'[c][h].state = "published" /\ reviews'[c][h].version = n
      /\ reviews'[c][h].range = reviews[c][h].range /\ reviews'[c][h].rule = reviews[c][h].rule
      /\ \A x \in Candidates, g \in Homes : ~(x = c /\ g = h) => reviews'[x][g] = reviews[x][g]
  <2>1. reviews \in [Candidates -> [Homes -> ReviewRows]] /\ reviews[c][h] \in ReviewRows
    BY <1>1, <1>2 DEF RatesTyped
  <2>2. reviews' = [reviews EXCEPT ![c][h].state = "published", ![c][h].version = n]
    BY DEF CommitCandidateVersion
  <2> DEFINE one == [reviews[c][h] EXCEPT !.state = "published"]
             row == [one EXCEPT !.version = n]
  <2>3. one \in ReviewRows /\ one.state = "published" /\ one.range = reviews[c][h].range
        /\ one.rule = reviews[c][h].rule
    BY <2>1 DEF ReviewRows
  <2> HIDE DEF one
  <2>4. /\ row \in ReviewRows /\ row.state = "published" /\ row.version = n
        /\ row.range = reviews[c][h].range /\ row.rule = reviews[c][h].rule
    BY <1>4, <2>3 DEF ReviewRows
  <2>5. reviews' = [reviews EXCEPT ![c][h] = row]
    BY <1>2, <2>1, <2>2 DEF one
  <2> HIDE DEF row, c, h, n
  <2>6. QED
    BY <1>2, <2>1, <2>4, <2>5
<1>6. RatesTyped'
  BY <1>1, <1>3, <1>4, <1>5 DEF RatesTyped
<1>7. \A g \in Homes : AccountSound(g)'
  BY <1>1, <1>3, <1>4, OtherAccountKept DEF RateInv
<1>8. PricesSound'
  BY <1>1, <1>3, <1>4, QuietPrices DEF RateInv
<1>9. ASSUME NEW x \in Candidates, NEW g \in Homes
      PROVE  ReviewSound(x, g)'
  <2>1. CASE x = c /\ g = h
    <3>1. /\ RowOf(q).candidate = c /\ RowOf(q).range = reviews[c][h].range
          /\ RowOf(q).rule = EffectiveRule(c, h)
      BY <1>2 DEF RowOf
    <3>2. EffectiveRule(x, g)' = EffectiveRule(c, h)
      BY <1>5, <2>1 DEF EffectiveRule
    <3>3. \A a \in assignments[g] : a.version # n
      BY <1>4 DEF RateInv, AccountSound, AssignedInRange
    <3>4. n \in 1 .. Len(versions')
      BY <1>4
    <3>5. /\ reviews'[x][g].state = "published" /\ reviews'[x][g].version = n
          /\ reviews'[x][g].range = reviews[c][h].range /\ x = c /\ x \in candidates'
      BY <1>2, <1>3, <1>5, <2>1
    <3> HIDE DEF c, h, n
    <3>6. QED
      BY <1>3, <1>4, <3>1, <3>2, <3>3, <3>4, <3>5 DEF ReviewSound
  <2>2. CASE ~(x = c /\ g = h)
    <3>1. reviews'[x][g] = reviews[x][g]
      BY <1>5, <2>2
    <3>2. ReviewSound(x, g) /\ assignments' = assignments
      BY <1>3 DEF RateInv
    <3>3. QED
      BY <1>3, <1>4, <3>1, <3>2, ReviewKept DEF ReviewSound
  <2>3. QED
    BY <2>1, <2>2
<1>10. ProvenanceRetained'
  <2> SUFFICES ASSUME NEW v \in 1 .. n, versions'[v].candidate # 0
               PROVE  /\ versions'[v].candidate \in candidates'
                      /\ \E g \in Homes : reviews'[versions'[v].candidate][g].version = v
    <3>1. DOMAIN versions' = 1 .. n
      BY <1>4
    <3>2. QED
      BY <3>1 DEF ProvenanceRetained
  <2>1. CASE v = n
    <3>1. versions'[v].candidate = c
      BY <1>4, <2>1 DEF RowOf
    <3>2. QED
      BY <1>2, <1>3, <1>5, <2>1, <3>1
  <2>2. CASE v # n
    <3>1. v \in DOMAIN versions /\ versions'[v] = versions[v] /\ v # 0
      <4>1. v \in 1 .. Len(versions)
        BY <1>4, <2>2
      <4>2. DOMAIN versions = 1 .. Len(versions)
        BY <1>1 DEF RatesTyped
      <4>3. QED
        BY <1>4, <4>1, <4>2 DEF VersionsKept
    <3>2. PICK g \in Homes : reviews[versions[v].candidate][g].version = v
      BY <3>1 DEF RateInv, ProvenanceRetained
    <3>3. versions[v].candidate \in candidates /\ versions[v].candidate \in Candidates
      BY <1>1, <3>1 DEF RateInv, ProvenanceRetained, RatesTyped
    <3>4. reviews'[versions[v].candidate][g] = reviews[versions[v].candidate][g]
      BY <1>2, <1>5, <3>1, <3>2, <3>3
    <3>5. QED
      BY <1>3, <3>1, <3>2, <3>3, <3>4
  <2>3. QED
    BY <2>1, <2>2
<1>11. PublicationsSound'
  <2>1. ASSUME NEW x \in publishing' PROVE PublicationFits(x)'
    <3>1. PublicationFits(x) /\ x.candidate # c /\ x \in Publications
      BY <1>1, <1>3, PublicationEnded DEF RatesTyped
    <3>2. x.number = NextVersionNumber(x.plan)'
      BY <1>4
    <3>3. CASE x.candidate = 0
      BY <3>2, <3>3 DEF PublicationFits
    <3>4. CASE x.candidate # 0
      <4>1. reviews'[x.candidate][x.home] = reviews[x.candidate][x.home]
        BY <1>5, <3>1, <3>4 DEF Publications
      <4>2. QED
        BY <1>3, <3>1, <3>2, <4>1 DEF PublicationFits, EffectiveRule
    <3>5. QED
      BY <3>3, <3>4
  <2>2. QED
    BY <1>4, <2>1 DEF PublicationsSound
<1>12. QED
  BY <1>4, <1>6, <1>7, <1>8, <1>9, <1>10, <1>11 DEF RateInv

\* An assignment of a version that the account does not have yet keeps accounts
\* and prices, and takes no version from a review but the one it assigns.
LEMMA AssignKeeps ==
    ASSUME RateInv, NEW h \in Homes, NEW v \in 1 .. MaxVersions, NEW range \in Ranges,
           NEW p \in Plans, NEW rule \in AnyRule \cup {NoRule}, VersionsKept,
           v \in 1 .. Len(versions'), versions'[v].range = range,
           versions'[v].plan = p, versions'[v].rule = rule,
           \A a \in assignments[h] : a.version # v, Assign(h, v, p, range, rule),
           pricing' = pricing
    PROVE  /\ \A g \in Homes : AccountSound(g)'
           /\ PricesSound'
           /\ assignments' \in [Homes -> SUBSET AssignmentRows]
           /\ thresholds' \in [Homes -> SUBSET ThresholdRows]
           /\ selected' \in [Homes -> [Intervals -> 0 .. MaxVersions]]
           /\ raced' \subseteq Homes \X Intervals
           /\ \A g \in Homes : \A a \in assignments'[g] :
                 (g = h /\ a.version = v) \/ \E b \in assignments[g] : b.version = a.version
<1>1. RatesTyped /\ (\A g \in Homes : AccountSound(g)) /\ PricesSound
  BY DEF RateInv
<1>2. /\ AccountSound(h)' /\ assignments'[h] \subseteq AssignmentRows
      /\ thresholds'[h] \subseteq ThresholdRows
  BY <1>1, AssignKeepsAccount
<1>3. /\ PricesSound' /\ selected' \in [Homes -> [Intervals -> 0 .. MaxVersions]]
      /\ raced' \subseteq Homes \X Intervals
  BY <1>1, AssignKeepsPrices
<1>4. /\ assignments' = [assignments EXCEPT ![h] = NewAssignments(h, v, range)]
      /\ thresholds' = thresholds \/ \E T : thresholds' = [thresholds EXCEPT ![h] = T]
      /\ Assignable(h, v, range)
  BY DEF Assign
<1>5. /\ assignments' \in [Homes -> SUBSET AssignmentRows]
      /\ \A g \in Homes \ {h} : assignments'[g] = assignments[g]
      /\ assignments'[h] = NewAssignments(h, v, range)
  BY <1>1, <1>2, <1>4 DEF RatesTyped
<1>6. /\ thresholds' \in [Homes -> SUBSET ThresholdRows]
      /\ \A g \in Homes \ {h} : thresholds'[g] = thresholds[g]
  BY <1>1, <1>2, <1>4 DEF RatesTyped
<1>7. \A g \in Homes : AccountSound(g)'
  <2>1. ASSUME NEW g \in Homes \ {h} PROVE AccountSound(g)'
    BY <1>1, <1>5, <1>6, OtherAccountKept
  <2>2. QED
    BY <1>2, <2>1
<1>8. ASSUME NEW g \in Homes, NEW a \in assignments'[g], ~(g = h /\ a.version = v)
      PROVE  \E b \in assignments[g] : b.version = a.version
  <2>1. CASE g # h
    BY <1>5, <2>1
  <2>2. CASE g = h
    <3> DEFINE new == [version |-> v, start |-> range.start, end |-> AssignedEnd(h, range)]
    <3>1. NewAssignments(h, v, range) = Clipped(assignments[h], range.start) \cup {new}
      BY <1>1, <1>4, AssignedRows
    <3>2. a # new
      BY <1>8, <2>2
    <3>3. PICK r \in assignments[h] : a = Cut(r, range.start)
      BY <1>5, <2>2, <3>1, <3>2, ClippedRow
    <3>4. r \in AssignmentRows
      BY <1>1 DEF RatesTyped
    <3>5. a.version = r.version
      BY <3>3, <3>4 DEF Cut, AssignmentRows
    <3>6. QED
      BY <2>2, <3>5
  <2>3. QED
    BY <2>1, <2>2
<1>9. QED
  BY <1>3, <1>5, <1>6, <1>7, <1>8

\* Activation assigns the version, its allowance and the prices.
LEMMA ActivateStep ==
    ASSUME RateInv, NEW c \in Candidates, NEW h \in Homes, ActivateCandidate(c, h)
    PROVE  RateInv'
<1> DEFINE v == reviews[c][h].version
           range == versions[v].range
           p == versions[v].plan
           rule == EffectiveRule(c, h)
<1>1. /\ RatesTyped /\ ReviewSound(c, h) /\ reviews[c][h].state = "published"
      /\ Unlocked(c) /\ Len(versions) \in Nat
  BY DEF RateInv, ActivateCandidate, RatesTyped
<1>2. /\ v \in 1 .. Len(versions) /\ versions[v].candidate = c
      /\ versions[v].rule = rule /\ \A a \in assignments[h] : a.version # v
      /\ c \in candidates
  BY <1>1 DEF ReviewSound
<1>3. versions[v] \in VersionRows /\ v \in 1 .. MaxVersions
  BY <1>1, <1>2, RangeFacts DEF RatesTyped
<1>4. range \in Ranges /\ p \in Plans /\ rule \in AnyRule \cup {NoRule}
  BY <1>2, <1>3 DEF VersionRows
<1>5. /\ Assign(h, v, p, range, rule)
      /\ UNCHANGED <<candidates, seenBy, bills, versions, publishing, pricing>>
      /\ reviews' = [reviews EXCEPT ![c][h].state = "activated"]
  BY DEF ActivateCandidate
<1>6. VersionsKept
  BY <1>1, <1>5 DEF VersionsKept
<1>7. /\ v \in 1 .. Len(versions') /\ versions'[v].range = range
      /\ versions'[v].plan = p /\ versions'[v].rule = rule
  BY <1>2, <1>5
<1>8. /\ \A g \in Homes : AccountSound(g)'
      /\ PricesSound'
      /\ assignments' \in [Homes -> SUBSET AssignmentRows]
      /\ thresholds' \in [Homes -> SUBSET ThresholdRows]
      /\ selected' \in [Homes -> [Intervals -> 0 .. MaxVersions]]
      /\ raced' \subseteq Homes \X Intervals
      /\ \A g \in Homes : \A a \in assignments'[g] :
            (g = h /\ a.version = v) \/ \E b \in assignments[g] : b.version = a.version
  <2> HIDE DEF v, range, p, rule
  <2>1. QED
    BY <1>2, <1>3, <1>4, <1>5, <1>6, <1>7, AssignKeeps
<1>9. /\ reviews' \in [Candidates -> [Homes -> ReviewRows]]
      /\ reviews'[c][h].state = "activated" /\ reviews'[c][h].version = v
      /\ reviews'[c][h].range = reviews[c][h].range /\ reviews'[c][h].rule = reviews[c][h].rule
      /\ \A x \in Candidates, g \in Homes : ~(x = c /\ g = h) => reviews'[x][g] = reviews[x][g]
  <2>1. reviews \in [Candidates -> [Homes -> ReviewRows]] /\ reviews[c][h] \in ReviewRows
    BY <1>1 DEF RatesTyped
  <2> DEFINE row == [reviews[c][h] EXCEPT !.state = "activated"]
  <2>2. /\ row \in ReviewRows /\ row.state = "activated" /\ row.version = v
        /\ row.range = reviews[c][h].range /\ row.rule = reviews[c][h].rule
    BY <2>1 DEF ReviewRows
  <2>3. reviews' = [reviews EXCEPT ![c][h] = row]
    BY <1>5, <2>1
  <2> HIDE DEF row, v
  <2>4. QED
    BY <2>1, <2>2, <2>3
<1>10. RatesTyped'
  BY <1>1, <1>5, <1>8, <1>9 DEF RatesTyped
<1>11. VersionsNumberedInOrder' /\ \A x : NextVersionNumber(x)' = NextVersionNumber(x)
  BY <1>5 DEF RateInv, VersionsNumberedInOrder, NextVersionNumber
<1>12. ASSUME NEW x \in Candidates, NEW g \in Homes
       PROVE  ReviewSound(x, g)'
  <2>1. CASE x = c /\ g = h
    <3>1. EffectiveRule(x, g)' = EffectiveRule(c, h)
      BY <1>9, <2>1 DEF EffectiveRule
    <3>2. versions[v].range = reviews[c][h].range
      BY <1>1 DEF ReviewSound
    <3> HIDE DEF v
    <3>3. QED
      BY <1>2, <1>5, <1>9, <2>1, <3>1, <3>2 DEF ReviewSound
  <2>2. CASE ~(x = c /\ g = h)
    <3>1. reviews'[x][g] = reviews[x][g] /\ ReviewSound(x, g)
      BY <1>9, <2>2 DEF RateInv
    <3>2. ASSUME reviews[x][g].state = "published", NEW a \in assignments'[g]
          PROVE  a.version # reviews[x][g].version
      <4>1. CASE g = h /\ a.version = v
        <5>1. x # c
          BY <2>2, <4>1
        <5>2. versions[reviews[x][g].version].candidate = x
          BY <3>1, <3>2 DEF ReviewSound
        <5>3. QED
          BY <1>2, <4>1, <5>1, <5>2
      <4>2. CASE \E b \in assignments[g] : b.version = a.version
        BY <3>1, <3>2, <4>2 DEF ReviewSound
      <4>3. QED
        BY <1>8, <4>1, <4>2
    <3>3. Len(versions') \in Nat /\ candidates' = candidates
      BY <1>1, <1>5
    <3>4. QED
      BY <1>6, <3>1, <3>2, <3>3, ReviewKept
  <2>3. QED
    BY <2>1, <2>2
<1>13. ProvenanceRetained'
  <2>1. \A x \in Candidates, g \in Homes : reviews'[x][g].version = reviews[x][g].version
    BY <1>9
  <2>2. candidates \subseteq Candidates
    BY <1>1 DEF RatesTyped
  <2>3. QED
    BY <1>5, <2>1, <2>2 DEF RateInv, ProvenanceRetained
<1>14. PublicationsSound'
  <2>1. ASSUME NEW x \in publishing PROVE PublicationFits(x)'
    <3>1. PublicationFits(x) /\ x.candidate # c /\ x \in Publications
      BY <1>1 DEF RateInv, PublicationsSound, Unlocked, RatesTyped
    <3>2. CASE x.candidate = 0
      BY <1>11, <3>1, <3>2 DEF PublicationFits
    <3>3. CASE x.candidate # 0
      <4>1. reviews'[x.candidate][x.home] = reviews[x.candidate][x.home]
        BY <1>9, <3>1, <3>3 DEF Publications
      <4>2. QED
        BY <1>5, <1>11, <3>1, <4>1 DEF PublicationFits, EffectiveRule
    <3>4. QED
      BY <3>2, <3>3
  <2>2. QED
    BY <1>5, <2>1 DEF RateInv, PublicationsSound
<1>15. QED
  BY <1>8, <1>10, <1>11, <1>12, <1>13, <1>14 DEF RateInv

\* The publication of a bill commits, with its assignment if it asked for one.
LEMMA CommitBillStep ==
    ASSUME RateInv, NEW q \in publishing, CommitBillVersion(q)
    PROVE  RateInv'
<1> DEFINE h == q.home
           n == Len(versions) + 1
<1>1. RatesTyped /\ q \in Publications /\ q.candidate = 0
  BY DEF RateInv, RatesTyped, CommitBillVersion
<1>2. h \in Homes /\ q.range \in Ranges /\ q.plan \in Plans /\ q.rule \in AnyRule \cup {NoRule}
  BY <1>1 DEF Publications
<1>3. /\ publishing' = publishing \ {q} /\ versions' = Append(versions, RowOf(q))
      /\ UNCHANGED <<candidates, seenBy, reviews, pricing>>
  BY <1>1 DEF CommitBillVersion, RowOf
<1>4. /\ VersionsNumberedInOrder' /\ VersionsKept
      /\ Len(versions) \in Nat /\ Len(versions') = n
      /\ versions'[n] = RowOf(q) /\ n \in 1 .. MaxVersions
      /\ versions' \in Seq(VersionRows) /\ Len(versions') <= MaxVersions
      /\ IsFiniteSet(publishing')
      /\ Len(versions') + Cardinality(publishing') <= MaxVersions
      /\ \A x, y \in publishing' : Exclusive(x, y)
      /\ \A x \in publishing' : x.number = NextVersionNumber(x.plan)'
  BY <1>3, VersionCommitted
<1>5. /\ n \in 1 .. Len(versions') /\ versions'[n].range = q.range
      /\ versions'[n].plan = q.plan /\ versions'[n].rule = q.rule
      /\ versions'[n].candidate = 0
  BY <1>1, <1>4 DEF RowOf
<1>6. \A g \in Homes : \A a \in assignments[g] : a.version # n
  BY <1>4 DEF RateInv, AccountSound, AssignedInRange
<1>7. /\ \A g \in Homes : AccountSound(g)'
      /\ PricesSound'
      /\ assignments' \in [Homes -> SUBSET AssignmentRows]
      /\ thresholds' \in [Homes -> SUBSET ThresholdRows]
      /\ selected' \in [Homes -> [Intervals -> 0 .. MaxVersions]]
      /\ raced' \subseteq Homes \X Intervals
      /\ \A g \in Homes : \A a \in assignments'[g] :
            a.version = n \/ \E b \in assignments[g] : b.version = a.version
  <2>1. CASE Assign(h, n, q.plan, q.range, q.rule)
    <3> HIDE DEF h, n
    <3>1. QED
      BY <1>2, <1>3, <1>4, <1>5, <1>6, <2>1, AssignKeeps
  <2>2. CASE UNCHANGED <<assignments, thresholds, selected, raced>>
    <3>1. \A g \in Homes : AccountSound(g)'
      BY <1>1, <1>4, <2>2, OtherAccountKept DEF RateInv
    <3>2. PricesSound'
      BY <1>1, <1>3, <1>4, <2>2, QuietPrices DEF RateInv
    <3>3. QED
      BY <1>1, <2>2, <3>1, <3>2 DEF RatesTyped
  <2>3. QED
    BY <2>1, <2>2 DEF CommitBillVersion
<1>8. bills' \in [Homes -> [DOMAIN Documents -> BillRows]]
  <2> DEFINE d == q.document
             one == [bills[h][d] EXCEPT !.state = "published"]
             row == [one EXCEPT !.version = n]
  <2>1. bills \in [Homes -> [DOMAIN Documents -> BillRows]]
    BY <1>1 DEF RatesTyped
  <2>2. bills' = [bills EXCEPT ![h][d].state = "published", ![h][d].version = n]
    BY DEF CommitBillVersion
  <2>3. CASE d \in DOMAIN Documents
    <3>1. bills[h][d] \in BillRows
      BY <1>2, <2>1, <2>3
    <3>2. one \in BillRows
      BY <3>1 DEF BillRows
    <3> HIDE DEF one
    <3>3. row \in BillRows
      BY <1>4, <3>2 DEF BillRows
    <3>4. bills' = [bills EXCEPT ![h][d] = row]
      BY <1>2, <2>1, <2>2, <2>3 DEF one
    <3> HIDE DEF row, h, d
    <3>5. QED
      BY <1>2, <2>1, <2>3, <3>3, <3>4
  <2>4. CASE d \notin DOMAIN Documents
    <3>1. bills' = bills
      BY <1>2, <2>1, <2>2, <2>4
    <3>2. QED
      BY <2>1, <3>1
  <2>5. QED
    BY <2>3, <2>4
<1>9. RatesTyped'
  BY <1>1, <1>3, <1>4, <1>7, <1>8 DEF RatesTyped
<1>10. ASSUME NEW x \in Candidates, NEW g \in Homes
       PROVE  ReviewSound(x, g)'
  <2>1. ReviewSound(x, g)
    BY DEF RateInv
  <2>2. ASSUME reviews[x][g].state = "published", NEW a \in assignments'[g]
        PROVE  a.version # reviews[x][g].version
    <3>1. reviews[x][g].version \in 1 .. Len(versions)
      BY <2>1, <2>2 DEF ReviewSound
    <3>2. CASE a.version = n
      BY <1>4, <3>1, <3>2
    <3>3. CASE \E b \in assignments[g] : b.version = a.version
      BY <2>1, <2>2, <3>3 DEF ReviewSound
    <3>4. QED
      BY <1>7, <3>2, <3>3
  <2>3. Len(versions') \in Nat /\ candidates' = candidates /\ reviews'[x][g] = reviews[x][g]
    BY <1>3, <1>4
  <2>4. QED
    BY <1>4, <2>2, <2>3, ReviewKept
<1>11. ProvenanceRetained'
  <2> SUFFICES ASSUME NEW v \in 1 .. n, versions'[v].candidate # 0
               PROVE  /\ versions'[v].candidate \in candidates
                      /\ \E g \in Homes : reviews[versions'[v].candidate][g].version = v
    <3>1. DOMAIN versions' = 1 .. n
      BY <1>4
    <3>2. QED
      BY <1>3, <3>1 DEF ProvenanceRetained
  <2>1. v # n
    BY <1>5
  <2>2. v \in 1 .. Len(versions)
    BY <1>4, <2>1
  <2>3. DOMAIN versions = 1 .. Len(versions)
    BY <1>1 DEF RatesTyped
  <2>4. versions'[v] = versions[v]
    BY <1>4, <2>2 DEF VersionsKept
  <2>5. QED
    BY <2>2, <2>3, <2>4 DEF RateInv, ProvenanceRetained
<1>12. PublicationsSound'
  <2>1. ASSUME NEW x \in publishing' PROVE PublicationFits(x)'
    <3>1. PublicationFits(x)
      BY <1>3, PublicationEnded
    <3>2. x.number = NextVersionNumber(x.plan)'
      BY <1>4
    <3>3. QED
      BY <1>3, <3>1, <3>2 DEF PublicationFits, EffectiveRule
  <2>2. QED
    BY <1>4, <2>1 DEF PublicationsSound
<1>13. QED
  BY <1>4, <1>7, <1>9, <1>10, <1>11, <1>12 DEF RateInv

\* The worker's steps change prices only.
LEMMA PricesChanged ==
    ASSUME RateInv, PricesSound', pricing' \subseteq Prices,
           selected' \in [Homes -> [Intervals -> 0 .. MaxVersions]],
           raced' \subseteq Homes \X Intervals,
           UNCHANGED <<candidates, seenBy, reviews, bills, versions, assignments,
                       thresholds, publishing>>
    PROVE  RateInv'
<1>1. RatesTyped /\ RatesTyped'
  <2>1. RatesTyped
    BY DEF RateInv
  <2>2. QED
    BY <2>1 DEF RatesTyped
<1>2. VersionsNumberedInOrder' /\ ProvenanceRetained'
  <2>1. VersionsNumberedInOrder'
    BY DEF RateInv, VersionsNumberedInOrder
  <2>2. ProvenanceRetained'
    BY DEF RateInv, ProvenanceRetained
  <2>3. QED
    BY <2>1, <2>2
<1>3. PublicationsSound'
  BY DEF RateInv, PublicationsSound, PublicationFits, NextVersionNumber, EffectiveRule
<1>4. \A c \in Candidates, h \in Homes : ReviewSound(c, h)'
  BY DEF RateInv, ReviewSound, EffectiveRule
<1>5. \A h \in Homes : AccountSound(h)'
  <2>1. VersionsKept
    BY <1>1 DEF VersionsKept, RatesTyped
  <2>2. QED
    BY <2>1, OtherAccountKept DEF RateInv
<1>6. QED
  BY <1>1, <1>2, <1>3, <1>4, <1>5 DEF RateInv

\* The worker's transaction reads, commits or is rolled back.
LEMMA PricingSteps ==
    ASSUME RateInv,
           \/ \E h \in Homes, i \in Intervals : PriceInterval(h, i)
           \/ CommitPrice
           \/ AbortPrice
    PROVE  RateInv'
<1>1. RatesTyped /\ PricesSound
  BY DEF RateInv
<1>2. ASSUME NEW h \in Homes, NEW i \in Intervals, PriceInterval(h, i)
      PROVE  RateInv'
  <2>1. PICK a \in Covering(h, i) : pricing' = {[home |-> h, interval |-> i, version |-> a.version]}
    BY <1>2 DEF PriceInterval
  <2>2. UNCHANGED <<candidates, seenBy, reviews, bills, versions, assignments,
                    thresholds, selected, publishing, raced>>
    BY <1>2 DEF PriceInterval
  <2>3. \A b \in Covering(h, i) : b = a
    <3> SUFFICES ASSUME NEW b \in Covering(h, i), b # a
                 PROVE  FALSE
      OBVIOUS
    <3>1. a \in assignments[h] /\ b \in assignments[h] /\ Timeline(assignments[h])
      BY DEF Covering, RateInv, AccountSound
    <3>2. a.end <= b.start \/ b.end <= a.start
      BY <3>1 DEF Timeline, Apart
    <3>3. /\ a.start <= i.start /\ i.end <= a.end /\ b.start <= i.start /\ i.end <= b.end
          /\ i.start \in Nat /\ i.end \in Nat /\ i.start < i.end
      BY WorkflowAssumption DEF Covering
    <3>4. a.start \in Nat /\ a.end \in Nat /\ b.start \in Nat /\ b.end \in Nat
      BY <3>1 DEF Timeline
    <3>5. QED
      BY <3>2, <3>3, <3>4
  <2>4. a.version \in 1 .. MaxVersions
    BY <1>1 DEF Covering, RatesTyped, AssignmentRows
  <2>5. pricing' \subseteq Prices
    BY <2>1, <2>4 DEF Prices
  <2>6. PricedAsAssigned'
    BY <1>1, <2>2 DEF PricesSound, PricedAsAssigned, Covering
  <2>7. selected[h][i] = 0
    BY <1>2 DEF PriceInterval
  <2>8. ASSUME NEW q \in pricing'
        PROVE  /\ selected'[q.home][q.interval] = 0
               /\ \A b \in Covering(q.home, q.interval)' : b.version = q.version
    <3>1. q.home = h /\ q.interval = i /\ q.version = a.version
      BY <2>1
    <3>2. Covering(q.home, q.interval)' = Covering(h, i)
      BY <2>2, <3>1 DEF Covering
    <3>3. QED
      BY <2>2, <2>3, <2>7, <3>1, <3>2
  <2>9. PricesSound'
    BY <2>1, <2>6, <2>8 DEF PricesSound
  <2>10. QED
    BY <1>1, <2>2, <2>5, <2>9, PricesChanged DEF RatesTyped
<1>3. ASSUME NEW q \in pricing, pricing' = {},
             selected' = [selected EXCEPT ![q.home][q.interval] = q.version],
             UNCHANGED <<candidates, seenBy, reviews, bills, versions, assignments,
                         thresholds, publishing, raced>>
      PROVE  RateInv'
  <2>1. q.home \in Homes /\ q.interval \in Intervals /\ q.version \in 0 .. MaxVersions
    BY <1>1 DEF RatesTyped, Prices
  <2>2. /\ selected' \in [Homes -> [Intervals -> 0 .. MaxVersions]]
        /\ selected'[q.home][q.interval] = q.version
        /\ \A g \in Homes, j \in Intervals :
              ~(g = q.home /\ j = q.interval) => selected'[g][j] = selected[g][j]
    BY <1>1, <1>3, <2>1 DEF RatesTyped
  <2>3. \A g \in Homes, j \in Intervals : Covering(g, j)' = Covering(g, j)
    BY <1>3 DEF Covering
  <2>4. PricedAsAssigned'
    <3> SUFFICES ASSUME NEW g \in Homes, NEW j \in Intervals, selected'[g][j] # 0,
                        <<g, j>> \notin raced, NEW a \in Covering(g, j)
                 PROVE  a.version = selected'[g][j]
      BY <1>3, <2>3 DEF PricedAsAssigned
    <3>1. CASE g = q.home /\ j = q.interval
      BY <1>1, <2>2, <3>1 DEF PricesSound
    <3>2. CASE ~(g = q.home /\ j = q.interval)
      BY <1>1, <2>2, <3>2 DEF PricesSound, PricedAsAssigned
    <3>3. QED
      BY <3>1, <3>2
  <2>5. PricesSound'
    BY <1>3, <2>4 DEF PricesSound
  <2>6. QED
    BY <1>1, <1>3, <2>2, <2>5, PricesChanged DEF RatesTyped
<1>4. ASSUME AbortPrice PROVE RateInv'
  <2>1. /\ pricing' = {} /\ raced' = raced \ {<<q.home, q.interval>> : q \in pricing}
        /\ UNCHANGED <<candidates, seenBy, reviews, bills, versions, assignments,
                       thresholds, selected, publishing>>
    BY <1>4 DEF AbortPrice
  <2>2. \A g \in Homes, j \in Intervals : Covering(g, j)' = Covering(g, j)
    BY <2>1 DEF Covering
  <2>3. ASSUME NEW g \in Homes, NEW j \in Intervals, selected[g][j] # 0, <<g, j>> \notin raced'
        PROVE  <<g, j>> \notin raced
    <3>1. SUFFICES ASSUME <<g, j>> \in raced PROVE FALSE
      OBVIOUS
    <3>2. PICK q \in pricing : <<g, j>> = <<q.home, q.interval>>
      BY <2>1, <2>3, <3>1
    <3>3. QED
      BY <1>1, <2>3, <3>2 DEF PricesSound
  <2>4. PricedAsAssigned'
    BY <1>1, <2>1, <2>2, <2>3 DEF PricesSound, PricedAsAssigned
  <2>5. PricesSound'
    BY <2>1, <2>4 DEF PricesSound
  <2>6. QED
    BY <1>1, <2>1, <2>5, PricesChanged DEF RatesTyped
<1>5. QED
  BY <1>2, <1>3, <1>4 DEF CommitPrice

\* It holds before anything is recorded.
LEMMA RatesInitially == Init => RateInv
<1> SUFFICES ASSUME Init PROVE RateInv
  OBVIOUS
<1>1. RatesTyped
  <2>1. NoReview \in ReviewRows /\ NoBill \in BillRows
    BY RangeFacts DEF NoReview, NoBill, ReviewRows, BillRows, Ranges, Days, NoEnd
  <2>2. versions \in Seq(VersionRows) /\ Len(versions) = 0 /\ 0 <= MaxVersions
    BY RangeFacts DEF Init
  <2>3. /\ reviews \in [Candidates -> [Homes -> ReviewRows]]
        /\ bills \in [Homes -> [DOMAIN Documents -> BillRows]]
    BY <2>1 DEF Init
  <2>4. selected \in [Homes -> [Intervals -> 0 .. MaxVersions]]
    BY RangeFacts DEF Init
  <2>5. /\ candidates = {} /\ publishing = {} /\ pricing = {} /\ raced = {}
        /\ seenBy \in [Candidates -> SUBSET Homes]
        /\ assignments \in [Homes -> SUBSET AssignmentRows]
        /\ thresholds \in [Homes -> SUBSET ThresholdRows]
    BY DEF Init
  <2>6. QED
    BY <2>2, <2>3, <2>4, <2>5 DEF RatesTyped
<1>2. VersionsNumberedInOrder
  <2>1. \A p : Mine(p) = {} /\ Numbers(p) = {}
    BY DEF Init, Mine, Numbers
  <2>2. Cardinality({}) = 0
    BY FS_EmptySet
  <2>3. 1 .. 0 = {}
    OBVIOUS
  <2>4. \A p \in Plans : NumberedPlan(p)
    BY <2>1, <2>2, <2>3 DEF NumberedPlan
  <2>5. QED
    BY <2>4, NumberedByPlan
<1>3. PublicationsSound
  <2>1. publishing = {} /\ versions = << >>
    BY DEF Init
  <2>2. IsFiniteSet({}) /\ Cardinality({}) = 0
    BY FS_EmptySet
  <2>3. QED
    BY <2>1, <2>2, RangeFacts DEF PublicationsSound
<1>4. \A c \in Candidates, h \in Homes : ReviewSound(c, h)
  BY DEF Init, ReviewSound, NoReview
<1>5. ProvenanceRetained
  BY DEF Init, ProvenanceRetained
<1>6. \A h \in Homes : AccountSound(h)
  BY DEF Init, AccountSound, Timeline, OneThresholdAStart
<1>7. PricesSound
  BY DEF Init, PricesSound, PricedAsAssigned
<1>8. QED
  BY <1>1, <1>2, <1>3, <1>4, <1>5, <1>6, <1>7 DEF RateInv

\* It holds while nothing happens.
LEMMA RatesUnchanged == RateInv /\ UNCHANGED vars => RateInv'
<1> SUFFICES ASSUME RateInv, UNCHANGED vars PROVE RateInv'
  OBVIOUS
<1>1. RatesTyped'
  BY DEF RateInv, RatesTyped, vars
<1>2. QED
  BY <1>1, CandidatesGrow DEF vars

\* Every step keeps it.
LEMMA RatesStep == RateInv /\ [Next]_vars => RateInv'
<1> SUFFICES ASSUME RateInv, [Next]_vars PROVE RateInv'
  OBVIOUS
<1>1. ASSUME NEW c \in Candidates, NEW h \in Homes,
             \/ RecordRun(c, h)
             \/ EnterCandidate(c, h)
             \/ RejectCandidate(c, h)
             \/ DeleteCandidate(c, h)
             \/ PublishCandidate(c, h)
             \/ ActivateCandidate(c, h)
             \/ \E range \in Offered, rule \in Rules \cup {NoRule} :
                   ReviewCandidate(c, h, range, rule)
      PROVE  RateInv'
  BY <1>1, RecordSteps, ReviewSteps, DeleteStep, PublishSteps, ActivateStep
<1>2. ASSUME NEW h \in Homes, NEW d \in DOMAIN Documents,
             \/ \E complete \in BOOLEAN : ImportBill(h, d, complete)
             \/ CorrectBill(h, d)
             \/ \E range \in Offered, assign \in BOOLEAN : PublishBill(h, d, range, assign)
             \/ DeleteBill(h, d)
      PROVE  RateInv'
  BY <1>2, BillSteps, PublishSteps
<1>3. ASSUME NEW q \in publishing,
             CommitCandidateVersion(q) \/ CommitBillVersion(q) \/ AbortPublication(q)
      PROVE  RateInv'
  BY <1>3, CommitCandidateStep, CommitBillStep, AbortStep
<1>4. CASE UNCHANGED vars
  BY <1>4, RatesUnchanged
<1>5. QED
  BY <1>1, <1>2, <1>3, <1>4, PricingSteps DEF Next

\* The resolver's evidence for a day does not overlap.
OneFound(h, p, season, day) ==
    \A t, u \in ResolvedThresholds(h, p, season, day) : t = u
\* The resolver finds what an assignment's version came with, or the day's season
\* of an earlier assignment.
OwnFound(h, a, season, day) ==
    LET v == versions[a.version]
        found == ResolvedThresholds(h, v.plan, season, day)
    IN  Holds(a, day) /\ v.rule # NoRule /\ v.rule.season \in {season, "all"} =>
            /\ found # {}
            /\ \A t \in found :
                  \/ t.rule = v.rule
                  \/ /\ v.rule.season = "all" /\ t.rule.season = season
                     /\ t.start < a.start

\* What the resolver finds is in force, of the plan, and of one season: the day's,
\* or all if the day's has none.
LEMMA ResolvedAre ==
    ASSUME NEW h, NEW p, NEW season, NEW day,
           NEW t \in ResolvedThresholds(h, p, season, day)
    PROVE  /\ t \in thresholds[h] /\ t.plan = p /\ Holds(t, day)
           /\ \/ t.rule.season = season
              \/ /\ t.rule.season = "all"
                 /\ \A u \in thresholds[h] :
                       u.plan = p /\ Holds(u, day) => u.rule.season # season
BY DEF ResolvedThresholds

\* A row in force is found unless the day's season has another.
LEMMA InForceResolved ==
    ASSUME NEW h, NEW p, NEW season, NEW day,
           NEW t \in thresholds[h], t.plan = p, Holds(t, day),
           t.rule.season \in {season, "all"}
    PROVE  \/ t \in ResolvedThresholds(h, p, season, day)
           \/ \E u \in ResolvedThresholds(h, p, season, day) : u.rule.season = season
BY DEF ResolvedThresholds

\* Two rows of a season are never in force on one day.
LEMMA InForceOnce ==
    ASSUME RatesTyped, NEW h \in Homes, AccountSound(h), NEW day \in Days,
           NEW t \in thresholds[h], NEW u \in thresholds[h],
           SameSeason(t, u), Holds(t, day), Holds(u, day)
    PROVE  t = u
<1>1. Apart(t, u)
  BY DEF AccountSound
<1>2. day \in Nat /\ t.start \in Nat /\ t.end \in Nat /\ u.start \in Nat /\ u.end \in Nat
  BY RangeFacts DEF RatesTyped, ThresholdRows, Days, NoEnd
<1>3. QED
  BY <1>1, <1>2 DEF Apart, Holds

LEMMA ResolverFindsOne ==
    ASSUME RatesTyped, NEW h \in Homes, AccountSound(h), NEW p \in Plans, NEW season,
           NEW day \in Days
    PROVE  OneFound(h, p, season, day)
<1> SUFFICES ASSUME NEW t \in ResolvedThresholds(h, p, season, day),
                    NEW u \in ResolvedThresholds(h, p, season, day)
             PROVE  t = u
  BY DEF OneFound
<1>1. /\ t \in thresholds[h] /\ u \in thresholds[h] /\ Holds(t, day) /\ Holds(u, day)
      /\ t.plan = u.plan /\ t.rule.season = u.rule.season
  BY ResolvedAre
<1>2. SameSeason(t, u)
  BY <1>1 DEF SameSeason
<1>3. QED
  BY <1>1, <1>2, InForceOnce

\* A row found for a day of an assignment does not begin after it does: what begins
\* later begins with a later assignment.
LEMMA FoundNotLater ==
    ASSUME RatesTyped, NEW h \in Homes, AccountSound(h), NEW day \in Days,
           NEW a \in assignments[h], Holds(a, day), NEW t \in thresholds[h], Holds(t, day)
    PROVE  t.start < a.start \/ t.start = a.start
<1>1. PICK b \in assignments[h] : b.start = t.start
  BY DEF AccountSound, Begins
<1>2. a = b \/ a.end <= b.start \/ b.end <= a.start
  BY DEF AccountSound, Timeline, Apart
<1>3. /\ a.start \in Nat /\ a.end \in Nat /\ b.start \in Nat /\ b.end \in Nat
      /\ b.start < b.end /\ day \in Nat
  BY RangeFacts DEF AccountSound, Timeline, Days
<1>4. QED
  BY <1>1, <1>2, <1>3 DEF Holds

LEMMA ResolverFindsOwn ==
    ASSUME RatesTyped, NEW h \in Homes, AccountSound(h), NEW a \in assignments[h], NEW season,
           NEW day \in Days
    PROVE  OwnFound(h, a, season, day)
<1> DEFINE v == versions[a.version]
           found == ResolvedThresholds(h, v.plan, season, day)
<1> SUFFICES ASSUME Holds(a, day), v.rule # NoRule, v.rule.season \in {season, "all"}
             PROVE  /\ found # {}
                    /\ \A t \in found :
                          \/ t.rule = v.rule
                          \/ /\ v.rule.season = "all" /\ t.rule.season = season
                             /\ t.start < a.start
  BY DEF OwnFound
<1>1. PICK own \in thresholds[h] : /\ own.plan = v.plan /\ own.rule = v.rule
                                   /\ own.start = a.start /\ a.end <= own.end
  BY DEF AccountSound, AllowanceOf
<1>2. Holds(own, day)
  <2>1. day \in Nat /\ a.start \in Nat /\ a.end \in Nat /\ own.end \in Nat
    BY RangeFacts DEF RatesTyped, AssignmentRows, ThresholdRows, Days, NoEnd
  <2>2. QED
    BY <1>1, <2>1 DEF Holds
<1> HIDE DEF v
<1>3. found # {}
  BY <1>1, <1>2, InForceResolved
<1>4. ASSUME NEW t \in found, t.rule # v.rule
      PROVE  v.rule.season = "all" /\ t.rule.season = season /\ t.start < a.start
  <2>1. /\ t \in thresholds[h] /\ t.plan = v.plan /\ Holds(t, day)
        /\ \/ t.rule.season = season
           \/ t.rule.season = "all" /\ own.rule.season # season
    BY <1>1, <1>2, ResolvedAre
  <2>2. t # own
    BY <1>1, <1>4
  <2>3. ~(t.rule.season = own.rule.season)
    BY <1>1, <1>2, <2>1, <2>2, InForceOnce DEF SameSeason
  <2>4. v.rule.season = "all" /\ t.rule.season = season
    BY <1>1, <2>1, <2>3
  <2>5. t.start # a.start
    BY <1>1, <2>1, <2>2 DEF AccountSound, OneThresholdAStart
  <2>6. QED
    BY <2>1, <2>4, <2>5, FoundNotLater
<1>5. QED
  BY <1>3, <1>4

\* The invariant implies what the published record promises.
LEMMA RecordFollows == RateInv => RateRecordSound
<1> SUFFICES ASSUME RateInv PROVE RateRecordSound
  OBVIOUS
<1>0. RatesTyped
  BY DEF RateInv
<1>1. TypeOK
  BY <1>0 DEF RatesTyped, TypeOK
<1>2. PublishedAsReviewed
  BY DEF RateInv, ReviewSound, PublishedAsReviewed
<1>3. AssignmentsDisjoint
  <2> SUFFICES ASSUME NEW h \in Homes
               PROVE  /\ \A a, b \in assignments[h] : a # b => a.end <= b.start \/ b.end <= a.start
                      /\ \A a \in assignments[h] :
                            /\ versions[a.version].range.start <= a.start /\ a.start < a.end
                            /\ a.end <= versions[a.version].range.end
    BY DEF AssignmentsDisjoint
  <2>1. AccountSound(h)
    BY DEF RateInv
  <2>2. QED
    BY <2>1 DEF AccountSound, Timeline, Apart, AssignedInRange
<1>4. EachVersionKeepsItsAllowance
  <2> SUFFICES ASSUME NEW h \in Homes, NEW season \in RuleSeasons, NEW day \in Days
               PROVE  /\ \A p \in Plans : OneFound(h, p, season, day)
                      /\ \A a \in assignments[h] : OwnFound(h, a, season, day)
    BY DEF EachVersionKeepsItsAllowance, OneFound, OwnFound
  <2>1. AccountSound(h)
    BY DEF RateInv
  <2>2. QED
    BY <1>0, <2>1, ResolverFindsOne, ResolverFindsOwn
<1>5. QED
  BY <1>1, <1>2, <1>3, <1>4 DEF RateInv, RateRecordSound, PricesSound

\* For every number of homes, plans, candidates, documents, days and versions, the
\* published record of rates is sound: versions numbered without gaps, kept with
\* their source, as reviewed; accounts with one rate a day, for which the resolver
\* finds the version's own allowance or, where that is for all seasons, the day's
\* season of an earlier one; prices that follow the assignments but for the
\* worker's race
\* (rate_workflow.py: publish, activate, replace_rate_assignment).
THEOREM RecordCorrect == Spec => []RateRecordSound
<1>1. Spec => []RateInv
  BY RatesInitially, RatesStep, PTL DEF Spec
<1>2. QED
  BY <1>1, RecordFollows, PTL

--------------------------------------------------------------------------------
(* Days that lose their rate *)

\* What RateLostOnlyAfterBoundedVersion says of a step, for one account and day.
DayKeepsRate(h, day) ==
    (\E a \in assignments[h] : Holds(a, day)) =>
        \/ \E a \in assignments'[h] : Holds(a, day)
        \/ \E a \in assignments'[h] \ assignments[h] :
              versions'[a.version].range.end # NoEnd /\ a.end <= day

\* A day is left without a rate when the version that cut its rate short ended
\* before it: had a later rate bounded the new one, it would have overlapped the
\* one that was cut.
LEMMA AssignLosesDays ==
    ASSUME RateInv, NEW h \in Homes, NEW v \in 1 .. MaxVersions, NEW range \in Ranges,
           NEW p, NEW rule, versions'[v].range = range,
           \A a \in assignments[h] : a.version # v, Assign(h, v, p, range, rule)
    PROVE  \A g \in Homes, day \in Days : DayKeepsRate(g, day)
<1> SUFFICES ASSUME NEW g \in Homes, NEW day \in Days, NEW a \in assignments[g], Holds(a, day)
             PROVE  \/ \E b \in assignments'[g] : Holds(b, day)
                    \/ \E b \in assignments'[g] \ assignments[g] :
                          versions'[b.version].range.end # NoEnd /\ b.end <= day
  BY DEF DayKeepsRate
<1> DEFINE A == assignments[h]
           s == range.start
           e == AssignedEnd(h, range)
           new == [version |-> v, start |-> s, end |-> e]
<1>1. RatesTyped /\ AccountSound(h)
  BY DEF RateInv
<1>2. /\ Assignable(h, v, range) /\ assignments'[h] = NewAssignments(h, v, range)
      /\ \A x \in Homes \ {h} : assignments'[x] = assignments[x]
  BY <1>1 DEF Assign, RatesTyped
<1>3. /\ ~Begins(A, s) /\ assignments'[h] = Clipped(A, s) \cup {new}
      /\ e \in Nat /\ s < e /\ e <= range.end
      /\ e = range.end \/ \E b \in A : b.start > s /\ e = b.start
  BY <1>1, <1>2, AssignedRows
<1>4. Timeline(A) /\ Cuttable(A, s) /\ s \in Nat /\ day \in Nat /\ day < NoEnd /\ NoEnd \in Nat
  BY <1>1, RowsCuttable, RangeFacts DEF AccountSound, RatesTyped, Days, NoEnd
<1>5. CASE g # h
  BY <1>2, <1>5
<1>6. CASE g = h
  <2>1. a \in A /\ a.start \in Nat /\ a.end \in Nat /\ a.start < a.end /\ a.start # s
    BY <1>3, <1>4, <1>6 DEF Timeline, Begins
  <2>2. Cut(a, s) \in assignments'[h] /\ Cut(a, s).start = a.start
    BY <1>3, <1>4, <2>1, RowClipped, CutIs
  <2>3. Cut(a, s).end = IF a.start < s /\ a.end > s THEN s ELSE a.end
    BY <1>4, <2>1, CutIs
  <2>4. CASE Holds(Cut(a, s), day)
    BY <1>6, <2>2, <2>4
  <2>5. CASE ~Holds(Cut(a, s), day)
    <3>1. a.start < s /\ s <= day /\ day < a.end
      BY <1>4, <2>1, <2>2, <2>3, <2>5 DEF Holds
    <3>2. PICK b \in assignments'[h] : b = new
      BY <1>3
    <3>3. b.version = v /\ b.start = s /\ b.end = e
      BY <3>2
    <3>4. CASE day < e
      BY <1>6, <3>1, <3>3, <3>4 DEF Holds
    <3>5. CASE e <= day
      <4>1. e = range.end
        <5>1. SUFFICES ASSUME NEW c \in A, c.start > s, e = c.start
                       PROVE  FALSE
          BY <1>3
        <5>2. c # a /\ Apart(a, c) /\ c.end \in Nat /\ c.start \in Nat /\ c.start < c.end
          BY <1>4, <2>1, <3>1, <5>1 DEF Timeline
        <5>3. QED
          BY <1>4, <2>1, <3>1, <3>5, <5>1, <5>2 DEF Apart
      <4>2. b \notin A
        BY <1>3, <3>3 DEF Begins
      <4>3. versions'[b.version].range.end # NoEnd /\ b.end <= day
        BY <1>3, <1>4, <3>3, <3>5, <4>1
      <4>4. QED
        BY <1>6, <4>2, <4>3
    <3>6. QED
      BY <1>3, <1>4, <3>4, <3>5
  <2>6. QED
    BY <2>4, <2>5
<1>7. QED
  BY <1>5, <1>6

\* Only an assignment that ends by itself takes a rate off a day.
LEMMA StepKeepsDays ==
    RateInv /\ [Next]_vars => \A h \in Homes, day \in Days : DayKeepsRate(h, day)
<1> SUFFICES ASSUME RateInv, [Next]_vars
             PROVE  \A h \in Homes, day \in Days : DayKeepsRate(h, day)
  OBVIOUS
<1>1. CASE assignments' = assignments
  BY <1>1 DEF DayKeepsRate
<1>2. ASSUME NEW c \in Candidates, NEW h \in Homes, ActivateCandidate(c, h)
      PROVE  \A g \in Homes, day \in Days : DayKeepsRate(g, day)
  <2> DEFINE v == reviews[c][h].version
             range == versions[v].range
  <2>1. RatesTyped /\ ReviewSound(c, h) /\ reviews[c][h].state = "published" /\ Len(versions) \in Nat
    BY <1>2 DEF RateInv, ActivateCandidate, RatesTyped
  <2>2. v \in 1 .. Len(versions) /\ \A a \in assignments[h] : a.version # v
    BY <2>1 DEF ReviewSound
  <2>3. v \in 1 .. MaxVersions /\ range \in Ranges
    <3>1. versions[v] \in VersionRows /\ v \in 1 .. MaxVersions
      BY <2>1, <2>2, RangeFacts DEF RatesTyped
    <3>2. QED
      BY <3>1 DEF VersionRows
  <2>4. Assign(h, v, versions[v].plan, range, EffectiveRule(c, h)) /\ versions'[v].range = range
    BY <1>2 DEF ActivateCandidate
  <2> HIDE DEF v, range
  <2>5. QED
    BY <2>2, <2>3, <2>4, AssignLosesDays
<1>3. ASSUME NEW q \in publishing, CommitBillVersion(q), q.assign
      PROVE  \A g \in Homes, day \in Days : DayKeepsRate(g, day)
  <2> DEFINE n == Len(versions) + 1
  <2>1. q \in Publications /\ q.candidate = 0
    BY <1>3 DEF RateInv, RatesTyped, CommitBillVersion
  <2>2. publishing' = publishing \ {q} /\ versions' = Append(versions, RowOf(q))
    BY <1>3, <2>1 DEF CommitBillVersion, RowOf
  <2>3. versions'[n] = RowOf(q) /\ n \in 1 .. MaxVersions /\ Len(versions) \in Nat
    BY <2>2, VersionCommitted
  <2>4. versions'[n].range = q.range /\ q.range \in Ranges /\ q.home \in Homes
    BY <2>1, <2>3 DEF RowOf, Publications
  <2>5. \A a \in assignments[q.home] : a.version # n
    BY <2>3, <2>4 DEF RateInv, AccountSound, AssignedInRange
  <2>6. Assign(q.home, n, q.plan, q.range, q.rule)
    BY <1>3 DEF CommitBillVersion
  <2> HIDE DEF n
  <2>7. QED
    BY <2>3, <2>4, <2>5, <2>6, AssignLosesDays
<1>4. \/ assignments' = assignments
      \/ \E c \in Candidates, h \in Homes : ActivateCandidate(c, h)
      \/ \E q \in publishing : CommitBillVersion(q) /\ q.assign
  <2>1. CASE UNCHANGED vars
    BY <2>1 DEF vars
  <2>2. ASSUME NEW c \in Candidates, NEW h \in Homes,
               \/ RecordRun(c, h) \/ EnterCandidate(c, h) \/ RejectCandidate(c, h)
               \/ DeleteCandidate(c, h) \/ PublishCandidate(c, h)
               \/ \E range \in Offered, rule \in Rules \cup {NoRule} :
                     ReviewCandidate(c, h, range, rule)
        PROVE  assignments' = assignments
    BY <2>2 DEF RecordRun, EnterCandidate, RejectCandidate, DeleteCandidate,
                PublishCandidate, ReviewCandidate
  <2>3. ASSUME NEW h \in Homes, NEW d \in DOMAIN Documents,
               \/ \E complete \in BOOLEAN : ImportBill(h, d, complete)
               \/ CorrectBill(h, d)
               \/ \E range \in Offered, assign \in BOOLEAN : PublishBill(h, d, range, assign)
               \/ DeleteBill(h, d)
        PROVE  assignments' = assignments
    BY <2>3 DEF ImportBill, CorrectBill, PublishBill, DeleteBill
  <2>4. ASSUME NEW q \in publishing, CommitCandidateVersion(q) \/ AbortPublication(q)
        PROVE  assignments' = assignments
    BY <2>4 DEF CommitCandidateVersion, AbortPublication
  <2>5. ASSUME NEW q \in publishing, CommitBillVersion(q), ~q.assign
        PROVE  assignments' = assignments
    BY <2>5 DEF CommitBillVersion
  <2>6. ASSUME \/ \E h \in Homes, i \in Intervals : PriceInterval(h, i)
               \/ CommitPrice \/ AbortPrice
        PROVE  assignments' = assignments
    BY <2>6 DEF PriceInterval, CommitPrice, AbortPrice
  <2>7. QED
    BY <2>1, <2>2, <2>3, <2>4, <2>5, <2>6 DEF Next
<1>5. QED
  BY <1>1, <1>2, <1>3, <1>4

\* For every account, a day that has a rate loses it only to a bounded version that
\* was assigned over it and ends before that day (replace_rate_assignment).
THEOREM DaysKeepRates == Spec => RateLostOnlyAfterBoundedVersion
<1>1. Spec => []RateInv
  BY RatesInitially, RatesStep, PTL DEF Spec
<1>2. RateInv /\ [Next]_vars =>
        [\A h \in Homes, day \in Days :
          (\E a \in assignments[h] : Holds(a, day)) =>
              \/ \E a \in assignments'[h] : Holds(a, day)
              \/ \E a \in assignments'[h] \ assignments[h] :
                    versions'[a.version].range.end # NoEnd /\ a.end <= day]_vars
  BY StepKeepsDays DEF DayKeepsRate
<1>3. QED
  BY <1>1, <1>2, PTL DEF Spec, RateLostOnlyAfterBoundedVersion

--------------------------------------------------------------------------------
(* The crawl: queues *)

\* What a set becomes as a list: each element once.
LEMMA Listed ==
    ASSUME NEW S, IsFiniteSet(S)
    PROVE  /\ SetToSeq(S) \in Seq(S)
           /\ IsInjective(SetToSeq(S)) /\ Range(SetToSeq(S)) = S
<1> DEFINE n == Cardinality(S)
           f == SetToSeq(S)
<1>1. n \in Nat /\ ExistsBijection(1 .. n, S)
  BY FS_CardinalityType
<1>2. \E g \in [1 .. n -> S] : IsInjective(g)
  BY <1>1, Zenon DEF ExistsBijection, Bijection, Injection
<1>3. f \in [1 .. n -> S] /\ IsInjective(f)
  BY <1>2, Zenon DEF SetToSeq
<1> HIDE DEF f
<1>4. f \in Injection(1 .. n, S)
  BY <1>3, Zenon DEF Injection
<1>5. Cardinality(1 .. n) = n
  <2>1. Cardinality(1 .. n) = IF 1 > n THEN 0 ELSE n - 1 + 1
    BY <1>1, FS_Interval
  <2>2. QED
    BY <1>1, <2>1
<1>6. f \in Surjection(1 .. n, S)
  BY <1>4, <1>5, FS_Injection
<1>7. \A t \in S : \E s \in 1 .. n : f[s] = t
  BY <1>6, Zenon DEF Surjection
<1>8. Range(f) = S
  BY <1>3, <1>7 DEF Range
<1>9. f \in Seq(S)
  BY <1>1, <1>3
<1>10. QED
  BY <1>3, <1>8, <1>9 DEF f

\* The queue without its head.
LEMMA Dequeued ==
    ASSUME NEW S, NEW q \in Seq(S), q # <<>>, IsInjective(q)
    PROVE  /\ Head(q) \in S /\ Head(q) \in Range(q)
           /\ Tail(q) \in Seq(S) /\ IsInjective(Tail(q))
           /\ Range(Tail(q)) = Range(q) \ {Head(q)}
<1>1. /\ Len(q) \in Nat /\ Len(q) >= 1 /\ DOMAIN q = 1 .. Len(q) /\ Head(q) = q[1]
      /\ Tail(q) \in Seq(S) /\ Len(Tail(q)) = Len(q) - 1
      /\ DOMAIN Tail(q) = 1 .. Len(q) - 1
      /\ \A i \in 1 .. Len(q) - 1 : Tail(q)[i] = q[i + 1]
  OBVIOUS
<1>2. q[1] \in S /\ q[1] \in Range(q)
  BY <1>1 DEF Range
<1>3. IsInjective(Tail(q))
  <2> SUFFICES ASSUME NEW a \in 1 .. Len(q) - 1, NEW b \in 1 .. Len(q) - 1,
                      Tail(q)[a] = Tail(q)[b]
               PROVE  a = b
    BY <1>1 DEF IsInjective
  <2>1. a + 1 \in DOMAIN q /\ b + 1 \in DOMAIN q /\ q[a + 1] = q[b + 1]
    BY <1>1
  <2>2. a + 1 = b + 1
    BY <2>1 DEF IsInjective
  <2>3. QED
    BY <2>2
<1>4. Range(Tail(q)) = Range(q) \ {q[1]}
  <2>1. ASSUME NEW x \in Range(Tail(q)) PROVE x \in Range(q) /\ x # q[1]
    <3>1. PICK i \in 1 .. Len(q) - 1 : x = Tail(q)[i]
      BY <1>1 DEF Range
    <3>2. x = q[i + 1] /\ i + 1 \in DOMAIN q /\ 1 \in DOMAIN q /\ i + 1 # 1
      BY <1>1, <3>1
    <3>3. QED
      BY <3>2 DEF Range, IsInjective
  <2>2. ASSUME NEW x \in Range(q), x # q[1] PROVE x \in Range(Tail(q))
    <3>1. PICK i \in 1 .. Len(q) : x = q[i]
      BY <1>1 DEF Range
    <3>2. i - 1 \in 1 .. Len(q) - 1
      BY <1>1, <2>2, <3>1
    <3>3. Tail(q)[i - 1] = x
      BY <1>1, <3>1, <3>2
    <3>4. QED
      BY <1>1, <3>2, <3>3 DEF Range
  <2>3. QED
    BY <2>1, <2>2
<1>5. QED
  BY <1>1, <1>2, <1>3, <1>4

\* A queue with another behind it.
LEMMA Appended ==
    ASSUME NEW S, NEW q \in Seq(S), NEW r \in Seq(S), IsInjective(q), IsInjective(r),
           Range(q) \cap Range(r) = {}
    PROVE  /\ q \o r \in Seq(S) /\ IsInjective(q \o r)
           /\ Range(q \o r) = Range(q) \cup Range(r)
<1> DEFINE m == Len(q)
           n == Len(r)
           c == q \o r
<1>1. /\ m \in Nat /\ n \in Nat /\ DOMAIN q = 1 .. m /\ DOMAIN r = 1 .. n
      /\ c \in Seq(S) /\ DOMAIN c = 1 .. m + n
      /\ \A i \in 1 .. m + n : c[i] = IF i <= m THEN q[i] ELSE r[i - m]
  OBVIOUS
<1> HIDE DEF m, n, c
<1>2. /\ \A i \in 1 .. m : c[i] = q[i] /\ i \in 1 .. m + n
      /\ \A i \in 1 .. n : c[i + m] = r[i] /\ i + m \in 1 .. m + n
      /\ \A i \in 1 .. m + n : i \in 1 .. m \/ (i - m \in 1 .. n /\ i = (i - m) + m)
  BY <1>1
<1>3. Range(c) = Range(q) \cup Range(r)
  <2>1. ASSUME NEW x \in Range(c) PROVE x \in Range(q) \cup Range(r)
    <3>1. PICK i \in 1 .. m + n : x = c[i]
      BY <1>1 DEF Range
    <3>2. CASE i \in 1 .. m
      BY <1>1, <1>2, <3>1, <3>2 DEF Range
    <3>3. CASE i - m \in 1 .. n /\ i = (i - m) + m
      <4>1. x = r[i - m]
        BY <1>2, <3>1, <3>3
      <4>2. QED
        BY <1>1, <3>3, <4>1 DEF Range
    <3>4. QED
      BY <1>2, <3>2, <3>3
  <2>2. ASSUME NEW x \in Range(q) PROVE x \in Range(c)
    BY <1>1, <1>2 DEF Range
  <2>3. ASSUME NEW x \in Range(r) PROVE x \in Range(c)
    <3>1. PICK i \in 1 .. n : x = r[i]
      BY <1>1 DEF Range
    <3>2. x = c[i + m] /\ i + m \in DOMAIN c
      BY <1>1, <1>2, <3>1
    <3>3. QED
      BY <3>2 DEF Range
  <2>4. QED
    BY <2>1, <2>2, <2>3
<1>4. IsInjective(c)
  <2> SUFFICES ASSUME NEW i \in 1 .. m + n, NEW j \in 1 .. m + n, c[i] = c[j]
               PROVE  i = j
    BY <1>1 DEF IsInjective
  <2>1. CASE i \in 1 .. m /\ j \in 1 .. m
    BY <1>1, <1>2, <2>1 DEF IsInjective
  <2>2. CASE i \notin 1 .. m /\ j \notin 1 .. m
    <3>1. i - m \in 1 .. n /\ j - m \in 1 .. n
      BY <1>2, <2>2
    <3>2. c[i] = r[i - m] /\ c[j] = r[j - m]
      BY <1>1, <2>2
    <3>3. i - m = j - m
      BY <1>1, <3>1, <3>2 DEF IsInjective
    <3>4. QED
      BY <1>1, <3>3
  <2>3. ASSUME NEW a \in 1 .. m, NEW b \in 1 .. m + n, b \notin 1 .. m, c[a] = c[b]
        PROVE  FALSE
    <3>1. b - m \in 1 .. n /\ c[b] = r[b - m] /\ c[a] = q[a]
      BY <1>1, <1>2, <2>3
    <3>2. q[a] \in Range(q) /\ r[b - m] \in Range(r)
      BY <1>1, <3>1 DEF Range
    <3>3. QED
      BY <2>3, <3>1, <3>2
  <2>4. QED
    BY <2>1, <2>2, <2>3
<1>5. QED
  BY <1>1, <1>3, <1>4 DEF c

--------------------------------------------------------------------------------
(* The crawl: evidence of families *)

\* The states of an inventory entry, with none.
EntryStates == States \cup {"none"}

\* The order of evidence.
LEMMA Priorities ==
    /\ Priority("none") = 0 /\ Priority("requires_parser") = 1
    /\ Priority("excluded") = 2 /\ Priority("parsed") = 3
BY DEF Priority

\* The strongest of some evidence: one of it, and something if anything is.
LEMMA Strongest ==
    ASSUME NEW E, E \subseteq EntryStates, E # {}
    PROVE  LET e == CHOOSE x \in E : \A o \in E : Priority(o) <= Priority(x)
           IN  e \in EntryStates /\ (E # {"none"} => e # "none")
<1> DEFINE P(x) == \A o \in E : Priority(o) <= Priority(x)
           e == CHOOSE x \in E : P(x)
<1>1. \A x \in E : x \in {"none", "requires_parser", "excluded", "parsed"}
  BY DEF EntryStates, States
<1>2. \E x \in E : P(x)
  <2>1. CASE "parsed" \in E
    BY <1>1, <2>1, Priorities
  <2>2. CASE "parsed" \notin E /\ "excluded" \in E
    BY <1>1, <2>2, Priorities
  <2>3. CASE "parsed" \notin E /\ "excluded" \notin E /\ "requires_parser" \in E
    BY <1>1, <2>3, Priorities
  <2>4. CASE E = {"none"}
    BY <2>4, Priorities
  <2>5. QED
    BY <1>1, <2>1, <2>2, <2>3, <2>4
<1>3. e \in E /\ P(e)
  BY <1>2
<1> HIDE DEF e
<1>4. E # {"none"} => e # "none"
  <2> SUFFICES ASSUME NEW x \in E, x # "none", e = "none"
               PROVE  FALSE
    BY <1>3
  <2>1. Priority(x) <= 0
    BY <1>3, Priorities
  <2>2. QED
    BY <1>1, <2>1, Priorities
<1>5. QED
  BY <1>1, <1>3, <1>4 DEF e, EntryStates, States

\* The links of a page.
PageLinks == PartialMaps(Targets, Families)

\* What a page links to.
LEMMA PageLinksAre ==
    \A found \in PageLinks : /\ DOMAIN found \subseteq Targets
                             /\ \A u \in DOMAIN found : found[u] \in Families
BY DEF PageLinks, PartialMaps

\* A page says something of every family it shows.
LEMMA EvidenceOf ==
    ASSUME NEW found \in PageLinks, NEW headings, NEW plans, NEW f
    PROVE  /\ PageEvidence(f, found, headings, plans) \in EntryStates
           /\ (f \in headings \/ f \in plans \/ \E u \in DOMAIN found : found[u] = f)
                 => PageEvidence(f, found, headings, plans) # "none"
<1> DEFINE linked(targets) == \E u \in DOMAIN found \cap targets : found[u] = f
<1>1. PageEvidence(f, found, headings, plans) =
        CASE f \in headings \/ linked(Urls \cup {RootUrl}) ->
                IF f \in plans THEN "parsed" ELSE "requires_parser"
          [] f \notin headings /\ ~linked(Urls \cup {RootUrl}) /\ linked(OffsiteUrls) -> "excluded"
          [] OTHER -> IF f \in plans THEN "parsed" ELSE "none"
  BY DEF PageEvidence
<1>2. (\E u \in DOMAIN found : found[u] = f) => linked(Urls \cup {RootUrl}) \/ linked(OffsiteUrls)
  BY PageLinksAre DEF Targets
<1> HIDE DEF linked
<1>3. CASE f \in headings \/ linked(Urls \cup {RootUrl})
  BY <1>1, <1>3 DEF EntryStates, States
<1>4. CASE f \notin headings /\ ~linked(Urls \cup {RootUrl}) /\ linked(OffsiteUrls)
  BY <1>1, <1>4 DEF EntryStates, States
<1>5. CASE f \notin headings /\ ~linked(Urls \cup {RootUrl}) /\ ~linked(OffsiteUrls)
  <2>1. PageEvidence(f, found, headings, plans) = IF f \in plans THEN "parsed" ELSE "none"
    BY <1>1, <1>5
  <2>2. QED
    BY <1>2, <1>5, <2>1 DEF EntryStates, States
<1>6. QED
  BY <1>3, <1>4, <1>5

\* The entries after a page: none is forgotten, and every family the page shows or
\* a new link names has one.
LEMMA EntriesAfter ==
    ASSUME entries \in [Families -> EntryStates], NEW found \in PageLinks,
           NEW headings, NEW plans
    PROVE  /\ EntriesWith(found, headings, plans) \in [Families -> EntryStates]
           /\ \A f \in Families :
                 (\/ entries[f] # "none"
                  \/ f \in headings \/ f \in plans
                  \/ \E u \in DOMAIN found : found[u] = f)
                    => EntriesWith(found, headings, plans)[f] # "none"
<1> DEFINE evidence(f) == {entries[f], PageEvidence(f, found, headings, plans)} \cup
                          {LinkEvidence(u) : u \in {t \in NewTargets(found) : found[t] = f}}
           best(f) == CHOOSE e \in evidence(f) : \A o \in evidence(f) : Priority(o) <= Priority(e)
<1>1. EntriesWith(found, headings, plans) = [f \in Families |-> best(f)]
  BY DEF EntriesWith
<1>2. ASSUME NEW f \in Families
      PROVE  /\ best(f) \in EntryStates
             /\ (\/ entries[f] # "none"
                 \/ f \in headings \/ f \in plans
                 \/ \E u \in DOMAIN found : found[u] = f) => best(f) # "none"
  <2>1. \A u : LinkEvidence(u) \in EntryStates
    BY DEF LinkEvidence, EntryStates, States
  <2>2. evidence(f) \subseteq EntryStates /\ evidence(f) # {}
    BY <2>1, EvidenceOf
  <2>3. (\/ entries[f] # "none"
         \/ f \in headings \/ f \in plans
         \/ \E u \in DOMAIN found : found[u] = f) => evidence(f) # {"none"}
    BY EvidenceOf
  <2> HIDE DEF evidence
  <2>4. best(f) \in EntryStates /\ (evidence(f) # {"none"} => best(f) # "none")
    BY <2>2, Strongest
  <2>5. QED
    BY <2>3, <2>4
<1> HIDE DEF best
<1>3. QED
  BY <1>1, <1>2

--------------------------------------------------------------------------------
(* The crawl: links *)

\* The type of the link records.
LinkTable == [Targets -> [resolution : Resolutions, family : Families \cup {"none"},
                          depth : 0 .. MaxDepth + 1]]

\* What add_links makes of a new target: pending if it is on the host, accepted
\* only if it is off-site or the root.
LEMMA DiscoveredIs ==
    ASSUME NEW u \in Targets, NEW f \in Families, NEW d \in 0 .. MaxDepth + 1, NEW plans
    PROVE  LET r == Discovered(u, f, d, plans)
           IN  /\ r \in [resolution : Resolutions, family : Families \cup {"none"},
                         depth : 0 .. MaxDepth + 1]
               /\ r.family = f /\ r.resolution # "none"
               /\ r.resolution = "pending" <=> u \in Urls
               /\ r.resolution \in AcceptedResolutions => u \in OffsiteUrls \cup {RootUrl}
<1> DEFINE how == CASE u \in OffsiteUrls -> "explicitly_excluded"
                    [] u = RootUrl /\ f \in plans -> "parsed"
                    [] u = RootUrl /\ f \notin plans -> "requires_parser"
                    [] OTHER -> "pending"
<1>1. Discovered(u, f, d, plans) = [resolution |-> how, family |-> f, depth |-> d]
  BY DEF Discovered
<1>2. /\ how \in Resolutions /\ how # "none" /\ (how = "pending" <=> u \in Urls)
      /\ how \in AcceptedResolutions => u \in OffsiteUrls \cup {RootUrl}
  <2>1. CASE u \in OffsiteUrls
    <3>1. how = "explicitly_excluded" /\ u \notin Urls
      BY <2>1, CrawlAssumption
    <3>2. QED
      BY <2>1, <3>1 DEF Resolutions, AcceptedResolutions
  <2>2. CASE u = RootUrl
    <3>1. u \notin OffsiteUrls /\ u \notin Urls
      BY <2>2, CrawlAssumption
    <3>2. how \in {"parsed", "requires_parser"}
      <4>1. CASE f \in plans
        BY <2>2, <3>1, <4>1
      <4>2. CASE f \notin plans
        BY <2>2, <3>1, <4>2
      <4>3. QED
        BY <4>1, <4>2
    <3>3. QED
      BY <2>2, <3>1, <3>2 DEF Resolutions, AcceptedResolutions
  <2>3. CASE u \in Urls
    <3>1. u \notin OffsiteUrls /\ u # RootUrl
      BY <2>3, CrawlAssumption
    <3>2. how = "pending"
      BY <3>1
    <3>3. QED
      BY <2>3, <3>2 DEF Resolutions, AcceptedResolutions
  <2>4. QED
    BY <2>1, <2>2, <2>3 DEF Targets
<1> HIDE DEF how
<1>3. QED
  BY <1>1, <1>2

\* The link records after a page: the known ones stay as they are.
LEMMA LinksAfter ==
    ASSUME links \in LinkTable, NEW found \in PageLinks, NEW d \in 0 .. MaxDepth + 1, NEW plans
    PROVE  LET added == WithLinks(links, found, d, plans)
               new == NewTargets(found)
           IN  /\ added \in LinkTable /\ new \subseteq Targets
               /\ \A u \in Targets \ new : added[u] = links[u]
               /\ \A u \in new :
                    /\ links[u].resolution = "none" /\ u \in DOMAIN found
                    /\ added[u].family = found[u] /\ added[u].resolution # "none"
                    /\ added[u].resolution = "pending" <=> u \in Urls
                    /\ added[u].resolution \in AcceptedResolutions =>
                          u \in OffsiteUrls \cup {RootUrl}
<1> DEFINE added == WithLinks(links, found, d, plans)
           new == NewTargets(found)
           Row == [resolution : Resolutions, family : Families \cup {"none"},
                   depth : 0 .. MaxDepth + 1]
<1>1. new \subseteq DOMAIN found /\ new \subseteq Targets /\ \A u \in new : links[u].resolution = "none"
  BY PageLinksAre DEF NewTargets
<1>2. added = [u \in Targets |-> IF u \in new THEN Discovered(u, found[u], d, plans) ELSE links[u]]
  BY DEF WithLinks
<1> HIDE DEF added, new
<1>3. ASSUME NEW u \in new
      PROVE  /\ added[u] \in Row
             /\ added[u].family = found[u] /\ added[u].resolution # "none"
             /\ added[u].resolution = "pending" <=> u \in Urls
             /\ added[u].resolution \in AcceptedResolutions => u \in OffsiteUrls \cup {RootUrl}
  <2>1. u \in Targets /\ found[u] \in Families
    BY <1>1, PageLinksAre
  <2>2. added[u] = Discovered(u, found[u], d, plans)
    BY <1>2, <2>1
  <2>3. QED
    BY <2>1, <2>2, DiscoveredIs
<1>4. \A u \in Targets \ new : added[u] = links[u] /\ links[u] \in Row
  BY <1>2 DEF LinkTable
<1>5. added \in LinkTable
  BY <1>1, <1>2, <1>3, <1>4 DEF LinkTable
<1>6. QED
  BY <1>1, <1>3, <1>4, <1>5 DEF added, new

\* The new targets on the host are queued, each once.
LEMMA EnqueuedAre ==
    ASSUME NEW found
    PROVE  /\ Enqueued(found) \in Seq(Urls) /\ IsInjective(Enqueued(found))
           /\ Range(Enqueued(found)) = NewTargets(found) \cap Urls
<1> DEFINE S == {u \in NewTargets(found) : u \in Urls}
<1>1. S \subseteq Urls /\ S = NewTargets(found) \cap Urls
  OBVIOUS
<1>2. IsFiniteSet(S)
  BY <1>1, FS_Subset, CrawlAssumption
<1>3. Enqueued(found) = SetToSeq(S)
  BY DEF Enqueued
<1> HIDE DEF S
<1>4. SetToSeq(S) \in Seq(S) /\ IsInjective(SetToSeq(S)) /\ Range(SetToSeq(S)) = S
  BY <1>2, Listed
<1>5. SetToSeq(S) \in Seq(Urls)
  BY <1>1, <1>4
<1>6. QED
  BY <1>1, <1>3, <1>4, <1>5

\* Links after one of them got a resolution.
ResolvedTo(after, ls, v, r) == after = [ls EXCEPT ![v].resolution = r]

\* Resolving a link changes nothing else.
LEMMA Resolved ==
    ASSUME NEW ls \in LinkTable, NEW v \in Targets, NEW r \in Resolutions,
           NEW after, ResolvedTo(after, ls, v, r)
    PROVE  /\ after \in LinkTable
           /\ \A u \in Targets : /\ after[u].family = ls[u].family
                                 /\ after[u].depth = ls[u].depth
                                 /\ u # v => after[u] = ls[u]
           /\ after[v].resolution = r
<1> DEFINE Row == [resolution : Resolutions, family : Families \cup {"none"},
                   depth : 0 .. MaxDepth + 1]
           row == [ls[v] EXCEPT !.resolution = r]
<1>1. ls[v] \in Row
  BY DEF LinkTable
<1>2. row \in Row /\ row.family = ls[v].family /\ row.depth = ls[v].depth /\ row.resolution = r
  BY <1>1
<1>3. after = [ls EXCEPT ![v] = row]
  BY DEF ResolvedTo
<1> HIDE DEF row
<1>4. QED
  BY <1>2, <1>3 DEF LinkTable

--------------------------------------------------------------------------------
(* The crawl: what stays true *)

\* Nothing is known before the root page is read.
NothingBefore == phase = "start" => \A u \in Targets : links[u].resolution = "none"

\* The root page is captured when the crawl runs.
RootCaptured == phase = "crawl" => RootUrl \in captured

\* The family of every known link has an entry.
LinksEntered ==
    \A u \in Targets : links[u].resolution # "none" =>
        links[u].family \in Families /\ entries[links[u].family] # "none"

\* Only a captured or an off-site document is accounted for.
AcceptedCaptured ==
    \A u \in Targets : links[u].resolution \in AcceptedResolutions =>
        u \in captured \cup OffsiteUrls

\* Every family seen on a captured page has an entry.
PagesEntered == \A f \in onPages : entries[f] # "none"

\* The inductive invariant of the crawl.
CrawlInv ==
    /\ CrawlSound /\ IsFiniteSet(fetchedUrls)
    /\ NothingBefore /\ RootCaptured /\ LinksEntered /\ AcceptedCaptured /\ PagesEntered

\* The head of the queue is pending, and its family has an entry.
LEMMA Visited ==
    ASSUME CrawlInv, Visit
    PROVE  /\ links \in LinkTable /\ NextUrl \in Urls /\ NextUrl \in Targets
           /\ links[NextUrl].resolution = "pending" /\ links[NextUrl].family \in Families
           /\ entries[links[NextUrl].family] # "none"
           /\ NextUrl \in Range(queue) /\ Tail(queue) \in Seq(Urls) /\ IsInjective(Tail(queue))
           /\ Range(Tail(queue)) = Range(queue) \ {NextUrl}
           /\ {u \in Targets : links[u].resolution = "pending"} = Range(queue)
<1>1. queue \in Seq(Urls) /\ queue # <<>> /\ IsInjective(queue)
  BY DEF CrawlInv, CrawlSound, CrawlTypeOK, PendingLinksAreQueued, Visit
<1>2. /\ Head(queue) \in Urls /\ Head(queue) \in Range(queue)
      /\ Tail(queue) \in Seq(Urls) /\ IsInjective(Tail(queue))
      /\ Range(Tail(queue)) = Range(queue) \ {Head(queue)}
  BY <1>1, Dequeued
<1>3. {u \in Targets : links[u].resolution = "pending"} = Range(queue)
  BY DEF CrawlInv, CrawlSound, PendingLinksAreQueued, Visit
<1>4. NextUrl \in Targets /\ links[NextUrl].resolution = "pending"
  BY <1>2, <1>3 DEF NextUrl
<1>5. links[NextUrl].family \in Families /\ entries[links[NextUrl].family] # "none"
  BY <1>4 DEF CrawlInv, LinksEntered
<1>6. links \in LinkTable
  BY DEF CrawlInv, CrawlSound, CrawlTypeOK, LinkTable
<1>7. QED
  BY <1>2, <1>3, <1>4, <1>5, <1>6 DEF NextUrl

\* A fetch stays within the limit of documents.
LEMMA FetchedOne ==
    ASSUME CrawlInv, Fetching
    PROVE  /\ IsFiniteSet(fetchedUrls') /\ fetchedUrls' \subseteq Targets
           /\ Cardinality(fetchedUrls') <= MaxDocuments
<1>1. /\ fetchedUrls' = fetchedUrls \cup {NextUrl} /\ NextUrl \in Targets
      /\ Cardinality(fetchedUrls) < MaxDocuments
  BY Visited DEF Fetching, WithinDocuments
<1>2. IsFiniteSet(fetchedUrls) /\ fetchedUrls \subseteq Targets
  BY DEF CrawlInv, CrawlSound, CrawlTypeOK
<1>3. /\ IsFiniteSet(fetchedUrls \cup {NextUrl})
      /\ Cardinality(fetchedUrls) \in Nat
      /\ Cardinality(fetchedUrls \cup {NextUrl}) =
            IF NextUrl \in fetchedUrls THEN Cardinality(fetchedUrls) ELSE Cardinality(fetchedUrls) + 1
  BY <1>2, FS_AddElement, FS_CardinalityType
<1> DEFINE n == Cardinality(fetchedUrls)
           m == Cardinality(fetchedUrls \cup {NextUrl})
<1>4. n \in Nat /\ n < MaxDocuments /\ (m = n \/ m = n + 1)
  BY <1>1, <1>3
<1> HIDE DEF n, m
<1>5. m <= MaxDocuments
  BY <1>4, CrawlAssumption
<1>6. QED
  BY <1>1, <1>2, <1>3, <1>5 DEF m

\* What a page or a document adds stays within the limit of bytes.
LEMMA CountedIs ==
    ASSUME CrawlInv, Counted
    PROVE  bytes' \in 0 .. MaxBytes
BY CrawlAssumption DEF CrawlInv, CrawlSound, CrawlTypeOK, Counted

\* What a step keeps that resolves the next link, and forgets no entry.
LEMMA ResolvingStep ==
    ASSUME CrawlInv, Visit, NEW r \in Resolutions \ {"none", "pending"},
           links' = Resolve(NextUrl, r), queue' = Tail(queue),
           phase' = phase, captured' \in {captured, captured \cup {NextUrl}},
           r \in AcceptedResolutions => NextUrl \in captured',
           onPages' = onPages, rootParsed' = rootParsed,
           entries' \in [Families -> EntryStates],
           \A f \in Families : entries[f] # "none" => entries'[f] # "none",
           bytes' \in 0 .. MaxBytes,
           IsFiniteSet(fetchedUrls'), fetchedUrls' \subseteq Targets,
           Cardinality(fetchedUrls') <= MaxDocuments
    PROVE  CrawlInv'
<1> DEFINE v == NextUrl
           ls == links'
<1>1. /\ links \in LinkTable /\ v \in Targets /\ links[v].resolution = "pending"
      /\ Tail(queue) \in Seq(Urls) /\ IsInjective(Tail(queue))
      /\ Range(Tail(queue)) = Range(queue) \ {v}
      /\ {u \in Targets : links[u].resolution = "pending"} = Range(queue)
  BY Visited
<1>2. phase = "crawl" /\ RootUrl \in captured
  BY DEF Visit, CrawlInv, RootCaptured
<1>3. /\ ls \in LinkTable
      /\ \A u \in Targets : ls[u].family = links[u].family /\ (u # v => ls[u] = links[u])
      /\ ls[v].resolution = r
  <2>1. ResolvedTo(ls, links, v, r) /\ r \in Resolutions
    BY DEF Resolve, ResolvedTo
  <2> HIDE DEF ls, v
  <2>2. QED
    BY <1>1, <2>1, Resolved
<1> HIDE DEF v, ls
<1>4. CrawlTypeOK'
  BY <1>1, <1>3 DEF CrawlInv, CrawlSound, CrawlTypeOK, LinkTable, EntryStates, ls, v
<1>5. PendingLinksAreQueued'
  <2>1. {u \in Targets : ls[u].resolution = "pending"} = Range(queue) \ {v}
    BY <1>1, <1>3
  <2>2. QED
    BY <1>1, <2>1 DEF PendingLinksAreQueued, ls
<1>6. ClosureOmitsNothing' /\ NothingBefore' /\ RootCaptured'
  BY <1>2 DEF ClosureOmitsNothing, NothingBefore, RootCaptured
<1>7. LinksEntered'
  <2> SUFFICES ASSUME NEW u \in Targets, ls[u].resolution # "none"
               PROVE  ls[u].family \in Families /\ entries'[ls[u].family] # "none"
    BY DEF LinksEntered, ls
  <2>1. links[u].resolution # "none" /\ ls[u].family = links[u].family
    BY <1>1, <1>3
  <2>2. links[u].family \in Families /\ entries[links[u].family] # "none"
    BY <2>1 DEF CrawlInv, LinksEntered
  <2>3. QED
    BY <2>1, <2>2
<1>8. AcceptedCaptured'
  <2> SUFFICES ASSUME NEW u \in Targets, ls[u].resolution \in AcceptedResolutions
               PROVE  u \in captured' \cup OffsiteUrls
    BY DEF AcceptedCaptured, ls
  <2>1. CASE u = v
    BY <1>3, <2>1 DEF v
  <2>2. CASE u # v
    BY <1>3, <2>2 DEF CrawlInv, AcceptedCaptured
  <2>3. QED
    BY <2>1, <2>2
<1>9. PagesEntered'
  BY DEF CrawlInv, CrawlSound, CrawlTypeOK, PagesEntered
<1>10. QED
  BY <1>4, <1>5, <1>6, <1>7, <1>8, <1>9 DEF CrawlInv, CrawlSound

\* A skipped link, a failed fetch and a captured document each resolve the head of the queue.
LEMMA ResolvingSteps ==
    ASSUME CrawlInv, SkipBeyondLimit \/ FetchFails \/ CaptureDocument
    PROVE  CrawlInv'
<1>1. /\ entries \in [Families -> EntryStates] /\ bytes \in 0 .. MaxBytes
      /\ IsFiniteSet(fetchedUrls) /\ fetchedUrls \subseteq Targets
      /\ Cardinality(fetchedUrls) <= MaxDocuments
  BY DEF CrawlInv, CrawlSound, CrawlTypeOK, EntryStates
<1>2. CASE SkipBeyondLimit
  <2>1. "limit_exceeded" \in Resolutions \ {"none", "pending"} /\ "limit_exceeded" \notin AcceptedResolutions
    BY DEF Resolutions, AcceptedResolutions
  <2>2. QED
    BY <1>1, <1>2, <2>1, ResolvingStep DEF SkipBeyondLimit
<1>3. CASE FetchFails
  <2>1. PICK r \in {"fetch_failed", "fetch_evidence_invalid", "artifact_storage_failed"} :
           /\ links' = Resolve(NextUrl, r)
           /\ IF r = "artifact_storage_failed" THEN Counted ELSE UNCHANGED bytes
    BY <1>3 DEF FetchFails
  <2>2. r \in Resolutions \ {"none", "pending"} /\ r \notin AcceptedResolutions
    BY DEF Resolutions, AcceptedResolutions
  <2>3. bytes' \in 0 .. MaxBytes
    BY <1>1, <2>1, CountedIs
  <2>4. /\ IsFiniteSet(fetchedUrls') /\ fetchedUrls' \subseteq Targets
        /\ Cardinality(fetchedUrls') <= MaxDocuments
    BY <1>3, FetchedOne DEF FetchFails
  <2>5. Visit
    BY <1>3 DEF FetchFails, Fetching
  <2>6. QED
    BY <1>1, <1>3, <2>1, <2>2, <2>3, <2>4, <2>5, ResolvingStep DEF FetchFails
<1>4. CASE CaptureDocument
  <2> DEFINE fam == links[NextUrl].family
             r == "explicitly_excluded"
  <2>1. r \in Resolutions \ {"none", "pending"}
    BY DEF Resolutions, AcceptedResolutions
  <2>2. bytes' \in 0 .. MaxBytes
    BY <1>4, CountedIs DEF CaptureDocument
  <2>3. /\ IsFiniteSet(fetchedUrls') /\ fetchedUrls' \subseteq Targets
        /\ Cardinality(fetchedUrls') <= MaxDocuments
    BY <1>4, FetchedOne DEF CaptureDocument
  <2>4. Visit
    BY <1>4 DEF CaptureDocument, Fetching
  <2>5. fam \in Families /\ entries[fam] # "none"
    BY <2>4, Visited
  <2> HIDE DEF fam
  <2>6. entries' = [entries EXCEPT ![fam] =
                       IF Priority("excluded") > Priority(entries[fam]) THEN "excluded"
                       ELSE entries[fam]]
    BY <1>4 DEF CaptureDocument, Merged, fam
  <2>7. /\ entries' \in [Families -> EntryStates]
        /\ \A f \in Families : entries[f] # "none" => entries'[f] # "none"
    BY <1>1, <2>5, <2>6 DEF EntryStates, States
  <2>8. captured' = captured \cup {NextUrl} /\ links' = Resolve(NextUrl, r)
    BY <1>4 DEF CaptureDocument
  <2>9. QED
    BY <1>4, <2>1, <2>2, <2>3, <2>4, <2>7, <2>8, ResolvingStep DEF CaptureDocument
<1>5. QED
  BY <1>2, <1>3, <1>4

\* The root page.
LEMMA StartCrawlStep ==
    ASSUME CrawlInv, StartCrawl
    PROVE  CrawlInv'
<1>1. PICK found \in PageLinks, plans \in SUBSET Families, headings \in SUBSET Families :
         /\ links' = WithLinks(links, found, 1, plans)
         /\ entries' = EntriesWith(found, headings, plans)
         /\ queue' = Enqueued(found)
         /\ rootParsed' = plans
         /\ onPages' = {found[u] : u \in DOMAIN found} \cup headings \cup plans
  BY DEF StartCrawl, PageLinks
<1>2. /\ phase = "start" /\ phase' = "crawl" /\ fetchedUrls' = {RootUrl} /\ bytes' = 1
      /\ captured' = {RootUrl}
  BY DEF StartCrawl
<1> DEFINE new == NewTargets(found)
           ls == links'
<1>3. links \in LinkTable /\ entries \in [Families -> EntryStates]
  BY DEF CrawlInv, CrawlSound, CrawlTypeOK, LinkTable, EntryStates
<1>4. \A u \in Targets : links[u].resolution = "none"
  BY <1>2 DEF CrawlInv, NothingBefore
<1>5. 1 \in 0 .. MaxDepth + 1
  BY CrawlAssumption
<1>6. /\ ls \in LinkTable /\ new \subseteq Targets
      /\ \A u \in Targets \ new : ls[u] = links[u]
      /\ \A u \in new :
           /\ u \in DOMAIN found
           /\ ls[u].family = found[u] /\ ls[u].resolution # "none"
           /\ ls[u].resolution = "pending" <=> u \in Urls
           /\ ls[u].resolution \in AcceptedResolutions => u \in OffsiteUrls \cup {RootUrl}
  <2>1. ls = WithLinks(links, found, 1, plans)
    BY <1>1
  <2> HIDE DEF ls
  <2>2. QED
    BY <1>3, <1>5, <2>1, LinksAfter
<1>7. queue' \in Seq(Urls) /\ IsInjective(queue') /\ Range(queue') = new \cap Urls
  BY <1>1, EnqueuedAre
<1>8. /\ entries' \in [Families -> EntryStates]
      /\ \A f \in Families :
           (f \in headings \/ f \in plans \/ \E u \in DOMAIN found : found[u] = f)
              => entries'[f] # "none"
  BY <1>1, <1>3, EntriesAfter
<1>9. onPages' \subseteq Families /\ \A f \in onPages' : entries'[f] # "none"
  BY <1>1, <1>8, PageLinksAre
<1> HIDE DEF new, ls
<1>10. IsFiniteSet(fetchedUrls') /\ Cardinality(fetchedUrls') = 1
  BY <1>2, FS_Singleton
<1>11. CrawlTypeOK'
  BY <1>1, <1>2, <1>6, <1>7, <1>8, <1>9, <1>10, CrawlAssumption
     DEF CrawlTypeOK, LinkTable, EntryStates, Targets, ls
<1>12. \A u \in Targets : ls[u].resolution # "none" => u \in new
  BY <1>4, <1>6
<1>13. PendingLinksAreQueued'
  <2>1. {u \in Targets : ls[u].resolution = "pending"} = new \cap Urls
    BY <1>6, <1>12
  <2>2. QED
    BY <1>7, <2>1 DEF PendingLinksAreQueued, ls
<1>14. LinksEntered'
  <2> SUFFICES ASSUME NEW u \in Targets, ls[u].resolution # "none"
               PROVE  ls[u].family \in Families /\ entries'[ls[u].family] # "none"
    BY DEF LinksEntered, ls
  <2>1. u \in DOMAIN found /\ ls[u].family = found[u]
    BY <1>6, <1>12
  <2>2. QED
    BY <1>8, <2>1, PageLinksAre
<1>15. AcceptedCaptured'
  <2> SUFFICES ASSUME NEW u \in Targets, ls[u].resolution \in AcceptedResolutions
               PROVE  u \in {RootUrl} \cup OffsiteUrls
    BY <1>2 DEF AcceptedCaptured, ls
  <2>1. ls[u].resolution # "none"
    BY DEF AcceptedResolutions
  <2>2. QED
    BY <1>6, <1>12, <2>1
<1>16. ClosureOmitsNothing' /\ NothingBefore' /\ RootCaptured' /\ PagesEntered'
  BY <1>2, <1>9 DEF ClosureOmitsNothing, NothingBefore, RootCaptured, PagesEntered
<1>17. QED
  BY <1>10, <1>11, <1>13, <1>14, <1>15, <1>16 DEF CrawlInv, CrawlSound

\* A page on the way: its links are queued behind the others.
LEMMA CapturePageStep ==
    ASSUME CrawlInv, CapturePage
    PROVE  CrawlInv'
<1> DEFINE v == NextUrl
           fam == links[v].family
           d == links[v].depth + 1
           ls == links'
<1>1. PICK nested \in SUBSET Targets, read \in BOOLEAN :
         LET found == [u \in nested |-> fam]
             added == WithLinks(links, found, d, rootParsed)
         IN  /\ links' = [added EXCEPT ![v].resolution = IF read THEN "parsed" ELSE "requires_parser"]
             /\ entries' = EntriesWith(found, {}, IF read THEN {fam} ELSE {})
             /\ queue' = Tail(queue) \o Enqueued(found)
             /\ onPages' = onPages \cup {fam}
  BY DEF CapturePage
<1> DEFINE found == [u \in nested |-> fam]
           added == WithLinks(links, found, d, rootParsed)
           new == NewTargets(found)
           r == IF read THEN "parsed" ELSE "requires_parser"
<1>2. Fetching /\ Visit /\ Counted /\ WithinDepth(v)
  BY DEF CapturePage, Fetching
<1>3. /\ phase' = phase /\ phase = "crawl" /\ rootParsed' = rootParsed
      /\ captured' = captured \cup {v}
  BY <1>2 DEF CapturePage, Visit
<1>4. /\ links \in LinkTable /\ v \in Targets /\ v \in Urls
      /\ links[v].resolution = "pending" /\ fam \in Families /\ entries[fam] # "none"
      /\ Tail(queue) \in Seq(Urls) /\ IsInjective(Tail(queue))
      /\ Range(Tail(queue)) = Range(queue) \ {v}
      /\ {u \in Targets : links[u].resolution = "pending"} = Range(queue)
  BY <1>2, Visited
<1>5. entries \in [Families -> EntryStates] /\ RootUrl \in captured /\ bytes' \in 0 .. MaxBytes
  BY <1>2, <1>3, CountedIs DEF CrawlInv, CrawlSound, CrawlTypeOK, EntryStates, RootCaptured
<1>6. d \in 0 .. MaxDepth + 1
  <2>1. links[v].depth \in 0 .. MaxDepth + 1 /\ links[v].depth <= MaxDepth
    BY <1>2, <1>4 DEF LinkTable, WithinDepth
  <2>2. QED
    BY <2>1, CrawlAssumption
<1>7. found \in PageLinks /\ DOMAIN found = nested /\ \A u \in nested : found[u] = fam
  BY <1>4 DEF PageLinks, PartialMaps
<1>8. /\ links' = [added EXCEPT ![v].resolution = r]
      /\ entries' = EntriesWith(found, {}, IF read THEN {fam} ELSE {})
      /\ queue' = Tail(queue) \o Enqueued(found)
      /\ onPages' = onPages \cup {fam}
  BY <1>1
<1> HIDE DEF v, fam, d, found
<1>9. /\ added \in LinkTable /\ new \subseteq Targets
      /\ \A u \in Targets \ new : added[u] = links[u]
      /\ \A u \in new :
           /\ links[u].resolution = "none" /\ u \in DOMAIN found
           /\ added[u].family = found[u] /\ added[u].resolution # "none"
           /\ added[u].resolution = "pending" <=> u \in Urls
           /\ added[u].resolution \in AcceptedResolutions => u \in OffsiteUrls \cup {RootUrl}
  <2> HIDE DEF added, new
  <2>1. QED
    BY <1>4, <1>6, <1>7, LinksAfter DEF added, new
<1>10. r \in Resolutions /\ r # "pending" /\ r # "none"
  BY DEF Resolutions, AcceptedResolutions
<1>11. /\ Enqueued(found) \in Seq(Urls) /\ IsInjective(Enqueued(found))
       /\ Range(Enqueued(found)) = new \cap Urls
  BY EnqueuedAre
<1>12. /\ entries' \in [Families -> EntryStates]
       /\ \A f \in Families : entries[f] # "none" => entries'[f] # "none"
       /\ entries'[fam] # "none"
  BY <1>4, <1>5, <1>7, <1>8, EntriesAfter
<1> HIDE DEF added, new, r
<1>13. v \notin new
  BY <1>4, <1>9
<1>14. /\ ls \in LinkTable
       /\ \A u \in Targets : ls[u].family = added[u].family /\ (u # v => ls[u] = added[u])
       /\ ls[v].resolution = r
  <2>1. ResolvedTo(ls, added, v, r)
    BY <1>8 DEF ResolvedTo
  <2> HIDE DEF ls
  <2>2. QED
    BY <1>4, <1>9, <1>10, <2>1, Resolved
<1> HIDE DEF ls
<1>15. Range(Tail(queue)) \cap Range(Enqueued(found)) = {}
  BY <1>4, <1>9, <1>11
<1>16. /\ queue' \in Seq(Urls) /\ IsInjective(queue')
       /\ Range(queue') = (Range(queue) \ {v}) \cup (new \cap Urls)
  <2>1. /\ Tail(queue) \o Enqueued(found) \in Seq(Urls)
        /\ IsInjective(Tail(queue) \o Enqueued(found))
        /\ Range(Tail(queue) \o Enqueued(found)) = Range(Tail(queue)) \cup Range(Enqueued(found))
    <3> DEFINE t == Tail(queue)
               e == Enqueued(found)
    <3>1. /\ t \in Seq(Urls) /\ e \in Seq(Urls) /\ IsInjective(t) /\ IsInjective(e)
          /\ Range(t) \cap Range(e) = {}
      BY <1>4, <1>11, <1>15
    <3> HIDE DEF t, e
    <3>2. /\ t \o e \in Seq(Urls) /\ IsInjective(t \o e)
          /\ Range(t \o e) = Range(t) \cup Range(e)
      BY <3>1, Appended
    <3>3. QED
      BY <3>2 DEF t, e
  <2>2. QED
    BY <1>4, <1>8, <1>11, <2>1
<1>17. /\ IsFiniteSet(fetchedUrls') /\ fetchedUrls' \subseteq Targets
       /\ Cardinality(fetchedUrls') <= MaxDocuments
  BY <1>2, FetchedOne
<1>18. CrawlTypeOK'
  BY <1>3, <1>4, <1>5, <1>8, <1>12, <1>14, <1>16, <1>17
     DEF CrawlInv, CrawlSound, CrawlTypeOK, LinkTable, EntryStates, ls
<1>19. PendingLinksAreQueued'
  <2>1. ASSUME NEW u \in Targets
        PROVE  ls[u].resolution = "pending" <=> u \in (Range(queue) \ {v}) \cup (new \cap Urls)
    <3>1. CASE u = v
      BY <1>10, <1>13, <1>14, <3>1
    <3>2. CASE u # v /\ u \in new
      BY <1>4, <1>9, <1>14, <3>2
    <3>3. CASE u # v /\ u \notin new
      BY <1>4, <1>9, <1>14, <3>3
    <3>4. QED
      BY <3>1, <3>2, <3>3
  <2>2. (Range(queue) \ {v}) \cup (new \cap Urls) \subseteq Targets
    BY <1>4, <1>9
  <2>3. {u \in Targets : ls[u].resolution = "pending"} = (Range(queue) \ {v}) \cup (new \cap Urls)
    BY <2>1, <2>2
  <2>4. QED
    BY <1>16, <2>3 DEF PendingLinksAreQueued, ls
<1>20. LinksEntered'
  <2> SUFFICES ASSUME NEW u \in Targets, ls[u].resolution # "none"
               PROVE  ls[u].family \in Families /\ entries'[ls[u].family] # "none"
    BY DEF LinksEntered, ls
  <2>1. CASE u \in new
    BY <1>4, <1>7, <1>9, <1>12, <1>14, <2>1
  <2>2. CASE u \notin new
    <3>1. links[u].resolution # "none" /\ ls[u].family = links[u].family
      BY <1>4, <1>9, <1>14, <2>2
    <3>2. links[u].family \in Families /\ entries[links[u].family] # "none"
      BY <3>1 DEF CrawlInv, LinksEntered
    <3>3. QED
      BY <1>12, <3>1, <3>2
  <2>3. QED
    BY <2>1, <2>2
<1>21. AcceptedCaptured'
  <2> SUFFICES ASSUME NEW u \in Targets, ls[u].resolution \in AcceptedResolutions, u # v
               PROVE  u \in captured \cup OffsiteUrls
    BY <1>3 DEF AcceptedCaptured, ls
  <2>1. CASE u \in new
    BY <1>5, <1>9, <1>14, <2>1
  <2>2. CASE u \notin new
    BY <1>9, <1>14, <2>2 DEF CrawlInv, AcceptedCaptured
  <2>3. QED
    BY <2>1, <2>2
<1>22. PagesEntered'
  BY <1>8, <1>12 DEF CrawlInv, CrawlSound, CrawlTypeOK, PagesEntered
<1>23. ClosureOmitsNothing' /\ NothingBefore' /\ RootCaptured'
  BY <1>3, <1>5 DEF ClosureOmitsNothing, NothingBefore, RootCaptured
<1>24. QED
  BY <1>17, <1>18, <1>19, <1>20, <1>21, <1>22, <1>23 DEF CrawlInv, CrawlSound

\* The end of the crawl: a closure is claimed over accounted links and entries.
LEMMA EndSteps ==
    ASSUME CrawlInv, FinishCrawl \/ InterruptCrawl
    PROVE  CrawlInv'
<1>1. /\ phase' \in {"closed", "open"} /\ (phase' = "closed" => Complete)
      /\ queue' \in Seq(Urls)
      /\ UNCHANGED <<links, fetchedUrls, bytes, entries, limits, rootParsed, captured, onPages>>
  <2>1. queue \in Seq(Urls)
    BY DEF CrawlInv, CrawlSound, CrawlTypeOK
  <2>2. CASE FinishCrawl
    <3>1. phase' = IF Complete THEN "closed" ELSE "open"
      BY <2>2 DEF FinishCrawl
    <3>2. QED
      BY <2>1, <2>2, <3>1 DEF FinishCrawl
  <2>3. CASE InterruptCrawl
    BY <2>3 DEF InterruptCrawl
  <2>4. QED
    BY <2>2, <2>3
<1>2. CrawlTypeOK' /\ PendingLinksAreQueued' /\ NothingBefore' /\ RootCaptured'
  BY <1>1 DEF CrawlInv, CrawlSound, CrawlTypeOK, PendingLinksAreQueued, NothingBefore, RootCaptured
<1>3. LinksEntered' /\ AcceptedCaptured' /\ PagesEntered' /\ IsFiniteSet(fetchedUrls')
  BY <1>1 DEF CrawlInv, LinksEntered, AcceptedCaptured, PagesEntered
<1>4. ClosureOmitsNothing'
  <2> SUFFICES ASSUME Complete
               PROVE  /\ \A u \in Targets : links[u].resolution # "none" => u \in captured \cup OffsiteUrls
                      /\ \A f \in onPages : entries[f] \in {"parsed", "excluded"}
    BY <1>1 DEF ClosureOmitsNothing
  <2>1. \A u \in Targets : links[u].resolution \in AcceptedResolutions \cup {"none"}
    BY DEF Complete, Unresolved
  <2>2. \A u \in Targets : links[u].resolution # "none" => u \in captured \cup OffsiteUrls
    BY <2>1 DEF CrawlInv, AcceptedCaptured
  <2>3. ASSUME NEW f \in onPages
        PROVE  entries[f] \in {"parsed", "excluded"}
    <3>1. f \in Families /\ entries[f] # "none" /\ entries[f] \in States \cup {"none"}
      BY DEF CrawlInv, CrawlSound, CrawlTypeOK, PagesEntered
    <3>2. entries[f] # "requires_parser"
      BY <3>1 DEF Complete, NeedParser
    <3>3. QED
      BY <3>1, <3>2 DEF States
  <2>4. QED
    BY <2>2, <2>3
<1>5. QED
  BY <1>2, <1>3, <1>4 DEF CrawlInv, CrawlSound

\* It holds before the root page is read.
LEMMA CrawlInitially ==
    ASSUME CrawlInit
    PROVE  CrawlInv
<1>1. links = [u \in Targets |-> NoLink(u)] /\ \A u \in Targets : links[u].resolution = "none"
  BY DEF CrawlInit, NoLink
<1>2. links \in LinkTable
  <2>1. \A u \in Targets : NoLink(u) \in [resolution : Resolutions, family : Families \cup {"none"},
                                          depth : 0 .. MaxDepth + 1]
    BY CrawlAssumption DEF NoLink, Resolutions
  <2>2. QED
    BY <1>1, <2>1 DEF LinkTable
<1>3. IsFiniteSet(fetchedUrls) /\ Cardinality(fetchedUrls) = 0
  BY FS_EmptySet DEF CrawlInit
<1>4. CrawlTypeOK
  BY <1>2, <1>3, CrawlAssumption DEF CrawlInit, CrawlTypeOK, LinkTable, States
<1>5. PendingLinksAreQueued /\ ClosureOmitsNothing /\ NothingBefore /\ RootCaptured
  BY <1>1 DEF CrawlInit, PendingLinksAreQueued, ClosureOmitsNothing, NothingBefore, RootCaptured
<1>6. LinksEntered /\ AcceptedCaptured /\ PagesEntered
  BY <1>1 DEF CrawlInit, LinksEntered, AcceptedCaptured, PagesEntered, AcceptedResolutions
<1>7. QED
  BY <1>3, <1>4, <1>5, <1>6 DEF CrawlInv, CrawlSound

\* A crawl that takes no step.
LEMMA CrawlUnchanged ==
    ASSUME CrawlInv, UNCHANGED crawlVars
    PROVE  CrawlInv'
<1>1. /\ phase' = phase /\ links' = links /\ queue' = queue /\ fetchedUrls' = fetchedUrls
      /\ bytes' = bytes /\ entries' = entries /\ rootParsed' = rootParsed
      /\ captured' = captured /\ onPages' = onPages
  BY DEF crawlVars
<1>2. CrawlSound'
  BY <1>1 DEF CrawlInv, CrawlSound, CrawlTypeOK, PendingLinksAreQueued, ClosureOmitsNothing
<1>3. NothingBefore' /\ RootCaptured' /\ LinksEntered' /\ AcceptedCaptured' /\ PagesEntered'
  BY <1>1 DEF CrawlInv, NothingBefore, RootCaptured, LinksEntered, AcceptedCaptured, PagesEntered
<1>4. QED
  BY <1>1, <1>2, <1>3 DEF CrawlInv

\* Whatever the pages link to and wherever a limit, a failure or a deadline hits:
\* a link without a resolution is queued exactly once, and a claimed closure covers
\* every link and every family of every captured page (_crawl_sce_catalog).
THEOREM CrawlCorrect == CrawlSpec => []CrawlSound
<1>1. CrawlInit => CrawlInv
  BY CrawlInitially
<1>2. CrawlInv /\ [CrawlNext]_crawlVars => CrawlInv'
  BY StartCrawlStep, ResolvingSteps, CapturePageStep, EndSteps, CrawlUnchanged DEF CrawlNext
<1>3. CrawlInv => CrawlSound
  BY DEF CrawlInv
<1>4. QED
  BY <1>1, <1>2, <1>3, PTL DEF CrawlSpec

--------------------------------------------------------------------------------
(* Tariff: one period for every instant of a published schedule *)

\* _expanded_periods: a tier ends above its start.
TierOK(p) == p.low \in Nat /\ p.high \in Nat /\ p.low < p.high

\* The largest of the numbers that are not above u.
LEMMA LargestBelow ==
    ASSUME NEW B, B \subseteq Nat, NEW u \in Nat, NEW z \in B, z <= u
    PROVE  \E a \in B : a <= u /\ \A b \in B : b <= u => b <= a
<1> DEFINE D == {u - b : b \in {c \in B : c <= u}}
<1>1. D \subseteq Nat /\ D # {}
  OBVIOUS
<1>2. PICK x \in D : \A y \in D : x <= y
  BY <1>1, LeastNatural
<1>3. PICK a \in B : a <= u /\ x = u - a
  BY <1>2
<1>4. ASSUME NEW b \in B, b <= u PROVE b <= a
  <2>1. u - b \in D
    BY <1>4
  <2>2. x <= u - b
    BY <1>2, <2>1
  <2> QED
    BY <1>3, <1>4, <2>2
<1> QED
  BY <1>3, <1>4

\* Tier bounds that leave one tier for every usage: exactly one tier holds it,
\* and at most one ends on it, which is the one below.
Single(M, u, q) == q \in M /\ TierHolds(q, u) /\ \A p \in M : TierHolds(p, u) => p = q
Below(M, u, q) ==
    \A p \in M : p.high = u => /\ q.low = u /\ p.low < u
                               /\ \A r \in M : r.high = u => r = p
AxisSound(M) == \A u \in Usages : \E q \in M : Single(M, u, q) /\ Below(M, u, q)

Bounds(M) == {0} \cup {p.low : p \in M} \cup ({p.high : p \in M} \ {Unbounded})

\* At a bound the validation found one tier.
LEMMA AxisAtBounds ==
    ASSUME NEW M, IsFiniteSet(M), TierAxisValid(M), NEW b \in Bounds(M)
    PROVE  \E q \in M : Single(M, b, q)
<1> DEFINE H == {p \in M : TierHolds(p, b)}
<1>1. Cardinality(H) = 1
  BY DEF TierAxisValid, Bounds
<1>2. IsFiniteSet(H)
  BY FS_Subset
<1>3. PICK q : H = {q}
  BY <1>1, <1>2, FS_Singleton
<1>4. q \in M /\ TierHolds(q, b) /\ \A p \in M : TierHolds(p, b) => p = q
  BY <1>3
<1> QED
  BY <1>4, Zenon DEF Single

\* The validation looks at the bounds only; a tier holds a usage if it holds the
\* largest bound that is not above it.
LEMMA AxisResolves ==
    ASSUME NEW M, IsFiniteSet(M), TierAxisValid(M), \A p \in M : TierOK(p)
    PROVE  AxisSound(M)
<1> SUFFICES ASSUME NEW u \in Usages PROVE \E q \in M : Single(M, u, q) /\ Below(M, u, q)
  BY Zenon DEF AxisSound
<1>1. u \in Nat /\ u < Unbounded /\ Unbounded \in Nat
  BY TariffAssumption
<1>2. Bounds(M) \subseteq Nat /\ 0 \in Bounds(M)
  BY DEF Bounds, TierOK
<1>3. \A p \in M : p.low \in Bounds(M) /\ (p.high # Unbounded => p.high \in Bounds(M))
  BY DEF Bounds
<1>4. ASSUME NEW a \in Bounds(M), NEW v \in Nat, a <= v, v < Unbounded,
             \A b \in Bounds(M) : b <= v => b <= a, NEW p \in M
      PROVE  TierHolds(p, v) <=> TierHolds(p, a)
  <2>1. TierOK(p) /\ p.low \in Bounds(M) /\ (p.high # Unbounded => p.high \in Bounds(M))
    BY <1>3, Zenon
  <2>2. p.low <= v => p.low <= a
    BY <1>4, <2>1
  <2>3. p.high # Unbounded /\ p.high <= v => p.high <= a
    BY <1>4, <2>1
  <2>4. a \in Nat
    BY <1>2
  <2> QED
    BY <1>1, <1>4, <2>1, <2>2, <2>3, <2>4 DEF TierHolds, TierOK
<1>5. PICK a \in Bounds(M) : a <= u /\ \A b \in Bounds(M) : b <= u => b <= a
  BY <1>1, <1>2, LargestBelow
<1>6. PICK q \in M : Single(M, a, q)
  BY AxisAtBounds
<1>7. Single(M, u, q)
  BY <1>1, <1>4, <1>5, <1>6 DEF Single
<1>8. ASSUME NEW p \in M, p.high = u
      PROVE  q.low = u /\ p.low < u /\ \A r \in M : r.high = u => r = p
  <2>1. u # 0 /\ p.low < u
    BY <1>1, <1>8 DEF TierOK
  <2>2. PICK c \in Bounds(M) : c <= u - 1 /\ \A b \in Bounds(M) : b <= u - 1 => b <= c
    BY <1>1, <1>2, <2>1, LargestBelow
  <2>3. PICK s \in M : Single(M, c, s)
    BY AxisAtBounds
  <2>4. \A r \in M : TierHolds(r, u - 1) <=> TierHolds(r, c)
    BY <1>1, <1>4, <2>1, <2>2
  <2>5. ASSUME NEW r \in M, r.high = u PROVE r = s
    <3>1. TierHolds(r, u - 1)
      BY <1>1, <2>1, <2>5 DEF TierHolds, TierOK
    <3> QED
      BY <2>3, <2>4, <2>5, <3>1, Zenon DEF Single
  <2>6. q.low <= u /\ u < q.high /\ q.high \in Nat /\ q.low \in Nat
    BY <1>7 DEF Single, TierHolds, TierOK
  <2>7. q # p
    BY <1>8, <2>6, <1>1
  <2>8. p = s
    BY <1>8, <2>5
  <2>9. ~TierHolds(q, u - 1)
    BY <2>3, <2>4, <2>7, <2>8, Zenon DEF Single
  <2>10. q.low = u
    BY <2>6, <2>9, <2>1, <1>1 DEF TierHolds
  <2> QED
    BY <2>1, <2>5, <2>8, <2>10, Zenon
<1>9. Below(M, u, q)
  BY <1>8, Zenon DEF Below
<1> QED
  BY <1>7, <1>9, Zenon

\* An account allowance takes the place of the bound the two tiers share.
AccountTier(p) == p.low = 0 <=> p.high # Unbounded

\* _effective_tier_bounds of an account's schedule.
LEMMA EffectiveIs ==
    ASSUME NEW p, {"low", "high"} \subseteq DOMAIN p, NEW T
    PROVE  LET e == Effective(p, TRUE, T)
           IN  /\ e.low = IF p.low > 0 THEN T ELSE 0
               /\ e.high = IF p.high # Unbounded THEN T ELSE Unbounded
BY DEF Effective

\* The two tiers of an account's schedule meet in the allowance, whatever it is.
LEMMA AccountAxis ==
    ASSUME NEW M, IsFiniteSet(M), TierAxisValid(M), NEW T \in Thresholds,
           \A p \in M : TierOK(p) /\ AccountTier(p) /\ {"low", "high"} \subseteq DOMAIN p
    PROVE  AxisSound({Effective(p, TRUE, T) : p \in M})
<1> DEFINE E(p) == Effective(p, TRUE, T)
           F == {E(p) : p \in M}
<1>1. T \in Nat /\ T > 0 /\ Unbounded \in Nat /\ Unbounded # 0
  <2>1. T \in Nat \ {0} /\ Unbounded \in Nat
    BY TariffAssumption
  <2>2. Unbounded # 0
    <3>1. PICK p \in M : p.high = Unbounded
      BY DEF TierAxisValid
    <3> QED
      BY <3>1 DEF TierOK
  <2> QED
    BY <2>1, <2>2
<1>2. PICK one \in M : Single(M, 0, one)
  BY AxisAtBounds DEF Bounds
<1>3. one.low = 0 /\ one.high # Unbounded
  BY <1>2 DEF Single, TierHolds, TierOK, AccountTier
<1>4. one.high \in Bounds(M)
  BY <1>3 DEF Bounds
<1>5. PICK two \in M : Single(M, one.high, two)
  BY <1>4, AxisAtBounds
<1>6. two # one
  BY <1>5 DEF Single, TierHolds, TierOK
<1>7. \A p \in M : p.low = 0 => p = one
  BY <1>1, <1>2 DEF Single, TierHolds, TierOK
<1>8. \A p \in M : p.low # 0 => p = two
  <2> SUFFICES ASSUME NEW p \in M, p.low # 0 PROVE p = two
    OBVIOUS
  <2>1. two.low # 0 /\ two.high = Unbounded /\ p.high = Unbounded
    BY <1>6, <1>7 DEF AccountTier
  <2>2. p.low \in Bounds(M) /\ two.low \in Bounds(M)
    BY DEF Bounds
  <2>3. PICK q \in M : Single(M, p.low, q)
    BY <2>2, AxisAtBounds
  <2>4. PICK r \in M : Single(M, two.low, r)
    BY <2>2, AxisAtBounds
  <2>5. TierHolds(p, p.low) /\ TierHolds(two, two.low)
    BY DEF TierHolds, TierOK
  <2>6. p.low <= two.low => p = two
    <3>1. p.low <= two.low => TierHolds(p, two.low)
      BY <2>1 DEF TierHolds, TierOK
    <3> QED
      BY <2>4, <2>5, <3>1, Zenon DEF Single
  <2>7. two.low <= p.low => p = two
    <3>1. two.low <= p.low => TierHolds(two, p.low)
      BY <2>1 DEF TierHolds, TierOK
    <3> QED
      BY <2>3, <2>5, <3>1, Zenon DEF Single
  <2> QED
    BY <2>6, <2>7 DEF TierOK
<1>9. two.low # 0 /\ two.high = Unbounded
  BY <1>6, <1>7 DEF AccountTier
<1>10. E(one).low = 0 /\ E(one).high = T
  <2>1. ~(one.low > 0)
    BY <1>3
  <2> QED
    BY <1>3, <2>1, EffectiveIs
<1>11. E(two).low = T /\ E(two).high = Unbounded
  <2>1. two.low > 0
    BY <1>9 DEF TierOK
  <2> QED
    BY <1>9, <2>1, EffectiveIs
<1>12. \A p \in M : p = one \/ p = two
  BY <1>7, <1>8
<1>13. F = {E(one), E(two)}
  BY <1>12
<1> HIDE DEF E
<1>14. ASSUME NEW u \in Usages PROVE \E q \in F : Single(F, u, q) /\ Below(F, u, q)
  <2>1. u \in Nat /\ u < Unbounded
    BY TariffAssumption
  <2>2. TierHolds(E(one), u) <=> u < T
    BY <2>1, <1>10 DEF TierHolds
  <2>3. TierHolds(E(two), u) <=> T <= u
    BY <2>1, <1>11 DEF TierHolds
  <2>4. CASE u < T
    <3>1. E(one).high # u /\ E(two).high # u /\ ~TierHolds(E(two), u)
      BY <1>1, <2>1, <2>3, <2>4, <1>10, <1>11
    <3>2. Single(F, u, E(one)) /\ Below(F, u, E(one))
      BY <1>13, <2>2, <2>4, <3>1 DEF Single, Below
    <3> QED
      BY <1>13, <3>2
  <2>5. CASE T <= u
    <3>1. E(two).high # u /\ ~TierHolds(E(one), u)
      BY <1>1, <2>1, <2>2, <2>5, <1>11
    <3>2. Single(F, u, E(two))
      BY <1>13, <2>3, <2>5, <3>1 DEF Single
    <3>3. E(one).high = u => E(two).low = u /\ E(one).low < u
      BY <1>1, <1>10, <1>11
    <3>4. Below(F, u, E(two))
      BY <1>13, <3>1, <3>3 DEF Below
    <3> QED
      BY <1>13, <3>2, <3>4
  <2>6. u < T \/ T <= u
    BY <1>1, <2>1
  <2> QED
    BY <2>4, <2>5, <2>6, Zenon
<1>15. AxisSound(F)
  BY <1>14, Zenon DEF AxisSound
<1> QED
  BY <1>15 DEF E

\* Where a bound belongs to both tiers AtBoundary takes one of the two.
LEMMA BoundaryResolves ==
    ASSUME NEW M, AxisSound(M), NEW u \in Usages, NEW incremental,
           \A p \in M : p.low \in Nat
    PROVE  LET H == {p \in M : p.low <= u /\ UpperHolds(p, u)}
           IN  /\ Cardinality(AtBoundary(H, u, incremental)) = 1
               /\ \E p \in H : TRUE
<1> DEFINE H == {p \in M : p.low <= u /\ UpperHolds(p, u)}
<1>1. PICK q \in M : Single(M, u, q) /\ Below(M, u, q)
  BY Zenon DEF AxisSound
<1>2. q \in H
  BY <1>1 DEF Single, TierHolds, UpperHolds
<1>3. \A p \in H : p = q \/ (p.high = u /\ p.inclusive)
  BY <1>1 DEF Single, TierHolds, UpperHolds
<1>4. u \in Nat
  BY TariffAssumption
<1> HIDE DEF H
<1>5. CASE H = {q}
  <2>1. Cardinality(H) = 1
    BY <1>5, FS_Singleton
  <2>2. AtBoundary(H, u, incremental) = H
    BY <2>1 DEF AtBoundary
  <2> QED
    BY <1>2, <2>1, <2>2 DEF H
<1>6. CASE H # {q}
  <2>1. PICK p \in H : p # q
    BY <1>2, <1>6
  <2>2. p.high = u /\ p.inclusive
    BY <1>3, <2>1
  <2>3. p \in M
    BY DEF H
  <2>4. q.low = u /\ p.low < u /\ \A r \in M : r.high = u => r = p
    BY <1>1, <2>2, <2>3, Zenon DEF Below
  <2>5. H = {p, q}
    <3>1. \A r \in H : r \in M
      BY DEF H
    <3> QED
      BY <1>2, <1>3, <2>1, <2>4, <3>1
  <2>6. Cardinality(H) = 2
    <3>1. IsFiniteSet({q}) /\ Cardinality({q}) = 1
      BY FS_Singleton
    <3>2. Cardinality({q} \cup {p}) = IF p \in {q} THEN Cardinality({q}) ELSE Cardinality({q}) + 1
      BY <3>1, FS_AddElement, Zenon
    <3>3. p \notin {q}
      BY <2>1
    <3>4. Cardinality({q} \cup {p}) = 2
      BY <3>1, <3>2, <3>3
    <3> QED
      BY <2>5, <3>4
  <2> DEFINE lower == CHOOSE r \in H : \A s \in H : r.low <= s.low
             upper == CHOOSE r \in H : r # lower
  <2>7. lower = p
    <3>1. p.low \in Nat /\ p.low <= p.low /\ p.low <= q.low /\ ~(q.low <= p.low)
      BY <2>3, <2>4, <1>4
    <3>2. p \in H /\ \A s \in H : p.low <= s.low
      BY <2>5, <3>1
    <3>3. lower \in H /\ \A s \in H : lower.low <= s.low
      BY <3>2, Zenon
    <3> QED
      BY <2>5, <3>1, <3>3
  <2>8. upper = q
    BY <1>2, <2>1, <2>5, <2>7
  <2>9. AtBoundary(H, u, incremental) = {IF incremental THEN upper ELSE lower}
    BY <2>2, <2>4, <2>6, <2>7, <2>8 DEF AtBoundary
  <2> HIDE DEF lower, upper
  <2>10. Cardinality(AtBoundary(H, u, incremental)) = 1
    BY <2>9, FS_Singleton, Zenon
  <2> QED
    BY <1>2, <2>10 DEF H
<1> QED
  BY <1>5, <1>6

\* _expanded_periods of one row.
ExpandedRow(p) ==
    {[row |-> p, season |-> p.season, day |-> d, start |-> w[1], end |-> w[2],
      low |-> p.low, high |-> p.high, inclusive |-> p.inclusive] :
        d \in DayTypes(p), w \in Windows(p)}

\* An expanded period has the tier of its row.
LEMMA ExpandedAre ==
    ASSUME NEW rows, NEW e \in Expanded(rows)
    PROVE  \E p \in rows : /\ e.low = p.low /\ e.high = p.high
                           /\ {"low", "high", "season", "day"} \subseteq DOMAIN e
BY DEF Expanded

\* _expanded_periods yields finitely many periods.
LEMMA ExpandedFinite ==
    ASSUME NEW rows, IsFiniteSet(rows)
    PROVE  IsFiniteSet(Expanded(rows))
<1> DEFINE S == {ExpandedRow(p) : p \in rows}
           f == [p \in rows |-> ExpandedRow(p)]
<1>1. IsFiniteSet(S)
  <2>1. f \in Surjection(rows, S)
    BY DEF Surjection
  <2> QED
    BY <2>1, FS_Surjection
<1>2. ASSUME NEW p \in rows PROVE IsFiniteSet(ExpandedRow(p))
  <2> DEFINE Entry(d, w) ==
               [row |-> p, season |-> p.season, day |-> d, start |-> w[1], end |-> w[2],
                low |-> p.low, high |-> p.high, inclusive |-> p.inclusive]
  <2>1. \E a, b : DayTypes(p) \subseteq {a, b}
    BY DEF DayTypes
  <2>2. \E v, w : Windows(p) \subseteq {v, w}
    BY DEF Windows
  <2>3. PICK a, b, v, w : DayTypes(p) \subseteq {a, b} /\ Windows(p) \subseteq {v, w}
    BY <2>1, <2>2, Zenon
  <2>4. ExpandedRow(p) = {Entry(d, x) : d \in DayTypes(p), x \in Windows(p)}
    BY DEF ExpandedRow
  <2> HIDE DEF Entry
  <2> DEFINE T == (({Entry(a, v)} \cup {Entry(a, w)}) \cup {Entry(b, v)}) \cup {Entry(b, w)}
  <2>5. ExpandedRow(p) \subseteq T
    BY <2>3, <2>4
  <2>6. IsFiniteSet(T)
    <3>1. IsFiniteSet({Entry(a, v)})
      BY FS_Singleton, Zenon
    <3>2. IsFiniteSet({Entry(a, v)} \cup {Entry(a, w)})
      BY <3>1, FS_AddElement, Zenon
    <3>3. IsFiniteSet(({Entry(a, v)} \cup {Entry(a, w)}) \cup {Entry(b, v)})
      BY <3>2, FS_AddElement, Zenon
    <3> QED
      BY <3>3, FS_AddElement, Zenon
  <2> QED
    BY <2>5, <2>6, FS_Subset
<1>3. Expanded(rows) = UNION S
  BY DEF Expanded, ExpandedRow
<1> HIDE DEF S
<1>4. \A T \in S : IsFiniteSet(T)
  BY <1>2 DEF S
<1> QED
  BY <1>1, <1>3, <1>4, FS_UNION

\* Day types in order of priority.
IsPriority(priority) == Len(priority) \in Nat /\ DOMAIN priority \subseteq Nat

\* Periods of a day type in the order can be compared.
LEMMA SpecificityInt ==
    ASSUME NEW season, NEW priority, IsPriority(priority), NEW p,
           \E i \in DOMAIN priority : priority[i] = p.day
    PROVE  Specificity(p, season, priority) \in Int
<1> DEFINE i == CHOOSE i \in DOMAIN priority : priority[i] = p.day
<1>1. i \in DOMAIN priority
  BY Zenon
<1>2. i \in Nat
  BY <1>1 DEF IsPriority
<1> QED
  BY <1>2 DEF IsPriority, Specificity

Comparable(N, season, priority) == \A p \in N : Specificity(p, season, priority) \in Int
Dated(N) == \A p \in N : {"season", "day"} \subseteq DOMAIN p

\* The engine looks at tiers first and the validation at specificity first; that
\* makes no difference if one of the most specific periods holds the usage.
LEMMA SpecificFirst ==
    ASSUME NEW N, NEW season, NEW priority, Comparable(N, season, priority),
           NEW H, H \subseteq N, NEW h \in H, h \in MostSpecific(N, season, priority)
    PROVE  MostSpecific(H, season, priority) = MostSpecific(N, season, priority) \cap H
<1> DEFINE sp(p) == Specificity(p, season, priority)
<1>1. \A p \in N : sp(p) \in Int
  BY DEF Comparable
<1>2. h \in N /\ \A q \in N : sp(q) <= sp(h)
  BY DEF MostSpecific
<1>3. MostSpecific(H, season, priority) = {p \in H : \A q \in H : sp(q) <= sp(p)}
  BY DEF MostSpecific
<1>4. MostSpecific(N, season, priority) = {p \in N : \A q \in N : sp(q) <= sp(p)}
  BY DEF MostSpecific
<1> HIDE DEF sp
<1>5. ASSUME NEW p \in H, \A q \in H : sp(q) <= sp(p), NEW q \in N PROVE sp(q) <= sp(p)
  BY <1>1, <1>2, <1>5
<1> QED
  BY <1>3, <1>4, <1>5

\* An allowance changes no period's specificity.
EffectiveKeeps(N, season, priority, account, T) ==
    /\ \A p \in N : Specificity(Effective(p, account, T), season, priority)
                       = Specificity(p, season, priority)
    /\ MostSpecific({Effective(p, account, T) : p \in N}, season, priority)
         = {Effective(p, account, T) : p \in MostSpecific(N, season, priority)}

LEMMA EffectiveSpecific ==
    ASSUME NEW N, NEW season, NEW priority, NEW account, NEW T, Dated(N)
    PROVE  EffectiveKeeps(N, season, priority, account, T)
<1> DEFINE E(p) == Effective(p, account, T)
           sp(p) == Specificity(p, season, priority)
<1>1. ASSUME NEW p \in N PROVE sp(E(p)) = sp(p)
  <2>1. E(p).season = p.season /\ E(p).day = p.day
    BY DEF Effective, Dated
  <2> HIDE DEF E
  <2> QED
    BY <2>1 DEF Specificity
<1>2. MostSpecific({E(p) : p \in N}, season, priority)
        = {x \in {E(p) : p \in N} : \A y \in {E(p) : p \in N} : sp(y) <= sp(x)}
  BY DEF MostSpecific
<1>3. MostSpecific(N, season, priority) = {p \in N : \A q \in N : sp(q) <= sp(p)}
  BY DEF MostSpecific
<1>4. MostSpecific({E(p) : p \in N}, season, priority)
        = {E(p) : p \in MostSpecific(N, season, priority)}
  <2> HIDE DEF E, sp
  <2> QED
    BY <1>1, <1>2, <1>3
<1> QED
  BY <1>1, <1>4, Zenon DEF EffectiveKeeps

RowsOK(rows, account) ==
    /\ IsFiniteSet(rows) /\ rows \subseteq PlanPeriods
    /\ account => \A p \in rows : AccountTier(p)
InstantResolved(rows, account, season, priority, minute, u, incremental, T) ==
    LET now == {Effective(p, account, T) :
                   p \in {q \in Eligible(Expanded(rows), season, priority) :
                             q.start <= minute /\ minute < q.end}}
        holding == {p \in now : p.low <= u /\ UpperHolds(p, u)}
    IN  Cardinality(AtBoundary(MostSpecific(holding, season, priority), u, incremental)) = 1

\* One instant and usage: the engine finds one period where the validation passed.
LEMMA InstantResolves ==
    ASSUME NEW rows, NEW account, RowsOK(rows, account),
           NEW season, NEW priority, IsPriority(priority),
           OneDayValid(Expanded(rows), season, priority),
           NEW minute \in 0 .. Slots - 1, NEW u \in Usages, NEW incremental,
           NEW T \in Thresholds
    PROVE  InstantResolved(rows, account, season, priority, minute, u, incremental, T)
<1> DEFINE ps == Expanded(rows)
           N == {q \in Eligible(ps, season, priority) : q.start <= minute /\ minute < q.end}
           best == MostSpecific(N, season, priority)
           now == {Effective(p, account, T) : p \in N}
           M == {Effective(p, account, T) : p \in best}
           holding == {p \in now : p.low <= u /\ UpperHolds(p, u)}
           H == {p \in M : p.low <= u /\ UpperHolds(p, u)}
<1>1. TierAxisValid(best)
  BY Zenon DEF OneDayValid
<1>2. N \subseteq ps /\ best \subseteq N
  BY DEF Eligible, MostSpecific
<1>3. IsFiniteSet(best)
  BY <1>2, ExpandedFinite, FS_Subset DEF RowsOK
<1>4. ASSUME NEW p \in ps
      PROVE  /\ TierOK(p) /\ (account => AccountTier(p))
             /\ {"low", "high", "season", "day"} \subseteq DOMAIN p
  <2>1. PICK r \in rows : /\ p.low = r.low /\ p.high = r.high
                          /\ {"low", "high", "season", "day"} \subseteq DOMAIN p
    BY ExpandedAre
  <2>2. r \in PlanPeriods
    BY DEF RowsOK
  <2>3. TierOK(p)
    BY <2>1, <2>2, TariffAssumption DEF TierOK
  <2>4. account => AccountTier(p)
    BY <2>1 DEF AccountTier, RowsOK
  <2> QED
    BY <2>1, <2>3, <2>4
<1>5. \A p \in N : Specificity(p, season, priority) \in Int
  <2> SUFFICES ASSUME NEW p \in N PROVE Specificity(p, season, priority) \in Int
    OBVIOUS
  <2>1. \E i \in DOMAIN priority : priority[i] = p.day
    BY DEF Eligible
  <2> QED
    BY <2>1, SpecificityInt, Zenon
<1> HIDE DEF N
<1>6. Dated(N)
  BY <1>2, <1>4 DEF Dated
<1>7. /\ \A p \in N : Specificity(Effective(p, account, T), season, priority)
                         = Specificity(p, season, priority)
      /\ MostSpecific(now, season, priority) = M
  <2>1. EffectiveKeeps(N, season, priority, account, T)
    BY <1>6, EffectiveSpecific, Zenon
  <2> QED
    BY <2>1, Zenon DEF EffectiveKeeps
<1>8. Comparable(now, season, priority)
  BY <1>5, <1>7 DEF Comparable
<1> HIDE DEF best
<1>9. AxisSound(M) /\ \A p \in M : p.low \in Nat
  <2>1. \A p \in best : TierOK(p) /\ (account => AccountTier(p))
                        /\ {"low", "high"} \subseteq DOMAIN p
    BY <1>2, <1>4
  <2>2. CASE account
    <3>1. account = TRUE
      BY <2>2
    <3>2. AxisSound({Effective(p, TRUE, T) : p \in best})
      BY <1>1, <1>3, <2>1, <2>2, AccountAxis
    <3>3. ASSUME NEW p \in best PROVE Effective(p, TRUE, T).low \in Nat
      <4>1. T \in Nat
        BY TariffAssumption
      <4>2. {"low", "high"} \subseteq DOMAIN p
        BY <2>1
      <4>3. CASE p.low > 0
        BY <4>1, <4>2, <4>3, EffectiveIs
      <4>4. CASE ~(p.low > 0)
        <5>1. Effective(p, TRUE, T).low = 0
          BY <4>2, <4>4, EffectiveIs
        <5>2. 0 \in Nat
          OBVIOUS
        <5> QED
          BY <5>1, <5>2, Zenon
      <4> QED
        BY <4>3, <4>4
    <3> QED
      BY <3>1, <3>2, <3>3
  <2>3. CASE ~account
    <3>1. M = best
      BY <2>3 DEF Effective
    <3>2. AxisSound(best)
      BY <1>1, <1>3, <2>1, AxisResolves
    <3> QED
      BY <2>1, <3>1, <3>2 DEF TierOK
  <2> QED
    BY <2>2, <2>3
<1> HIDE DEF M, now
<1>10. /\ Cardinality(AtBoundary(H, u, incremental)) = 1
       /\ \E p \in H : TRUE
  BY <1>9, BoundaryResolves, Zenon
<1>11. H \subseteq M /\ M \subseteq now /\ H = M \cap holding
  BY <1>7 DEF MostSpecific
<1> HIDE DEF H
<1>12. MostSpecific(holding, season, priority) = H
  <2>1. PICK h \in H : TRUE
    BY <1>10
  <2>2. h \in holding /\ h \in MostSpecific(now, season, priority) /\ holding \subseteq now
    BY <1>7, <1>11
  <2> HIDE DEF holding
  <2>3. MostSpecific(holding, season, priority)
          = MostSpecific(now, season, priority) \cap holding
    BY <1>8, <2>2, SpecificFirst
  <2> QED
    BY <1>7, <1>11, <2>3
<1> QED
  BY <1>10, <1>12, Zenon DEF now, N, InstantResolved

\* A candidate as a reviewer assembles it.
DraftOK(d) ==
    /\ d \in [rows : SUBSET PlanPeriods, account : BOOLEAN, treatment : Treatments,
              seasons : SeasonSets \cup {{}}, holidays : Calendars, events : Calendars]
    /\ IsFiniteSet(d.rows)
    /\ d.account => \A p \in d.rows : AccountTier(p)

\* The seasons of a day are finitely many.
LEMMA SeasonsFinite ==
    ASSUME NEW seasons, IsFiniteSet(seasons), NEW day
    PROVE  IsFiniteSet(SeasonsAt(seasons, day))
<1> DEFINE S == {t \in seasons : InSeason(t, day)}
           f == [s \in S |-> s.name]
<1>1. IsFiniteSet(S)
  BY FS_Subset
<1>2. f \in Surjection(S, SeasonsAt(seasons, day))
  BY DEF Surjection, SeasonsAt
<1> QED
  BY <1>1, <1>2, FS_Surjection

\* A calendar that publication accepted covers the days of the version.
LEMMA CalendarCovers ==
    ASSUME NEW calendar \in Calendars, CalendarAccepted(calendar, TRUE), NEW day \in VersionDays
    PROVE  Covers(calendar, day)
<1>1. calendar # NoCalendar /\ calendar.from <= FirstDay /\ LastDay <= calendar.to
  BY DEF CalendarAccepted
<1>2. calendar.from \in Nat /\ calendar.to \in Nat /\ FirstDay \in Nat /\ LastDay \in Nat
  BY <1>1, TariffAssumption
<1>3. day \in Int /\ FirstDay <= day /\ day <= LastDay
  BY <1>2 DEF VersionDays
<1> QED
  BY <1>1, <1>2, <1>3 DEF Covers

\* The day types the validation looks at.
RegularDays(treatment) ==
    {"weekday", "weekend"} \cup
    (IF treatment = "explicit_holiday_schedule" THEN {"holiday"} ELSE {})

\* The day type of a day of the version is one the validation looked at.
LEMMA BaseIsRegular ==
    ASSUME NEW d, DraftOK(d), Publishes(d), NEW day \in VersionDays
    PROVE  BaseDayType(d, Expanded(d.rows), day) \in RegularDays(CanonicalTreatment(d.treatment))
<1> DEFINE ps == Expanded(d.rows)
           t == CanonicalTreatment(d.treatment)
           base == BaseDayType(d, ps, day)
           ordinary == IF day \in WeekendDays THEN "weekend" ELSE "weekday"
<1>1. CASE ~NeedsHolidays(t, ps)
  <2>1. base = ordinary
    BY <1>1 DEF BaseDayType
  <2> QED
    BY <2>1 DEF RegularDays
<1>2. CASE NeedsHolidays(t, ps)
  <2>1. CalendarAccepted(d.holidays, TRUE)
    <3>1. CalendarAccepted(d.holidays, NeedsHolidays(t, ps))
      BY Zenon DEF Publishes
    <3> QED
      BY <1>2, <3>1, Zenon DEF CalendarAccepted
  <2>2. Covers(d.holidays, day)
    BY <2>1, CalendarCovers DEF DraftOK
  <2>3. base = IF day \notin d.holidays.dates THEN ordinary
               ELSE CASE t = "same_as_weekend" -> "weekend"
                      [] t = "same_as_weekday" -> "weekday"
                      [] OTHER -> "holiday"
    BY <1>2, <2>2 DEF BaseDayType
  <2>4. t \in {"same_as_weekend", "same_as_weekday", "explicit_holiday_schedule"}
    BY <1>2 DEF NeedsHolidays
  <2> HIDE DEF base, t
  <2>5. base \in RegularDays(t)
    BY <2>3, <2>4 DEF RegularDays
  <2> QED
    BY <2>5 DEF base, t
<1> QED
  BY <1>1, <1>2

IsError(priority) == \E i \in DOMAIN priority : priority[i] = "error"

\* The order of day types the engine uses is one that publication looked at.
LEMMA PriorityValidated ==
    ASSUME NEW d, DraftOK(d), Publishes(d), NEW day \in VersionDays,
           NEW s, s \in {t.name : t \in d.seasons}
    PROVE  LET priority == DayTypePriority(d, Expanded(d.rows), day)
           IN  /\ IsPriority(priority) /\ ~IsError(priority)
               /\ OneDayValid(Expanded(d.rows), s, priority)
<1> DEFINE ps == Expanded(d.rows)
           base == BaseDayType(d, ps, day)
           t == CanonicalTreatment(d.treatment)
<1>1. base \in RegularDays(t)
  BY BaseIsRegular, Zenon
<1>2. base # "error"
  BY <1>1 DEF RegularDays
<1>3. CoverageValid(ps, d.seasons, t)
  BY Zenon DEF Publishes
<1>4. \A day2 \in RegularDays(t) :
         IF EventAware(ps)
         THEN \A e \in {"event_day", "non_event_day"} : OneDayValid(ps, s, <<e, day2, "all">>)
         ELSE OneDayValid(ps, s, <<day2, "all">>)
  BY <1>3, Zenon DEF CoverageValid, RegularDays
<1>5. CASE ~EventAware(ps)
  <2>1. DayTypePriority(d, ps, day) = <<base, "all">>
    BY <1>5, Zenon DEF DayTypePriority
  <2>2. OneDayValid(ps, s, <<base, "all">>)
    BY <1>1, <1>4, <1>5, Zenon
  <2> HIDE DEF base
  <2>3. IsPriority(<<base, "all">>) /\ ~IsError(<<base, "all">>)
    BY <1>2 DEF IsPriority, IsError
  <2> QED
    BY <2>1, <2>2, <2>3, Zenon
<1>6. CASE EventAware(ps)
  <2>1. CalendarAccepted(d.events, TRUE)
    <3>1. CalendarAccepted(d.events, EventAware(ps))
      BY Zenon DEF Publishes
    <3> QED
      BY <1>6, <3>1, Zenon DEF CalendarAccepted
  <2>2. Covers(d.events, day)
    BY <2>1, CalendarCovers DEF DraftOK
  <2> DEFINE e == IF day \in d.events.dates THEN "event_day" ELSE "non_event_day"
  <2>3. DayTypePriority(d, ps, day) = <<e, base, "all">>
    BY <1>6, <2>2, Zenon DEF DayTypePriority
  <2>4. e \in {"event_day", "non_event_day"}
    OBVIOUS
  <2> HIDE DEF e
  <2>5. OneDayValid(ps, s, <<e, base, "all">>)
    BY <1>1, <1>4, <1>6, <2>4, Zenon
  <2> HIDE DEF base
  <2>6. e # "error"
    BY <2>4
  <2>7. IsPriority(<<e, base, "all">>) /\ ~IsError(<<e, base, "all">>)
    BY <1>2, <2>6 DEF IsPriority, IsError
  <2> QED
    BY <2>3, <2>5, <2>7, Zenon
<1> QED
  BY <1>5, <1>6, Zenon

\* A published schedule, at any instant of its version.
LEMMA ScheduleResolves ==
    ASSUME NEW d, DraftOK(d), Publishes(d), NEW day \in VersionDays,
           NEW minute \in 0 .. Slots - 1, NEW usage \in Usages, NEW incremental \in BOOLEAN,
           NEW threshold \in Thresholds
    PROVE  \E s \in SeasonsAt(d.seasons, day) :
              Cardinality(PeriodsFor(d, day, minute, usage, incremental, threshold, s)) = 1
<1> DEFINE ps == Expanded(d.rows)
           seasons == SeasonsAt(d.seasons, day)
           season == CHOOSE s \in seasons : TRUE
           priority == DayTypePriority(d, ps, day)
           now == {Effective(p, d.account, threshold) :
                      p \in {q \in Eligible(ps, season, priority) :
                                q.start <= minute /\ minute < q.end}}
           holding == {p \in now : p.low <= usage /\ UpperHolds(p, usage)}
<1>1. Cardinality(seasons) = 1
  BY Zenon DEF Publishes
<1>2. IsFiniteSet(seasons)
  <2>1. IsFiniteSet(d.seasons)
    BY TariffAssumption, FS_EmptySet DEF DraftOK
  <2> QED
    BY <2>1, SeasonsFinite, Zenon
<1>3. season \in seasons
  <2>1. \E x : seasons = {x}
    BY <1>1, <1>2, FS_Singleton, Zenon
  <2> QED
    BY <2>1, Zenon
<1>4. season \in {t.name : t \in d.seasons}
  BY <1>3 DEF SeasonsAt
<1> HIDE DEF seasons, season
<1>5. IsPriority(priority) /\ ~IsError(priority) /\ OneDayValid(ps, season, priority)
  BY <1>4, PriorityValidated, Zenon
<1>6. RowsOK(d.rows, d.account)
  BY DEF DraftOK, RowsOK
<1>7. Cardinality(AtBoundary(MostSpecific(holding, season, priority), usage, incremental)) = 1
  <2>1. InstantResolved(d.rows, d.account, season, priority, minute, usage, incremental,
                        threshold)
    BY <1>5, <1>6, InstantResolves, Zenon
  <2> QED
    BY <2>1, Zenon DEF InstantResolved
<1>8. \A p \in now : p.season \in {season, "all"}
  <2> SUFFICES ASSUME NEW p \in Eligible(ps, season, priority)
               PROVE  Effective(p, d.account, threshold).season \in {season, "all"}
    OBVIOUS
  <2>1. p \in ps /\ p.season \in {season, "all"}
    BY DEF Eligible
  <2>2. "season" \in DOMAIN p
    BY <2>1, ExpandedAre
  <2> QED
    BY <2>1, <2>2 DEF Effective
<1>9. PeriodsFor(d, day, minute, usage, incremental, threshold, season)
        = IF \/ Cardinality(seasons) # 1
             \/ IsError(priority)
             \/ d.account /\ \E p \in now : p.season \notin {season, "all"}
          THEN {}
          ELSE AtBoundary(MostSpecific(holding, season, priority), usage, incremental)
  BY Zenon DEF PeriodsFor, IsError, seasons, season
<1> HIDE DEF ps, priority, now, holding
<1>10. PeriodsFor(d, day, minute, usage, incremental, threshold, season)
         = AtBoundary(MostSpecific(holding, season, priority), usage, incremental)
  BY <1>1, <1>5, <1>8, <1>9, Zenon
<1> QED
  BY <1>3, <1>7, <1>10, Zenon DEF seasons

\* The inductive invariant.
DraftInv == DraftOK(draft)

\* Every step keeps a candidate well formed.
LEMMA DraftStep ==
    ASSUME DraftInv, [TariffNext]_tariffVars
    PROVE  DraftInv'
<1>1. CASE draft' = draft
  BY <1>1, Zenon DEF DraftInv
<1>2. ASSUME NEW account \in BOOLEAN, NEW t \in Treatments, NEW ss \in SeasonSets,
             NEW h \in Calendars, NEW e \in Calendars, StartDraft(account, t, ss, h, e)
      PROVE  DraftInv'
  <2>1. draft' = [rows |-> {}, account |-> account, treatment |-> t, seasons |-> ss,
                  holidays |-> h, events |-> e]
    BY <1>2, Zenon DEF StartDraft
  <2> QED
    BY <2>1, FS_EmptySet DEF DraftInv, DraftOK
<1>3. ASSUME NEW p \in PlanPeriods, AddPeriod(p)
      PROVE  DraftInv'
  <2>1. draft' = [draft EXCEPT !.rows = @ \cup {p}]
    BY <1>3, Zenon DEF AddPeriod
  <2>2. draft.account => AccountTier(p)
    BY <1>3, Zenon DEF AddPeriod, AccountTier
  <2>3. IsFiniteSet(draft.rows \cup {p})
    BY FS_AddElement DEF DraftInv, DraftOK
  <2>4. draft'.rows = draft.rows \cup {p} /\ draft'.account = draft.account
    BY <2>1 DEF DraftInv, DraftOK
  <2>5. draft' \in [rows : SUBSET PlanPeriods, account : BOOLEAN, treatment : Treatments,
                    seasons : SeasonSets \cup {{}}, holidays : Calendars, events : Calendars]
    BY <2>1 DEF DraftInv, DraftOK
  <2>6. draft.account => \A q \in draft.rows \cup {p} : AccountTier(q)
    BY <2>2 DEF DraftInv, DraftOK
  <2> QED
    BY <2>3, <2>4, <2>5, <2>6, Zenon DEF DraftInv, DraftOK
<1>4. ASSUME TariffNext, draft' # draft
      PROVE  \/ \E account \in BOOLEAN, t \in Treatments, ss \in SeasonSets,
                   h \in Calendars, e \in Calendars : StartDraft(account, t, ss, h, e)
             \/ \E p \in PlanPeriods : AddPeriod(p)
  BY <1>4 DEF TariffNext, StartPricing, PriceSegment, PricingFails, NextBucket, RoundCosts
<1> QED
  BY <1>1, <1>2, <1>3, <1>4, Zenon DEF tariffVars

\* A schedule that publish_rate_candidate accepts prices every instant of its
\* version (_period_for finds exactly one period), at every usage and account
\* allowance, exactly on tier bounds, on holidays and on event days, for any number
\* of periods, seasons, tiers and calendars.
THEOREM SchedulesCorrect == TariffSpec => []PublishedScheduleResolves
<1>1. TariffInit => DraftInv
  BY FS_EmptySet, TariffAssumption DEF TariffInit, NoDraft, DraftInv, DraftOK, Treatments
<1>2. DraftInv /\ [TariffNext]_tariffVars => DraftInv'
  BY DraftStep
<1>3. DraftInv => PublishedScheduleResolves
  BY ScheduleResolves, Zenon DEF DraftInv, PublishedScheduleResolves
<1> QED
  BY <1>1, <1>2, <1>3, PTL DEF TariffSpec
================================================================================
