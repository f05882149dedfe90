----------------------------- MODULE Worker_proofs -----------------------------
(***************************************************************************)
(* Proofs about two jobs of the worker's cycle.                            *)
(*                                                                         *)
(* Alerts: for every age threshold and every bound on the time and the     *)
(* heartbeats between an observation and its commit, a condition has at    *)
(* most one live alert, and a live alert rests on an active condition that *)
(* has lasted its debounce.  The invariant adds that what a cycle is about *)
(* to commit fits the alert it found, since the observation, its           *)
(* application and the commit are steps of their own.                      *)
(*                                                                         *)
(* Rate synchronisation: for any pages, retries and edits, revisions have  *)
(* their artifacts, the stored validator is the one of a page that was     *)
(* parsed, a "not modified" names the page it confirmed, and checks commit *)
(* in the order in which they looked.  The invariant adds the lease (one   *)
(* check is in progress at most) and that what a check holds between its   *)
(* steps fits the committed rows: its revision has an artifact, its        *)
(* validator belongs to a parsed page or to its own candidate, and its     *)
(* look at the page is not older than the last committed one.              *)
(***************************************************************************)
EXTENDS RateSync, Alerts, SequenceTheorems, TLAPS

--------------------------------------------------------------------------------
(* Alerts *)

Conditions ==
    [exists : BOOLEAN, active : BOOLEAN, age : 0 .. ConditionAgeCap,
     count : 0 .. MinimumObservations, key : 0 .. NoKey]

Observed == [phase : {"observed"}, active : BOOLEAN, key : 0 .. MaxNewer, lag : 0 .. MaxLag]
Applied  == [phase : {"applied"}, key : 0 .. MaxNewer, lag : 0 .. MaxLag,
             next : Conditions, effect : {"none", "open", "resolve"}]

\* AlertsTypeOK with the fields of alerts and cycles that it leaves open.
AlertsTyped ==
    /\ AlertsTypeOK
    /\ alerts \in [live : {0, 1}, state : AlertStates]
    /\ cycle \in {NoCycle} \cup Observed \cup Applied

\* The condition c is active and has lasted what its kind asks for.
Supports(c) == c.active /\ c.age >= Debounce /\ c.count >= MinimumObservations

\* What a cycle is about to commit fits the alert it found: it opens one only
\* when there is none, resolves one only when there is one, and leaves an alert
\* live only on a condition that supports it.
CommitFits ==
    cycle.phase = "applied" =>
        /\ cycle.effect = "open" => alerts.live = 0 /\ Supports(cycle.next)
        /\ cycle.effect = "resolve" => alerts.live = 1
        /\ cycle.effect = "none" /\ alerts.live = 1 => Supports(cycle.next)

AlertsInv ==
    /\ AlertsTyped
    /\ alerts.live = 1 => Supports(condition)
    /\ CommitFits

\* Debounce and the number of observations are small and fixed by the kind.
LEMMA KindFacts ==
    ASSUME kind \in Kinds
    PROVE  Debounce \in 0 .. 2 /\ MinimumObservations \in 1 .. 2
BY DEF Kinds, Debounce, MinimumObservations

\* A supported alert stays supported while its condition grows older, meets
\* newer heartbeats or is observed again.
LEMMA SupportIsStable ==
    ASSUME AlertsTyped, NEW c \in Conditions
    PROVE  /\ Older(c) \in Conditions /\ Shifted(c) \in Conditions
           /\ Supports(c) => Supports(Older(c)) /\ Supports(Shifted(c))
<1>1. Debounce \in 0 .. 2 /\ MinimumObservations \in 1 .. 2
  BY KindFacts DEF AlertsTyped, AlertsTypeOK
<1>2. QED
  BY <1>1, AlertsAssumption
     DEF Conditions, Older, Shifted, Supports, Lesser, ConditionAgeCap, Stale, NoKey

\* _apply_alert_observation: the condition after an observation.
LEMMA ObservationTyped ==
    ASSUME AlertsTyped, NEW c \in Conditions, NEW o \in Observed
    PROVE  /\ AfterObservation(c, o) \in Conditions
           /\ Supports(c) /\ o.active => Supports(AfterObservation(c, o))
           /\ o.active => AfterObservation(c, o).active
           /\ Ready(AfterObservation(c, o), o) => Supports(AfterObservation(c, o))
<1>1. Debounce \in 0 .. 2 /\ MinimumObservations \in 1 .. 2
  BY KindFacts DEF AlertsTyped, AlertsTypeOK
<1> DEFINE r == Restarted(c, o)
<1>2. r \in Conditions /\ r.active /\ (c.active => r = c)
  <2>1. CASE c.active
    BY <2>1 DEF Restarted
  <2>2. CASE ~c.active
    <3>1. r = [exists |-> TRUE, active |-> TRUE, age |-> o.lag, count |-> 0, key |-> NoKey]
      BY <2>2 DEF Restarted, Conditions
    <3>2. o.lag \in 0 .. ConditionAgeCap /\ NoKey \in 0 .. NoKey
      BY AlertsAssumption DEF Observed, ConditionAgeCap, NoKey
    <3> HIDE DEF r
    <3>3. QED
      BY <1>1, <2>2, <3>1, <3>2 DEF Conditions
  <2>3. QED
    BY <2>1, <2>2
<1> HIDE DEF r
<1>3. /\ Counted(r, o.key) \in Conditions /\ Counted(r, o.key).active
      /\ Supports(r) => Supports(Counted(r, o.key))
  <2>1. CASE r.key = o.key
    BY <1>2, <2>1 DEF Counted
  <2>2. CASE r.key # o.key
    <3> DEFINE n == Lesser(r.count + 1, MinimumObservations)
    <3>1. n \in 0 .. MinimumObservations /\ n >= r.count
      BY <1>1, <1>2 DEF Lesser, Conditions
    <3>2. o.key \in 0 .. NoKey
      BY AlertsAssumption DEF Observed, NoKey
    <3>3. Counted(r, o.key) = [r EXCEPT !.count = n, !.key = o.key]
      BY <2>2 DEF Counted
    <3> HIDE DEF n
    <3>4. /\ Counted(r, o.key) \in Conditions /\ Counted(r, o.key).active = r.active
          /\ Counted(r, o.key).age = r.age /\ Counted(r, o.key).count = n
      BY <1>2, <3>1, <3>2, <3>3, Zenon DEF Conditions
    <3>5. QED
      BY <1>1, <1>2, <3>1, <3>4 DEF Conditions, Supports
  <2>3. QED
    BY <2>1, <2>2
<1>4. Cleared(c) \in Conditions
  <2>1. 0 \in 0 .. ConditionAgeCap /\ NoKey \in 0 .. NoKey /\ 0 \in 0 .. MinimumObservations
    BY <1>1, AlertsAssumption DEF ConditionAgeCap, NoKey
  <2>2. QED
    BY <2>1, ZenonT(60) DEF Cleared, Conditions
<1>5. AfterObservation(c, o) = IF o.active THEN Counted(r, o.key) ELSE Cleared(c)
  BY DEF AfterObservation, r
<1>6. \A d \in Conditions : Ready(d, o) /\ d.active => Supports(d)
  BY <1>1 DEF Ready, Supports, Conditions, Observed
<1>7. Ready(AfterObservation(c, o), o) => o.active
  BY DEF Ready
<1>8. QED
  BY <1>2, <1>3, <1>4, <1>5, <1>6, <1>7 DEF Supports

\* Every step of the alert cycle keeps its invariant.
LEMMA AlertsStep ==
    ASSUME AlertsInv, [AlertsNext]_alertVars
    PROVE  AlertsInv'
<1> USE DEF AlertsInv
<1>1. /\ Debounce \in 0 .. 2 /\ MinimumObservations \in 1 .. 2
      /\ condition \in Conditions
  BY KindFacts DEF AlertsTyped, AlertsTypeOK, Conditions
<1>2. ASSUME kind' = kind
      PROVE  /\ Conditions' = Conditions /\ Applied' = Applied
             /\ Debounce' = Debounce /\ MinimumObservations' = MinimumObservations
  BY <1>2 DEF Conditions, Applied, Debounce, MinimumObservations
<1>3. CASE Pass
  <2>1. /\ Conditions' = Conditions /\ Applied' = Applied
        /\ Debounce' = Debounce /\ MinimumObservations' = MinimumObservations
    BY <1>2, <1>3 DEF Pass
  <2>2. condition' \in Conditions /\ (Supports(condition) => Supports(condition)')
    BY <1>1, <1>3, <2>1, SupportIsStable DEF Pass, Supports
  <2>3. beat' \in [age : 0 .. AgeCap, faulty : BOOLEAN]
    BY <1>3, AlertsAssumption DEF Pass, AlertsTyped, AlertsTypeOK, Lesser, AgeCap
  <2>4. cycle' \in {NoCycle} \cup Observed \cup Applied /\ CommitFits'
    <3>1. CASE cycle.phase = "none"
      BY <1>3, <2>1, <3>1 DEF Pass, OlderCycle, AlertsTyped, Observed, Applied, CommitFits, NoCycle
    <3>2. CASE cycle.phase = "observed"
      BY <1>3, <2>1, <3>2, AlertsAssumption
         DEF Pass, Lagging, OlderCycle, AlertsTyped, Observed, Applied, CommitFits, NoCycle
    <3>3. CASE cycle.phase = "applied"
      <4>1. cycle \in Applied
        BY <3>3 DEF AlertsTyped, Observed, NoCycle
      <4>2. cycle' = [cycle EXCEPT !.lag = @ + 1, !.next = Older(@)]
        BY <1>3, <3>3 DEF Pass, OlderCycle
      <4>3. /\ Older(cycle.next) \in Conditions
            /\ Supports(cycle.next) => Supports(Older(cycle.next))
        BY <4>1, SupportIsStable DEF Applied
      <4>4. cycle.lag + 1 \in 0 .. MaxLag
        BY <1>3, <3>3, <4>1, AlertsAssumption DEF Pass, Lagging, Applied
      <4>5. /\ cycle' \in Applied /\ cycle'.effect = cycle.effect
            /\ cycle'.next = Older(cycle.next)
        BY <4>1, <4>2, <4>3, <4>4 DEF Applied
      <4>6. QED
        BY <1>3, <2>1, <3>3, <4>3, <4>5 DEF CommitFits, Pass, Supports
    <3>4. QED
      BY <3>1, <3>2, <3>3 DEF AlertsTyped, AlertsTypeOK
  <2>5. cycle'.phase \in {"none", "observed", "applied"}
    BY <2>4 DEF NoCycle, Observed, Applied
  <2>6. QED
    BY <1>3, <2>1, <2>2, <2>3, <2>4, <2>5 DEF Pass, AlertsTyped, AlertsTypeOK, Conditions
<1>4. ASSUME NEW faulty \in BOOLEAN, Report(faulty)
      PROVE  AlertsInv'
  <2>1. /\ Conditions' = Conditions /\ Applied' = Applied
        /\ Debounce' = Debounce /\ MinimumObservations' = MinimumObservations
    BY <1>2, <1>4 DEF Report
  <2>2. condition' \in Conditions /\ (Supports(condition) => Supports(condition)')
    BY <1>1, <1>4, <2>1, SupportIsStable DEF Report, Supports
  <2>3. beat' \in [age : 0 .. AgeCap, faulty : BOOLEAN]
    BY <1>4, AlertsAssumption DEF Report, AgeCap
  <2>4. cycle' \in {NoCycle} \cup Observed \cup Applied /\ CommitFits'
    <3>1. CASE cycle.phase = "none"
      BY <1>4, <2>1, <3>1
         DEF Report, ShiftedCycle, AlertsTyped, Observed, Applied, CommitFits, NoCycle
    <3>2. CASE cycle.phase = "observed"
      BY <1>4, <2>1, <3>2, AlertsAssumption
         DEF Report, ShiftedCycle, AlertsTyped, Observed, Applied, CommitFits, NoCycle
    <3>3. CASE cycle.phase = "applied"
      <4>1. cycle \in Applied
        BY <3>3 DEF AlertsTyped, Observed, NoCycle
      <4>2. cycle' = [cycle EXCEPT !.key = @ + 1, !.next = Shifted(@)]
        BY <1>4, <3>3 DEF Report, ShiftedCycle
      <4>3. /\ Shifted(cycle.next) \in Conditions
            /\ Supports(cycle.next) => Supports(Shifted(cycle.next))
        BY <4>1, SupportIsStable DEF Applied
      <4>4. cycle.key + 1 \in 0 .. MaxNewer
        BY <1>4, <3>3, <4>1, AlertsAssumption DEF Report, Applied
      <4>5. /\ cycle' \in Applied /\ cycle'.effect = cycle.effect
            /\ cycle'.next = Shifted(cycle.next)
        BY <4>1, <4>2, <4>3, <4>4 DEF Applied
      <4>6. QED
        BY <1>4, <2>1, <3>3, <4>3, <4>5 DEF CommitFits, Report, Supports
    <3>4. QED
      BY <3>1, <3>2, <3>3 DEF AlertsTyped, AlertsTypeOK
  <2>5. cycle'.phase \in {"none", "observed", "applied"}
    BY <2>4 DEF NoCycle, Observed, Applied
  <2>6. QED
    BY <1>4, <2>1, <2>2, <2>3, <2>4, <2>5 DEF Report, AlertsTyped, AlertsTypeOK, Conditions
<1>5. CASE Observe
  <2>1. Faulty \in BOOLEAN
    <3>1. beat.faulty \in BOOLEAN
      BY DEF AlertsTyped, AlertsTypeOK
    <3>2. HeartbeatFault \in BOOLEAN
      <4>1. CASE kind = "offline"
        BY <4>1 DEF HeartbeatFault
      <4>2. CASE kind = "delayed"
        BY <4>2 DEF HeartbeatFault
      <4>3. CASE kind \notin {"offline", "delayed"}
        BY <4>3 DEF HeartbeatFault
      <4>4. QED
        BY <4>1, <4>2, <4>3
    <3>3. QED
      BY <3>1, <3>2, Zenon DEF Faulty, OperationalFault
  <2>2. cycle' \in Observed
    BY <1>5, <2>1, AlertsAssumption DEF Observe, Observed
  <2>3. QED
    BY <1>2, <1>5, <2>2
       DEF Observe, AlertsTyped, AlertsTypeOK, Observed, CommitFits, Supports
<1>6. CASE ApplyObservation
  <2> DEFINE c == AfterObservation(condition, cycle)
  <2>1. cycle \in Observed
    BY <1>6 DEF ApplyObservation, AlertsTyped, NoCycle, Applied
  <2>2. /\ c \in Conditions
        /\ Supports(condition) /\ cycle.active => Supports(c)
        /\ Ready(c, cycle) => Supports(c)
    BY <1>1, <2>1, ObservationTyped
  <2>3. /\ Effect(c, cycle) \in {"none", "open", "resolve"}
        /\ Effect(c, cycle) = "open" => alerts.live = 0 /\ Ready(c, cycle)
        /\ Effect(c, cycle) = "resolve" => alerts.live = 1
        /\ Effect(c, cycle) = "none" /\ alerts.live = 1 => cycle.active
    BY <2>1 DEF Effect, AlertsTyped, Observed
  <2>4. cycle' = [phase |-> "applied", key |-> cycle.key, lag |-> cycle.lag,
                  next |-> c, effect |-> Effect(c, cycle)]
    BY <1>6 DEF ApplyObservation
  <2> HIDE DEF c
  <2>5. cycle' \in Applied
    BY <2>1, <2>2, <2>3, <2>4 DEF Applied, Observed
  <2>6. CommitFits'
    BY <1>2, <1>6, <2>2, <2>3, <2>4 DEF CommitFits, ApplyObservation, Supports
  <2>7. QED
    BY <1>2, <1>6, <2>5, <2>6
       DEF ApplyObservation, AlertsTyped, AlertsTypeOK, Applied, Supports
<1>7. CASE CommitCycle
  <2>1. cycle \in Applied
    BY <1>7 DEF CommitCycle, AlertsTyped, NoCycle, Observed
  <2>2. /\ condition' \in Conditions
        /\ alerts' \in [live : {0, 1}, state : AlertStates]
        /\ alerts'.live = 1 => Supports(cycle.next)
    BY <1>7, <2>1 DEF CommitCycle, CommitFits, AlertsTyped, Applied, AlertStates
  <2>3. QED
    BY <1>2, <1>7, <2>2
       DEF CommitCycle, AlertsTyped, AlertsTypeOK, CommitFits, NoCycle, Supports, Conditions,
           AlertStates
<1>8. CASE AbortCycle
  BY <1>2, <1>8 DEF AbortCycle, AlertsTyped, AlertsTypeOK, CommitFits, NoCycle, Supports, Conditions
<1>9. CASE acknowledge_alert
  <2>1. alerts' \in [live : {0, 1}, state : AlertStates] /\ alerts'.live = alerts.live
    BY <1>9 DEF acknowledge_alert, AlertsTyped, AlertStates
  <2>2. QED
    BY <1>2, <1>9, <2>1
       DEF acknowledge_alert, AlertsTyped, AlertsTypeOK, CommitFits, Supports, Conditions
<1>10. CASE ChangeWindow
  BY <1>2, <1>10 DEF ChangeWindow, AlertsTyped, AlertsTypeOK, CommitFits, Supports, Conditions
<1>11. CASE RevokeDevice
  BY <1>2, <1>11 DEF RevokeDevice, AlertsTyped, AlertsTypeOK, CommitFits, Supports, Conditions
<1>12. CASE UNCHANGED alertVars
  BY <1>2, <1>12 DEF alertVars, AlertsTyped, AlertsTypeOK, CommitFits, Supports, Conditions
<1>13. QED
  BY <1>3, <1>4, <1>5, <1>6, <1>7, <1>8, <1>9, <1>10, <1>11, <1>12 DEF AlertsNext

\* At most one live alert for a condition, and none without a condition that is
\* active, has lasted its debounce and was seen often enough.
THEOREM AlertsCorrect == AlertsSpec => []AlertsSound
<1>1. AlertsInit => AlertsInv
  <2> SUFFICES ASSUME AlertsInit PROVE AlertsInv
    OBVIOUS
  <2>1. /\ 0 \in 0 .. AgeCap /\ 0 \in 0 .. ConditionAgeCap /\ NoKey \in 0 .. NoKey
        /\ 0 \in 0 .. MinimumObservations
    BY KindFacts, AlertsAssumption DEF AlertsInit, AgeCap, ConditionAgeCap, NoKey
  <2>2. AlertsTyped
    BY <2>1 DEF AlertsInit, AlertsTyped, AlertsTypeOK, NoCondition, NoCycle, AlertStates
  <2>3. QED
    BY <2>2 DEF AlertsInit, AlertsInv, CommitFits, NoCycle
<1>2. AlertsInv /\ [AlertsNext]_alertVars => AlertsInv'
  BY AlertsStep
<1>3. AlertsInv => AlertsSound
  BY DEF AlertsInv, AlertsTyped, AlertsSound, AlertsRestOnConditions, Supports
<1>4. QED
  BY <1>1, <1>2, <1>3, PTL DEF AlertsSpec
--------------------------------------------------------------------------------
(* Checks of a rate source *)

Parsed == source.candidates \cup discarded

\* What a run row says of a 304: NotModifiedNamesConfirmedPage for any run.
NamesConfirmedPage(r) ==
    r.status = "not_modified" /\ r.revision # r.seen =>
        \E i, j \in DOMAIN source.revisions :
            i < j /\ source.revisions[i] = r.seen /\ source.revisions[j] = r.revision

\* A check that holds an answer of the utility.
Holding(c) == c.pc \in {"answered", "stored", "revised"}

\* What the check of s holds fits the committed rows: the validator it sent and
\* the one it will leave are of parsed pages, its revision has an artifact, and
\* its look at the page is not older than the last one committed.
CheckFits(s) ==
    LET c == sync[s] IN
    /\ c.pc = "idle" => c = IdleSync
    /\ c.asked # NoContent => c.asked \in Parsed
    /\ c.asOf <= edits
    /\ Holding(c) => /\ c.answer \in Pages
                     /\ c.etag # NoContent => c.etag = c.answer \/ c.etag \in Parsed
                     /\ lastRun.asOf <= c.asOf
    /\ c.pc = "answered" /\ c.status = "not_modified" => c.etag = c.answer /\ c.answer \in Parsed
    /\ c.pc \in {"stored", "revised"} => c.answer \in artifacts /\ c.status = "changed"
    /\ c.pc \in {"fetch", "answered", "stored"} => c.revision = NoContent
    /\ c.pc = "revised" => c.revision = c.answer
    /\ c.revision # NoContent => c.revision \in artifacts
    /\ c.pc = "complete" =>
          /\ c.candidate # NoContent => c.candidate = c.revision
          /\ c.validator # NoContent => c.validator \in Parsed \cup {c.candidate}
          /\ c.run.seen # NoContent => lastRun.asOf <= c.run.asOf
          /\ c.run.asOf <= edits
          /\ NamesConfirmedPage(c.run)

\* The lease: one check at most is in progress.
OneCheck == \A s, t \in Syncers : s # t => sync[s].pc = "idle" \/ sync[t].pc = "idle"

\* A validator a process has read is of a parsed page, though the row may hold a
\* later one by now.
LoadedOfParsedPage ==
    \A s \in Syncers : \A tag \in loaded[s] : tag # NoContent => tag \in Parsed

SyncInv ==
    /\ SyncTypeOK
    /\ LoadedOfParsedPage
    /\ OneCheck
    /\ RevisionsHaveArtifacts
    /\ Parsed \subseteq Range(source.revisions)
    /\ ValidatorOfParsedPage
    /\ NotModifiedNamesConfirmedPage
    /\ lastRun.asOf <= edits
    /\ \A s \in Syncers : CheckFits(s)

\* Only the check of s moves, and the rows stay as they are.
LEMMA OneCheckMoves ==
    ASSUME SyncInv, NEW s \in Syncers,
           sync' \in [Syncers -> Checks],
           \A t \in Syncers \ {s} : sync'[t] = sync[t],
           sync[s].pc # "idle" \/ LeaseFree(s) \/ sync'[s].pc = "idle",
           artifacts' \in SUBSET Pages, artifacts \subseteq artifacts',
           UNCHANGED <<page, edits, accepted, source, discarded, lastRun>>,
           loaded' = loaded \/ loaded' = [loaded EXCEPT ![s] = {}],
           CheckFits(s)'
    PROVE  SyncInv'
<1>1. SyncTypeOK'
  BY DEF SyncInv, SyncTypeOK
<1>2. OneCheck'
  BY DEF SyncInv, OneCheck, LeaseFree
<1>3. ASSUME NEW t \in Syncers \ {s}
      PROVE  CheckFits(t)'
  BY <1>3 DEF SyncInv, CheckFits, Parsed, NamesConfirmedPage, Holding
<1>4. LoadedOfParsedPage'
  BY DEF SyncInv, SyncTypeOK, LoadedOfParsedPage, Parsed
<1>5. QED
  BY <1>1, <1>2, <1>3, <1>4
     DEF SyncInv, RevisionsHaveArtifacts, Parsed, ValidatorOfParsedPage,
         NotModifiedNamesConfirmedPage

\* A failed check leaves the validator as it was and has no candidate.
LEMMA FailedFields ==
    ASSUME SyncTypeOK, NEW c \in Checks, NEW names \in Maybe
    PROVE  LET d == FailedCheck(c, names)
           IN  /\ d \in Checks
               /\ d.pc = "complete" /\ d.validator = source.etag /\ d.revision = c.revision
               /\ d.candidate = NoContent /\ d.asked = NoContent /\ d.asOf = 0
               /\ d.run.status = "none" /\ d.run.seen = NoContent /\ d.run.asOf = 0
<1> DEFINE d == FailedCheck(c, names)
           r == [NoRun EXCEPT !.state = "failed", !.revision = names]
<1>1. NoRun \in RunRows
  BY SyncAssumption DEF NoRun, RunRows, Statuses, Maybe
<1>2. r \in RunRows
  BY <1>1 DEF RunRows
<1>a. r.status = "none" /\ r.seen = NoContent /\ r.asOf = 0
  BY DEF NoRun
<1> HIDE DEF r
<1>3. /\ d.pc = "complete" /\ d.validator = source.etag /\ d.revision = c.revision
      /\ d.candidate = NoContent /\ d.asked = NoContent /\ d.asOf = 0 /\ d.run = r
      /\ d = [IdleSync EXCEPT !.pc = "complete", !.validator = source.etag,
                              !.revision = c.revision, !.run = r]
  BY DEF FailedCheck, IdleSync, r
<1> HIDE DEF d
<1>4. d \in Checks
  <2>1. IdleSync \in Checks
    BY SyncAssumption DEF IdleSync, Checks, NoRun, RunRows, Statuses, Maybe
  <2>2. source.etag \in Maybe /\ c.revision \in Maybe
    BY DEF SyncTypeOK, SourceRows, Checks
  <2>3. QED
    BY <1>2, <1>3, <2>1, <2>2 DEF Checks
<1>5. QED
  BY <1>a, <1>3, <1>4 DEF d

\* A check that fails keeps the validator and what it has flushed.
LEMMA FailureFits ==
    ASSUME SyncInv, NEW s \in Syncers, NEW names \in Maybe,
           sync' = [sync EXCEPT ![s] = FailedCheck(@, names)],
           sync[s].pc # "idle",
           UNCHANGED <<page, edits, accepted, artifacts, source, discarded, lastRun, loaded>>
    PROVE  SyncInv'
<1>1. SyncTypeOK /\ sync[s] \in Checks /\ CheckFits(s)
  BY DEF SyncInv, SyncTypeOK
<1>2. sync'[s] = FailedCheck(sync[s], names) /\ sync' \in [Syncers -> Checks]
  BY <1>1, FailedFields DEF SyncTypeOK
<1>3. CheckFits(s)'
  BY <1>1, <1>2, FailedFields, SyncAssumption
     DEF SyncInv, SyncTypeOK, CheckFits, Holding, NamesConfirmedPage, ValidatorOfParsedPage,
         Parsed
<1>4. QED
  BY <1>1, <1>2, <1>3, OneCheckMoves DEF SyncTypeOK

\* A completed check is a check.
LEMMA CompletedTyped ==
    ASSUME NEW c \in Checks, NEW outcome \in {"unchanged", "review_required"},
           NEW names \in Maybe, NEW validator \in Maybe
    PROVE  Completed(c, outcome, names, validator) \in Checks
<1> DEFINE r == [state |-> outcome, status |-> c.status, revision |-> names,
                 seen |-> c.answer, asOf |-> c.asOf]
<1>1. r \in RunRows
  BY DEF RunRows, Checks
<1>2. Completed(c, outcome, names, validator)
        = [IdleSync EXCEPT !.pc = "complete", !.validator = validator,
                           !.revision = c.revision, !.run = r]
  BY DEF Completed
<1> HIDE DEF r
<1>3. IdleSync \in Checks
  BY SyncAssumption DEF IdleSync, Checks, NoRun, RunRows, Statuses, Maybe
<1>4. c.revision \in Maybe
  BY DEF Checks
<1>5. QED
  BY <1>1, <1>2, <1>3, <1>4 DEF Checks

\* A check that ends with the page it knows: no candidate is new, and the run
\* names a revision of a page that was parsed.
LEMMA CompletionFits ==
    ASSUME SyncInv, NEW s \in Syncers,
           NEW names \in Maybe, NEW validator \in Maybe, NEW candidate \in Maybe,
           NEW outcome \in {"unchanged", "review_required"},
           Holding(sync[s]),
           candidate # NoContent => candidate = sync[s].revision,
           validator # NoContent => validator \in Parsed \cup {candidate},
           sync[s].status = "not_modified" =>
               NamesConfirmedPage([status |-> "not_modified", revision |-> names,
                                   seen |-> sync[s].answer]),
           sync' = [sync EXCEPT ![s] =
                      [Completed(sync[s], outcome, names, validator)
                           EXCEPT !.candidate = candidate]],
           UNCHANGED <<page, edits, accepted, artifacts, source, discarded, lastRun, loaded>>
    PROVE  SyncInv'
<1> DEFINE c == sync[s]
           d == Completed(c, outcome, names, validator)
           e == [d EXCEPT !.candidate = candidate]
<1>1. SyncTypeOK /\ c \in Checks /\ CheckFits(s) /\ c.pc # "idle"
  BY DEF SyncInv, SyncTypeOK, Holding
<1>2. d \in Checks
  BY <1>1, CompletedTyped
<1>3. /\ d.pc = "complete" /\ d.validator = validator /\ d.revision = c.revision
      /\ d.candidate = NoContent /\ d.asked = NoContent /\ d.asOf = 0
      /\ d.run.status = c.status /\ d.run.revision = names
      /\ d.run.seen = c.answer /\ d.run.asOf = c.asOf
  BY DEF Completed, IdleSync
<1> HIDE DEF d
<1>4. /\ e \in Checks /\ e.pc = "complete" /\ e.validator = validator
      /\ e.revision = c.revision /\ e.candidate = candidate /\ e.asked = NoContent
      /\ e.asOf = 0 /\ e.run.status = c.status /\ e.run.revision = names
      /\ e.run.seen = c.answer /\ e.run.asOf = c.asOf
  BY <1>2, <1>3 DEF Checks
<1>5. sync'[s] = e /\ sync' \in [Syncers -> Checks] /\ \A t \in Syncers \ {s} : sync'[t] = sync[t]
  BY <1>1, <1>4 DEF SyncTypeOK, d
<1> HIDE DEF e
<1>6. c.asOf <= edits /\ lastRun.asOf <= c.asOf /\ edits \in Nat
      /\ (c.revision # NoContent => c.revision \in artifacts)
  BY <1>1 DEF CheckFits, SyncTypeOK
<1>7. NamesConfirmedPage(e.run)
  BY <1>4 DEF NamesConfirmedPage
<1>a. NamesConfirmedPage(sync[s].run)'
  BY <1>5, <1>7 DEF NamesConfirmedPage
<1>b. e.asOf <= edits' /\ e.run.asOf <= edits' /\ lastRun'.asOf <= e.run.asOf
  BY <1>4, <1>6
<1>c. validator # NoContent => validator \in Parsed' \cup {candidate}
  BY DEF Parsed
<1>d. e.revision # NoContent => e.revision \in artifacts'
  BY <1>4, <1>6
<1>8. CheckFits(s)'
  BY <1>4, <1>5, <1>b, <1>c, <1>d, <1>a DEF CheckFits, Holding
<1>9. QED
  BY <1>1, <1>5, <1>8, OneCheckMoves DEF SyncTypeOK

\* What a process has read of the source, and forgets when the lease is refused.
LEMMA LoadStep ==
    ASSUME SyncInv, NEW s \in Syncers, LoadSource(s) \/ LeaseRefused(s)
    PROVE  SyncInv'
<1>1. /\ UNCHANGED <<page, edits, accepted, artifacts, source, discarded, lastRun, sync>>
      /\ \E tags \in {{source.etag}, {}} : loaded' = [loaded EXCEPT ![s] = tags]
  BY DEF LoadSource, LeaseRefused
<1>2. SyncTypeOK /\ source.etag \in Maybe
  BY DEF SyncInv, SyncTypeOK, SourceRows
<1>3. loaded' \in [Syncers -> SUBSET Maybe] /\ \A t \in Syncers : \A tag \in loaded'[t] :
                                                tag \in loaded[t] \/ tag = source.etag
  BY <1>1, <1>2 DEF SyncTypeOK
<1>4. SyncTypeOK'
  BY <1>1, <1>2, <1>3 DEF SyncTypeOK
<1>5. LoadedOfParsedPage'
  BY <1>1, <1>3 DEF SyncInv, LoadedOfParsedPage, ValidatorOfParsedPage, Parsed
<1>6. ASSUME NEW t \in Syncers PROVE CheckFits(t)'
  BY <1>1, <1>6 DEF SyncInv, CheckFits, Holding, NamesConfirmedPage, Parsed
<1>7. QED
  BY <1>1, <1>4, <1>5, <1>6
     DEF SyncInv, OneCheck, RevisionsHaveArtifacts, Parsed, ValidatorOfParsedPage,
         NotModifiedNamesConfirmedPage

\* The steps of a check up to its outcome.
LEMMA BeginStep ==
    ASSUME SyncInv, NEW s \in Syncers, BeginCheck(s)
    PROVE  SyncInv'
<1>a. PICK tag \in loaded[s] :
        sync' = [sync EXCEPT ![s] = [IdleSync EXCEPT !.pc = "fetch", !.asked = tag]]
  BY DEF BeginCheck
<1> DEFINE e == [IdleSync EXCEPT !.pc = "fetch", !.asked = tag]
<1>1. SyncTypeOK /\ tag \in Maybe /\ edits \in Nat /\ lastRun.asOf \in Nat
  BY <1>a DEF SyncInv, SyncTypeOK, RunRows
<1>2. IdleSync \in Checks
  BY SyncAssumption DEF IdleSync, Checks, NoRun, RunRows, Statuses, Maybe
<1>3. /\ e \in Checks /\ e.pc = "fetch" /\ e.asked = tag /\ e.asOf = 0
      /\ e.revision = NoContent
  BY <1>1, <1>2 DEF Checks, IdleSync
<1>4. sync'[s] = e /\ sync' \in [Syncers -> Checks] /\ \A t \in Syncers \ {s} : sync'[t] = sync[t]
  BY <1>1, <1>3, <1>a DEF SyncTypeOK
<1> HIDE DEF e
<1>5. e.asked # NoContent => e.asked \in Parsed'
  BY <1>3 DEF SyncInv, LoadedOfParsedPage, Parsed, BeginCheck
<1>6. CheckFits(s)'
  <2>1. e.asOf <= edits'
    BY <1>1, <1>3 DEF BeginCheck
  <2>2. QED
    BY <1>3, <1>4, <1>5, <2>1 DEF CheckFits, Holding
<1>7. QED
  BY <1>1, <1>4, <1>6, OneCheckMoves DEF BeginCheck, SyncTypeOK

\* A fetch is tried again.
LEMMA RetryStep ==
    ASSUME SyncInv, NEW s \in Syncers, RetryFetch(s)
    PROVE  SyncInv'
<1> DEFINE c == sync[s]
           e == [sync[s] EXCEPT !.tries = @ + 1]
<1>1. SyncTypeOK /\ c \in Checks /\ CheckFits(s) /\ c.pc = "fetch"
  BY DEF SyncInv, SyncTypeOK, RetryFetch
<1>2. c.tries + 1 \in 0 .. RetryAttempts - 1
  BY <1>1, SyncAssumption DEF Checks, RetryFetch
<1>3. /\ e \in Checks /\ e.pc = "fetch" /\ e.asked = c.asked /\ e.asOf = c.asOf
      /\ e.revision = c.revision
  BY <1>1, <1>2 DEF Checks
<1>4. sync'[s] = e /\ sync' \in [Syncers -> Checks] /\ \A t \in Syncers \ {s} : sync'[t] = sync[t]
  BY <1>1, <1>3 DEF SyncTypeOK, RetryFetch
<1> HIDE DEF e
<1>5. CheckFits(s)'
  BY <1>1, <1>3, <1>4 DEF CheckFits, Holding, Parsed, RetryFetch
<1>6. QED
  BY <1>1, <1>4, <1>5, OneCheckMoves DEF RetryFetch, SyncTypeOK

\* The answer holds the page of the moment, or says that it is the one asked about.
LEMMA AnswerStep ==
    ASSUME SyncInv, NEW s \in Syncers, ReceiveAnswer(s)
    PROVE  SyncInv'
<1> DEFINE c == sync[s]
           status == IF c.asked = page THEN "not_modified" ELSE "changed"
<1>1. /\ SyncTypeOK /\ c \in Checks /\ CheckFits(s) /\ c.pc = "fetch"
      /\ edits \in 0 .. MaxEdits /\ page \in Pages /\ lastRun.asOf <= edits
  BY DEF SyncInv, SyncTypeOK, ReceiveAnswer
<1>2. PICK tag \in {page, c.asked} :
        sync' = [sync EXCEPT ![s] = [@ EXCEPT !.pc = "answered", !.asOf = edits,
                   !.answer = page, !.status = status,
                   !.etag = IF c.asked = page THEN page ELSE tag]]
  BY DEF ReceiveAnswer
<1> DEFINE etag == IF c.asked = page THEN page ELSE tag
           e == [c EXCEPT !.pc = "answered", !.asOf = edits, !.answer = page,
                          !.status = status, !.etag = etag]
<1>3. /\ etag \in Maybe /\ status \in Statuses
      /\ status = "not_modified" => etag = page /\ c.asked = page
      /\ etag = page \/ etag = c.asked
      /\ page \in Maybe
  BY <1>1 DEF Checks, Maybe, Statuses
<1> HIDE DEF etag, status
<1>4. /\ e \in Checks /\ e.pc = "answered" /\ e.asked = c.asked /\ e.asOf = edits
      /\ e.answer = page /\ e.status = status /\ e.etag = etag /\ e.revision = c.revision
  BY <1>1, <1>3 DEF Checks
<1>5. sync'[s] = e /\ sync' \in [Syncers -> Checks] /\ \A t \in Syncers \ {s} : sync'[t] = sync[t]
  BY <1>1, <1>2, <1>4 DEF SyncTypeOK, etag
<1> HIDE DEF e
<1>6. /\ c.asked # NoContent => c.asked \in Parsed'
      /\ c.revision = NoContent
  BY <1>1 DEF CheckFits, Parsed, ReceiveAnswer
<1>7. page # NoContent
  BY <1>1, SyncAssumption
<1>8. CheckFits(s)'
  BY <1>1, <1>3, <1>4, <1>5, <1>6, <1>7 DEF CheckFits, Holding, ReceiveAnswer
<1>9. QED
  BY <1>1, <1>5, <1>8, OneCheckMoves DEF ReceiveAnswer, SyncTypeOK

\* The artifact of a changed page is stored before its revision.
LEMMA StoreStep ==
    ASSUME SyncInv, NEW s \in Syncers, StoreArtifact(s)
    PROVE  SyncInv'
<1> DEFINE c == sync[s]
           e == [sync[s] EXCEPT !.pc = "stored"]
<1>1. SyncTypeOK /\ c \in Checks /\ CheckFits(s) /\ c.pc = "answered" /\ c.status = "changed"
  BY DEF SyncInv, SyncTypeOK, StoreArtifact
<1>2. c.answer \in Pages /\ artifacts' = artifacts \cup {c.answer}
  BY <1>1 DEF CheckFits, Holding, StoreArtifact
<1>3. /\ e \in Checks /\ e.pc = "stored" /\ e.asked = c.asked /\ e.asOf = c.asOf
      /\ e.revision = c.revision /\ e.answer = c.answer /\ e.etag = c.etag
      /\ e.status = "changed"
  BY <1>1 DEF Checks
<1>4. sync'[s] = e /\ sync' \in [Syncers -> Checks] /\ \A t \in Syncers \ {s} : sync'[t] = sync[t]
  BY <1>1, <1>3 DEF SyncTypeOK, StoreArtifact
<1> HIDE DEF e
<1>5. CheckFits(s)'
  BY <1>1, <1>2, <1>3, <1>4 DEF CheckFits, Holding, Parsed, StoreArtifact
<1>6. artifacts' \in SUBSET Pages /\ artifacts \subseteq artifacts'
  BY <1>1, <1>2 DEF SyncTypeOK
<1>7. QED
  BY <1>1, <1>4, <1>5, <1>6, OneCheckMoves DEF StoreArtifact

\* The revision a check saves has its artifact.
LEMMA SaveStep ==
    ASSUME SyncInv, NEW s \in Syncers, SaveRevision(s)
    PROVE  SyncInv'
<1> DEFINE c == sync[s]
           e == [sync[s] EXCEPT !.pc = "revised", !.revision = c.answer]
<1>1. SyncTypeOK /\ c \in Checks /\ CheckFits(s) /\ c.pc = "stored"
  BY DEF SyncInv, SyncTypeOK, SaveRevision
<1>2. c.answer \in Maybe
  BY <1>1 DEF Checks
<1>3. /\ e \in Checks /\ e.pc = "revised" /\ e.asked = c.asked /\ e.asOf = c.asOf
      /\ e.revision = c.answer /\ e.answer = c.answer /\ e.etag = c.etag
      /\ e.status = c.status
  BY <1>1, <1>2 DEF Checks
<1>4. sync'[s] = e /\ sync' \in [Syncers -> Checks] /\ \A t \in Syncers \ {s} : sync'[t] = sync[t]
  BY <1>1, <1>3 DEF SyncTypeOK, SaveRevision
<1> HIDE DEF e
<1>5. CheckFits(s)'
  BY <1>1, <1>3, <1>4 DEF CheckFits, Holding, Parsed, SaveRevision
<1>6. QED
  BY <1>1, <1>4, <1>5, OneCheckMoves DEF SaveRevision, SyncTypeOK

\* The answer of a 304 is the text of a parsed page, so it is a revision; the
\* latest revision is another one only when it was retrieved later.
LEMMA LatestConfirms ==
    ASSUME SyncInv, NEW s \in Syncers,
           sync[s].pc = "answered", sync[s].status = "not_modified",
           NEW latest \in Maybe, latest = LatestRevision(sync[s]), latest # NoContent
    PROVE  NamesConfirmedPage([status |-> "not_modified", revision |-> latest,
                               seen |-> sync[s].answer])
<1>1. source.revisions \in Seq(Pages) /\ sync[s].revision = NoContent /\ sync[s].answer \in Parsed
  BY DEF SyncInv, SyncTypeOK, SourceRows, CheckFits
<1>2. source.revisions # <<>> /\ latest = source.revisions[Len(source.revisions)]
  BY <1>1 DEF LatestRevision, Last
<1>3. Len(source.revisions) \in DOMAIN source.revisions
  BY <1>1, <1>2
<1>4. PICK i \in DOMAIN source.revisions : source.revisions[i] = sync[s].answer
  BY <1>1 DEF SyncInv, Range
<1>5. latest # sync[s].answer => i < Len(source.revisions)
  BY <1>1, <1>2, <1>4
<1>6. QED
  BY <1>2, <1>3, <1>4, <1>5 DEF NamesConfirmedPage

\* A completion without a new revision has no candidate.
LEMMA NoNewCandidate ==
    ASSUME NEW c \in Checks, NEW outcome \in {"unchanged", "review_required"},
           NEW names \in Maybe, NEW validator \in Maybe
    PROVE  Completed(c, outcome, names, validator)
             = [Completed(c, outcome, names, validator) EXCEPT !.candidate = NoContent]
<1> DEFINE d == Completed(c, outcome, names, validator)
<1>1. d \in Checks /\ d.candidate = NoContent
  BY CompletedTyped DEF Completed, IdleSync
<1> HIDE DEF d
<1>2. d = [d EXCEPT !.candidate = NoContent]
  BY <1>1 DEF Checks
<1>3. QED
  BY <1>2 DEF d

\* A page that did not change confirms the revision whose validator was sent.
LEMMA NotModifiedStep ==
    ASSUME SyncInv, NEW s \in Syncers, HandleNotModified(s)
    PROVE  SyncInv'
<1> DEFINE c == sync[s]
           latest == LatestRevision(c)
<1>1. /\ SyncTypeOK /\ c \in Checks /\ CheckFits(s)
      /\ c.pc = "answered" /\ c.status = "not_modified"
      /\ sync' = [sync EXCEPT ![s] = AnswerNotModified(c)]
      /\ UNCHANGED <<page, edits, accepted, artifacts, source, discarded, lastRun, loaded>>
  BY DEF SyncInv, SyncTypeOK, HandleNotModified
<1>2. c.etag \in Parsed /\ c.etag \in Maybe /\ c.revision = NoContent /\ NoContent \in Maybe
  BY <1>1 DEF CheckFits, Checks, Maybe
<1>3. CASE latest = NoContent
  <2>1. sync' = [sync EXCEPT ![s] = FailedCheck(@, NoContent)]
    BY <1>1, <1>3 DEF AnswerNotModified
  <2>2. QED
    BY <1>1, <1>2, <2>1, FailureFits
<1>4. CASE latest # NoContent /\ latest \in source.candidates
  <2>1. latest \in Maybe
    BY <1>1, <1>4 DEF SyncTypeOK, SourceRows, Maybe
  <2>2. NamesConfirmedPage([status |-> "not_modified", revision |-> latest,
                            seen |-> c.answer])
    BY <1>1, <1>4, <2>1, LatestConfirms
  <2>3. AnswerNotModified(c) = [Completed(c, "unchanged", latest, c.etag)
                                  EXCEPT !.candidate = NoContent]
    BY <1>1, <1>2, <1>4, <2>1, NoNewCandidate DEF AnswerNotModified
  <2>4. Holding(c)
    BY <1>1 DEF Holding
  <2> HIDE DEF latest
  <2>5. QED
    BY <1>1, <1>2, <2>1, <2>2, <2>3, <2>4, CompletionFits
<1>5. CASE latest # NoContent /\ latest \notin source.candidates
  <2> DEFINE e == [c EXCEPT !.pc = "fetch", !.asked = NoContent, !.tries = 0,
                            !.answer = NoContent, !.etag = NoContent, !.status = "none"]
  <2>1. 0 \in 0 .. RetryAttempts - 1 /\ "none" \in Statuses
    BY SyncAssumption DEF Statuses
  <2>2. /\ e \in Checks /\ e.pc = "fetch" /\ e.asked = NoContent /\ e.asOf = c.asOf
        /\ e.revision = c.revision
    BY <1>1, <1>2, <2>1 DEF Checks
  <2>3. /\ sync'[s] = e /\ sync' \in [Syncers -> Checks]
        /\ \A t \in Syncers \ {s} : sync'[t] = sync[t]
    BY <1>1, <1>5, <2>2 DEF SyncTypeOK, AnswerNotModified
  <2> HIDE DEF e
  <2>4. CheckFits(s)'
    BY <1>1, <1>2, <2>2, <2>3 DEF CheckFits, Holding
  <2>5. QED
    BY <1>1, <2>3, <2>4, OneCheckMoves DEF SyncTypeOK
<1>6. QED
  BY <1>3, <1>4, <1>5

\* A parsed page makes its revision the candidate and its validator the new one.
LEMMA ParseStep ==
    ASSUME SyncInv, NEW s \in Syncers, ParsePage(s)
    PROVE  SyncInv'
<1> DEFINE c == sync[s]
<1>1. /\ SyncTypeOK /\ c \in Checks /\ CheckFits(s) /\ c.pc = "revised"
      /\ sync' = [sync EXCEPT ![s] = ParseOutcome(c)]
      /\ UNCHANGED <<page, edits, accepted, artifacts, source, discarded, lastRun, loaded>>
  BY DEF SyncInv, SyncTypeOK, ParsePage
<1>2. /\ c.answer \in Maybe /\ c.etag \in Maybe /\ NoContent \in Maybe /\ Holding(c)
      /\ c.revision = c.answer /\ c.status # "not_modified"
      /\ c.etag # NoContent => c.etag = c.answer \/ c.etag \in Parsed
  BY <1>1 DEF CheckFits, Checks, Maybe, Holding
<1>3. CASE AlreadyParsed(c)
  <2>1. ParseOutcome(c) = [Completed(c, "unchanged", c.answer, c.etag)
                             EXCEPT !.candidate = NoContent]
    BY <1>1, <1>2, <1>3, NoNewCandidate DEF ParseOutcome
  <2>2. c.etag # NoContent => c.etag \in Parsed
    BY <1>2, <1>3 DEF AlreadyParsed, Parsed
  <2>3. QED
    BY <1>1, <1>2, <2>1, <2>2, CompletionFits
<1>4. CASE ~AlreadyParsed(c) /\ c.answer \in accepted
  <2>1. ParseOutcome(c) = [Completed(c, "review_required", c.answer, c.etag)
                             EXCEPT !.candidate = c.answer]
    BY <1>4 DEF ParseOutcome
  <2>2. c.etag # NoContent => c.etag \in Parsed \cup {c.answer}
    BY <1>2
  <2>3. sync' = [sync EXCEPT ![s] = [Completed(sync[s], "review_required", c.answer, c.etag)
                                       EXCEPT !.candidate = c.answer]]
    BY <1>1, <2>1
  <2>4. QED
    BY <1>1, <1>2, <2>2, <2>3, CompletionFits
<1>5. CASE ~AlreadyParsed(c) /\ c.answer \notin accepted
  <2>1. sync' = [sync EXCEPT ![s] = FailedCheck(@, c.answer)]
    BY <1>1, <1>5 DEF ParseOutcome
  <2>2. QED
    BY <1>1, <1>2, <2>1, FailureFits
<1>6. QED
  BY <1>3, <1>4, <1>5

\* An aborted check leaves the committed rows alone.
LEMMA AbortStep ==
    ASSUME SyncInv, NEW s \in Syncers, AbortCheck(s)
    PROVE  SyncInv'
<1>1. IdleSync \in Checks
  BY SyncAssumption DEF IdleSync, Checks, NoRun, RunRows, Statuses, Maybe
<1>2. /\ sync'[s] = IdleSync /\ sync' \in [Syncers -> Checks]
      /\ \A t \in Syncers \ {s} : sync'[t] = sync[t]
  BY <1>1 DEF SyncInv, SyncTypeOK, AbortCheck
<1>3. edits' = edits /\ edits \in Nat
  BY DEF SyncInv, SyncTypeOK, AbortCheck
<1>4. CheckFits(s)'
  BY <1>2, <1>3 DEF CheckFits, Holding, IdleSync
<1>5. sync'[s].pc = "idle"
  BY <1>2 DEF IdleSync
<1>6. QED
  BY <1>2, <1>4, <1>5, OneCheckMoves DEF AbortCheck, SyncInv, SyncTypeOK

\* Nothing is asked of a syncer without a check.
LEMMA IdleFits ==
    ASSUME edits' \in Nat, NEW s \in Syncers, sync'[s] = IdleSync
    PROVE  CheckFits(s)'
BY DEF CheckFits, Holding, IdleSync

\* The revisions a commit leaves: the committed ones at their places, and the
\* check's own.
LEMMA RevisionsGrow ==
    ASSUME NEW r \in Seq(Pages), NEW x \in Maybe, NEW q,
           x \notin Range(r) \cup {NoContent} => q = Append(r, x),
           x \in Range(r) \cup {NoContent} => q = r
    PROVE  /\ q \in Seq(Pages)
           /\ Range(r) \subseteq Range(q) /\ Range(q) \subseteq Range(r) \cup ({x} \ {NoContent})
           /\ x # NoContent => x \in Range(q)
           /\ \A i \in DOMAIN r : i \in DOMAIN q /\ q[i] = r[i]
<1>1. CASE x \in Range(r) \cup {NoContent}
  BY <1>1
<1>2. CASE x \notin Range(r) \cup {NoContent}
  <2>1. q = Append(r, x) /\ x \in Pages
    BY <1>2 DEF Maybe
  <2>2. q \in Seq(Pages) /\ Len(q) = Len(r) + 1
    BY <2>1, AppendProperties
  <2>3. q[Len(r) + 1] = x /\ \A i \in 1 .. Len(r) : q[i] = r[i]
    BY <2>1, AppendProperties
  <2>4. DOMAIN r = 1 .. Len(r) /\ DOMAIN q = 1 .. Len(r) + 1 /\ Len(r) \in Nat
    BY <2>2
  <2>5. \A i \in DOMAIN r : i \in DOMAIN q /\ q[i] = r[i]
    BY <2>3, <2>4
  <2>6. Len(r) + 1 \in DOMAIN q /\ \A i \in DOMAIN q : i = Len(r) + 1 \/ i \in DOMAIN r
    BY <2>4
  <2>7. Range(r) \subseteq Range(q) /\ x \in Range(q) /\ Range(q) \subseteq Range(r) \cup {x}
    BY <2>3, <2>5, <2>6 DEF Range
  <2>8. QED
    BY <1>2, <2>2, <2>5, <2>7
<1>3. QED
  BY <1>1, <1>2

\* The commit of a check, the one step that writes the source and the last run.
LEMMA CommitStep ==
    ASSUME SyncInv, NEW s \in Syncers, CommitCheck(s)
    PROVE  SyncInv'
<1> DEFINE c == sync[s]
           r == source.revisions
           q == source'.revisions
           tag == IF c.validator \in loaded[s] THEN source.etag ELSE c.validator
<1>1. /\ SyncTypeOK /\ c \in Checks /\ CheckFits(s) /\ c.pc = "complete" /\ OneCheck
      /\ r \in Seq(Pages) /\ source.candidates \subseteq Pages /\ edits \in Nat
      /\ UNCHANGED <<page, edits, accepted, artifacts, discarded>>
      /\ lastRun' = c.run /\ sync' = [sync EXCEPT ![s] = IdleSync]
      /\ loaded' = [loaded EXCEPT ![s] = {}]
  BY DEF SyncInv, SyncTypeOK, SourceRows, CommitCheck
<1>2. /\ c.revision \in Maybe /\ c.candidate \in Maybe /\ c.validator \in Maybe
      /\ c.run \in RunRows /\ tag \in Maybe
  BY <1>1 DEF Checks, SyncTypeOK, SourceRows
<1>3. /\ q = IF c.revision \notin Range(r) \cup {NoContent} THEN Append(r, c.revision) ELSE r
      /\ source'.candidates = source.candidates \cup ({c.candidate} \ {NoContent})
      /\ source'.etag = tag
  <2>1. source' = [revisions |-> IF LatestRevision(c) = c.revision /\
                                    c.revision \notin Range(r) \cup {NoContent}
                                 THEN Append(r, c.revision) ELSE r,
                   candidates |-> source.candidates \cup ({c.candidate} \ {NoContent}),
                   etag |-> tag, due |-> FALSE]
    BY DEF CommitCheck
  <2>2. c.revision \notin Range(r) \cup {NoContent} => LatestRevision(c) = c.revision
    BY DEF LatestRevision
  <2>3. QED
    BY <2>1, <2>2
<1>4. /\ q \in Seq(Pages)
      /\ Range(r) \subseteq Range(q)
      /\ Range(q) \subseteq Range(r) \cup ({c.revision} \ {NoContent})
      /\ c.revision # NoContent => c.revision \in Range(q)
      /\ \A i \in DOMAIN r : i \in DOMAIN q /\ q[i] = r[i]
  <2> DEFINE x == c.revision
  <2>1. /\ r \in Seq(Pages) /\ x \in Maybe
        /\ x \notin Range(r) \cup {NoContent} => q = Append(r, x)
        /\ x \in Range(r) \cup {NoContent} => q = r
    BY <1>1, <1>2, <1>3
  <2> HIDE DEF q, r, x
  <2>2. /\ q \in Seq(Pages)
        /\ Range(r) \subseteq Range(q) /\ Range(q) \subseteq Range(r) \cup ({x} \ {NoContent})
        /\ x # NoContent => x \in Range(q)
        /\ \A i \in DOMAIN r : i \in DOMAIN q /\ q[i] = r[i]
    BY <2>1, RevisionsGrow
  <2>3. QED
    BY <2>2 DEF x
<1>5. /\ source'.candidates \subseteq Pages
      /\ source' = [revisions |-> q, candidates |-> source'.candidates,
                    etag |-> tag, due |-> FALSE]
  BY <1>1, <1>2, <1>3 DEF CommitCheck, Maybe
<1>6. source' \in SourceRows
  <2> DEFINE k == source'.candidates
  <2> HIDE DEF q, k, tag
  <2>1. [revisions |-> q, candidates |-> k, etag |-> tag, due |-> FALSE] \in SourceRows
    BY <1>2, <1>4, <1>5 DEF SourceRows, k
  <2>2. QED
    BY <1>5, <2>1 DEF k
<1>7. /\ \A t \in Syncers : sync'[t] = IdleSync
      /\ sync' \in [Syncers -> Checks]
  <2>1. IdleSync \in Checks
    BY SyncAssumption DEF IdleSync, Checks, NoRun, RunRows, Statuses, Maybe
  <2>2. \A t \in Syncers \ {s} : sync[t].pc = "idle"
    BY <1>1 DEF OneCheck
  <2>3. \A t \in Syncers \ {s} : sync[t] = IdleSync
    BY <2>2 DEF SyncInv, CheckFits
  <2>4. QED
    BY <1>1, <2>1, <2>3 DEF SyncTypeOK
<1>8. SyncTypeOK'
  BY <1>1, <1>2, <1>6, <1>7 DEF SyncTypeOK
<1>9. OneCheck'
  BY <1>7 DEF OneCheck, IdleSync
<1>10. /\ c.candidate # NoContent => c.candidate = c.revision
       /\ c.validator # NoContent => c.validator \in Parsed \cup {c.candidate}
       /\ c.revision # NoContent => c.revision \in artifacts
       /\ c.run.asOf <= edits
       /\ NamesConfirmedPage(c.run)
  BY <1>1 DEF CheckFits
<1>11. RevisionsHaveArtifacts'
  BY <1>1, <1>4, <1>10 DEF SyncInv, RevisionsHaveArtifacts
<1>12. (Parsed \subseteq Range(source.revisions))'
  BY <1>1, <1>3, <1>4, <1>10 DEF SyncInv, Parsed
<1>13. ValidatorOfParsedPage'
  BY <1>1, <1>3, <1>10 DEF SyncInv, ValidatorOfParsedPage, Parsed
<1>14. NotModifiedNamesConfirmedPage'
  BY <1>1, <1>4, <1>10 DEF NotModifiedNamesConfirmedPage, NamesConfirmedPage
<1>15. (\A t \in Syncers : CheckFits(t))'
  BY <1>1, <1>7, IdleFits
<1>16. LoadedOfParsedPage'
  BY <1>1, <1>3 DEF SyncInv, SyncTypeOK, LoadedOfParsedPage, Parsed
<1>17. QED
  BY <1>1, <1>8, <1>9, <1>10, <1>16, <1>11, <1>12, <1>13, <1>14, <1>15 DEF SyncInv

\* What happens around the checks: the page and the parser change, a check
\* falls due, a home deletes a candidate.
LEMMA SurroundingsStep ==
    ASSUME SyncInv,
           \/ CheckFallsDue \/ EditPage \/ UpgradeParser
           \/ \E c \in Pages : DiscardCandidate(c)
           \/ UNCHANGED syncVars
    PROVE  SyncInv'
<1>1. SyncTypeOK /\ edits \in Nat /\ source \in SourceRows
  BY DEF SyncInv, SyncTypeOK
<1>2. CASE CheckFallsDue
  <2>1. /\ source'.revisions = source.revisions /\ source'.candidates = source.candidates
        /\ source'.etag = source.etag
    BY <1>1, <1>2 DEF CheckFallsDue, SourceRows
  <2>2. source' \in SourceRows
    BY <1>1, <1>2, Zenon DEF CheckFallsDue, SourceRows
  <2>3. /\ UNCHANGED <<page, edits, accepted, artifacts, discarded, lastRun, sync, loaded>>
    BY <1>2 DEF CheckFallsDue
  <2>4. ASSUME NEW s \in Syncers PROVE CheckFits(s)'
    BY <2>1, <2>3, <2>4 DEF SyncInv, CheckFits, Holding, NamesConfirmedPage, Parsed
  <2>5. QED
    BY <2>1, <2>2, <2>3, <2>4
       DEF SyncInv, SyncTypeOK, LoadedOfParsedPage, OneCheck, RevisionsHaveArtifacts, Parsed,
           ValidatorOfParsedPage, NotModifiedNamesConfirmedPage
<1>3. CASE EditPage
  <2>1. /\ UNCHANGED <<accepted, artifacts, source, discarded, lastRun, sync, loaded>>
        /\ edits' = edits + 1 /\ edits' \in 0 .. MaxEdits /\ page' \in Pages
    BY <1>1, <1>3, SyncAssumption DEF EditPage, SyncTypeOK
  <2>2. lastRun.asOf \in Nat /\ \A s \in Syncers : sync[s].asOf \in Nat /\ sync[s].run.asOf \in Nat
    BY <1>1 DEF SyncTypeOK, Checks, RunRows
  <2>3. ASSUME NEW s \in Syncers PROVE CheckFits(s)'
    BY <1>1, <2>1, <2>2, <2>3 DEF SyncInv, CheckFits, Holding, NamesConfirmedPage, Parsed
  <2>4. QED
    BY <1>1, <2>1, <2>2, <2>3
       DEF SyncInv, SyncTypeOK, LoadedOfParsedPage, OneCheck, RevisionsHaveArtifacts, Parsed,
           ValidatorOfParsedPage, NotModifiedNamesConfirmedPage
<1>4. CASE UpgradeParser
  <2>1. /\ UNCHANGED <<page, edits, artifacts, source, discarded, lastRun>>
        /\ accepted' = Pages /\ \A s \in Syncers : sync'[s] = IdleSync
        /\ sync' = [s \in Syncers |-> IdleSync]
        /\ loaded' = [s \in Syncers |-> {}]
    BY <1>4 DEF UpgradeParser
  <2>2. IdleSync \in Checks
    BY SyncAssumption DEF IdleSync, Checks, NoRun, RunRows, Statuses, Maybe
  <2>3. SyncTypeOK'
    BY <1>1, <2>1, <2>2 DEF SyncTypeOK
  <2>4. OneCheck'
    BY <2>1 DEF OneCheck, IdleSync
  <2>5. (\A s \in Syncers : CheckFits(s))'
    BY <1>1, <2>1, IdleFits
  <2>6. QED
    BY <2>1, <2>3, <2>4, <2>5
       DEF SyncInv, LoadedOfParsedPage, RevisionsHaveArtifacts, Parsed, ValidatorOfParsedPage,
           NotModifiedNamesConfirmedPage
<1>5. CASE \E c \in Pages : DiscardCandidate(c)
  <2>1. PICK c \in Pages : DiscardCandidate(c)
    BY <1>5
  <2>2. /\ c \in source.candidates /\ source'.candidates = source.candidates \ {c}
        /\ source'.revisions = source.revisions /\ source'.etag = source.etag
        /\ source' \in SourceRows
        /\ discarded' = discarded \cup {c}
        /\ UNCHANGED <<page, edits, accepted, artifacts, lastRun, sync, loaded>>
    BY <1>1, <2>1 DEF DiscardCandidate, SourceRows
  <2>3. Parsed' = Parsed
    BY <2>2 DEF Parsed
  <2>4. ASSUME NEW s \in Syncers PROVE CheckFits(s)'
    BY <2>2, <2>3, <2>4 DEF SyncInv, CheckFits, Holding, NamesConfirmedPage
  <2>5. SyncTypeOK'
    BY <1>1, <2>2 DEF SyncTypeOK
  <2>6. ValidatorOfParsedPage'
    BY <2>2, <2>3 DEF SyncInv, ValidatorOfParsedPage, Parsed
  <2>7. QED
    BY <2>2, <2>3, <2>4, <2>5, <2>6
       DEF SyncInv, LoadedOfParsedPage, OneCheck, RevisionsHaveArtifacts,
           NotModifiedNamesConfirmedPage
<1>6. CASE UNCHANGED syncVars
  BY <1>6 DEF syncVars, SyncInv, SyncTypeOK, LoadedOfParsedPage, OneCheck,
              RevisionsHaveArtifacts, Parsed, ValidatorOfParsedPage,
              NotModifiedNamesConfirmedPage, CheckFits, Holding, NamesConfirmedPage
<1>7. QED
  BY <1>2, <1>3, <1>4, <1>5, <1>6

\* Every step of the synchronisation keeps its invariant.
LEMMA SyncStep == SyncInv /\ [SyncNext]_syncVars => SyncInv'
<1> SUFFICES ASSUME SyncInv, [SyncNext]_syncVars PROVE SyncInv'
  OBVIOUS
<1>1. ASSUME NEW s \in Syncers, GiveUpFetch(s) \/ FailStorage(s) \/ ReachDeadline(s)
      PROVE  SyncInv'
  <2>1. /\ sync' = [sync EXCEPT ![s] = FailedCheck(@, NoContent)] /\ sync[s].pc # "idle"
        /\ UNCHANGED <<page, edits, accepted, artifacts, source, discarded, lastRun, loaded>>
    BY <1>1 DEF GiveUpFetch, FailStorage, ReachDeadline
  <2>2. NoContent \in Maybe
    BY DEF Maybe
  <2>3. QED
    BY <2>1, <2>2, FailureFits
<1>2. ASSUME NEW s \in Syncers, CheckStep(s)
      PROVE  SyncInv'
  BY <1>1, <1>2, LoadStep, BeginStep, RetryStep, AnswerStep, NotModifiedStep, StoreStep,
     SaveStep, ParseStep, CommitStep, AbortStep DEF CheckStep
<1>3. QED
  BY <1>2, SurroundingsStep DEF SyncNext

\* The empty tables satisfy it.
LEMMA SyncInitInv == SyncInit => SyncInv
<1> SUFFICES ASSUME SyncInit PROVE SyncInv
  OBVIOUS
<1>1. IdleSync \in Checks /\ NoRun \in RunRows
  BY SyncAssumption DEF IdleSync, Checks, NoRun, RunRows, Statuses, Maybe
<1>2. source \in SourceRows
  BY DEF SyncInit, SourceRows, Maybe
<1>3. SyncTypeOK
  BY <1>1, <1>2, SyncAssumption DEF SyncInit, SyncTypeOK
<1>4. \A s \in Syncers : CheckFits(s)
  BY SyncAssumption DEF SyncInit, CheckFits, Holding, IdleSync
<1>5. OneCheck
  BY DEF SyncInit, OneCheck, IdleSync
<1>6. QED
  BY <1>3, <1>4, <1>5
     DEF SyncInit, SyncInv, LoadedOfParsedPage, RevisionsHaveArtifacts, Parsed,
         ValidatorOfParsedPage, NotModifiedNamesConfirmedPage, Range, NoRun

\* However a check ended, every revision has its file, the stored validator is of
\* a parsed page, and a 304 names the revision the utility confirmed or a later one.
THEOREM RevisionsCorrect == SyncSpec => []RevisionsSound
<1>1. SyncInv => RevisionsSound
  BY DEF SyncInv, RevisionsSound
<1>2. QED
  BY <1>1, SyncInitInv, SyncStep, PTL DEF SyncSpec

\* The status of a source never goes back to an older look at the page, because
\* the lease is held from the fetch to the commit.
THEOREM ChecksInOrder == SyncSpec => ChecksCommitInFetchOrder
<1>1. ASSUME SyncInv, [SyncNext]_syncVars
      PROVE  [lastRun'.seen # NoContent => lastRun'.asOf >= lastRun.asOf]_syncVars
  <2>1. lastRun.asOf \in Nat
    BY <1>1 DEF SyncInv, SyncTypeOK, RunRows
  <2>2. ASSUME NEW s \in Syncers, CommitCheck(s)
        PROVE  lastRun'.seen # NoContent => lastRun'.asOf >= lastRun.asOf
    <3>1. lastRun' = sync[s].run /\ CheckFits(s) /\ sync[s].pc = "complete"
      BY <1>1, <2>2 DEF CommitCheck, SyncInv
    <3>2. sync[s].run.asOf \in Nat
      BY <1>1 DEF SyncInv, SyncTypeOK, Checks, RunRows
    <3>3. QED
      BY <2>1, <3>1, <3>2 DEF CheckFits
  <2>3. lastRun' = lastRun \/ \E s \in Syncers : CommitCheck(s)
    BY <1>1 DEF SyncNext, CheckStep, syncVars, LoadSource, LeaseRefused, BeginCheck, RetryFetch,
                GiveUpFetch, ReceiveAnswer, HandleNotModified, StoreArtifact, FailStorage,
                SaveRevision, ParsePage, ReachDeadline, AbortCheck, CheckFallsDue, EditPage,
                UpgradeParser, DiscardCandidate
  <2>4. QED
    BY <2>1, <2>2, <2>3
<1>2. QED
  BY <1>1, SyncInitInv, SyncStep, PTL DEF SyncSpec, ChecksCommitInFetchOrder

================================================================================
