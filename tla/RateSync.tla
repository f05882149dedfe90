------------------------------ MODULE RateSync ------------------------------
(***************************************************************************)
(* Synchronisation of one official rate page                                *)
(* (backend/app/services/rate_sync.py, fetched by rate_sources.py).  The    *)
(* worker's scheduled check and an administrator's "check now" take the     *)
(* source's lease, fetch the page with the stored validator, store the      *)
(* artifact file, insert the revision and, when the parser accepts the      *)
(* page, a candidate for review.  All rows of a check are one transaction;  *)
(* the artifact file is durable before it.  The page changes, fetches fail, *)
(* the operation deadline strikes at any await, processes die before they   *)
(* commit, and a home may delete a rejected candidate meanwhile.            *)
(*                                                                          *)
(* A content names a page text, its digest and its entity tag at once.      *)
(***************************************************************************)
EXTENDS Integers, Sequences, SequencesExt

CONSTANTS
    Pages,       \* page texts
    Readable,       \* texts the first parser release accepts
    NoContent,      \* no validator, no revision, no candidate
    RetryAttempts,  \* settings.rate_source_retry_attempts
    MaxEdits        \* bound on edits of the page

Syncers == {"worker", "user"}

ASSUME SyncAssumption ==
    /\ Readable \subseteq Pages /\ NoContent \notin Pages
    /\ RetryAttempts \in Nat \ {0} /\ MaxEdits \in Nat

VARIABLES
    page,       \* what the utility serves now
    edits,      \* how often it has changed
    accepted,   \* texts the installed parser accepts
    artifacts,  \* artifact files on disk
    source,     \* committed rows of the source
    discarded,  \* contents whose candidate a home has deleted
    lastRun,    \* latest completed run row of the source
    loaded,     \* the validator in the source row a process has read, if any
    sync        \* the check each process has in progress

syncVars == <<page, edits, accepted, artifacts, source, discarded, lastRun, loaded,
              sync>>

Maybe == Pages \cup {NoContent}

\* revisions in the order of retrieval, candidates awaiting review by the
\* revision they belong to, the validator to send, and whether a check is due.
SourceRows == [revisions : Seq(Pages), candidates : SUBSET Pages,
               etag : Maybe, due : BOOLEAN]

\* What the server said of the page.
Statuses == {"none", "changed", "not_modified"}

\* A run row: its outcome, the revision it names, and (history) the text the
\* page had when it was fetched and the number of its edits by then.
RunRows == [state : {"none", "failed", "unchanged", "review_required"},
            status : Statuses, revision : Maybe, seen : Maybe,
            asOf : 0 .. MaxEdits]
NoRun == [state |-> "none", status |-> "none", revision |-> NoContent,
          seen |-> NoContent, asOf |-> 0]

\* A check in progress: where it stands, the answer it holds, and the rows it
\* has written and not committed.
IdleSync == [pc |-> "idle", asked |-> NoContent, tries |-> 0,
         answer |-> NoContent, etag |-> NoContent, status |-> "none",
         asOf |-> 0, revision |-> NoContent, candidate |-> NoContent,
         validator |-> NoContent, run |-> NoRun]
Checks == [pc : {"idle", "fetch", "answered", "stored", "revised", "complete"},
           asked : Maybe, tries : 0 .. RetryAttempts - 1,
           answer : Maybe, etag : Maybe, status : Statuses,
           asOf : 0 .. MaxEdits, revision : Maybe, candidate : Maybe,
           validator : Maybe, run : RunRows]

------------------------------------------------------------------------------
(* The lease and the rows a check reads *)

\* Mutant: a check does not take the lease.
LeaseNotTaken(s) == s \in Syncers

\* The local set and the advisory lock, which is held until the commit.
LeaseFree(s) == \A t \in Syncers \ {s} : sync[t].pc = "idle"

\* Mutant: the first revision stands for the latest.
OldestRevision(c) ==
    IF source.revisions = <<>> THEN c.revision ELSE Head(source.revisions)

\* A check sees its own revision too.
LatestRevision(c) ==
    IF c.revision # NoContent /\ c.revision \notin Range(source.revisions)
    THEN c.revision
    ELSE IF source.revisions = <<>> THEN NoContent ELSE Last(source.revisions)

\* _complete_run: the outcome, the revision the run names and the validator the
\* source keeps.  The rows already flushed stay in the transaction.
Completed(c, outcome, names, validator) ==
    [IdleSync EXCEPT !.pc = "complete", !.validator = validator, !.revision = c.revision,
                 !.run = [state |-> outcome, status |-> c.status,
                          revision |-> names, seen |-> c.answer, asOf |-> c.asOf]]
FailedCheck(c, names) ==
    [IdleSync EXCEPT !.pc = "complete", !.validator = source.etag, !.revision = c.revision,
                 !.run = [NoRun EXCEPT !.state = "failed", !.revision = names]]

------------------------------------------------------------------------------
(* Steps of a check *)

\* The worker reads the sources that are due, an administrator one at any time.
LoadSource(s) ==
    /\ sync[s].pc = "idle" /\ loaded[s] = {}
    /\ s = "worker" => source.due
    /\ loaded' = [loaded EXCEPT ![s] = {source.etag}]
    /\ UNCHANGED <<page, edits, accepted, artifacts, source, discarded, lastRun, sync>>

\* The check takes the lease later.  Its SELECT ... FOR UPDATE does not refresh
\* the row in the session: it asks with the validator that was read.
BeginCheck(s) ==
    /\ sync[s].pc = "idle" /\ LeaseFree(s)
    /\ \E tag \in loaded[s] :
          sync' = [sync EXCEPT ![s] = [IdleSync EXCEPT !.pc = "fetch", !.asked = tag]]
    /\ UNCHANGED <<page, edits, accepted, artifacts, source, discarded, lastRun, loaded>>

\* RateSyncBusy.
LeaseRefused(s) ==
    /\ sync[s].pc = "idle" /\ loaded[s] # {} /\ ~LeaseFree(s)
    /\ loaded' = [loaded EXCEPT ![s] = {}]
    /\ UNCHANGED <<page, edits, accepted, artifacts, source, discarded, lastRun, sync>>

\* A transient failure is tried again while attempts are left.
RetryFetch(s) ==
    /\ sync[s].pc = "fetch" /\ sync[s].tries + 1 < RetryAttempts
    /\ sync' = [sync EXCEPT ![s].tries = @ + 1]
    /\ UNCHANGED <<page, edits, accepted, artifacts, source, discarded, lastRun, loaded>>

\* A permanent failure, or the last transient one.
GiveUpFetch(s) ==
    /\ sync[s].pc = "fetch"
    /\ sync' = [sync EXCEPT ![s] = FailedCheck(@, NoContent)]
    /\ UNCHANGED <<page, edits, accepted, artifacts, source, discarded, lastRun, loaded>>

\* The server answers 304 exactly when the validator it was sent is the one
\* of the page; a 200 without an ETag header keeps the validator that was sent.
ReceiveAnswer(s) ==
    /\ sync[s].pc = "fetch"
    /\ \E tag \in {page, sync[s].asked} :
          sync' = [sync EXCEPT ![s] = [@ EXCEPT !.pc = "answered", !.asOf = edits,
                     !.answer = page,
                     !.status = IF sync[s].asked = page THEN "not_modified" ELSE "changed",
                     !.etag = IF sync[s].asked = page THEN page ELSE tag]]
    /\ UNCHANGED <<page, edits, accepted, artifacts, source, discarded, lastRun, loaded>>

\* 304: the latest revision is named when it has a candidate; otherwise the
\* page is fetched once more without a validator.
AnswerNotModified(c) ==
    LET latest == LatestRevision(c) IN
    IF latest = NoContent THEN FailedCheck(c, NoContent)
    ELSE IF latest \in source.candidates
         THEN Completed(c, "unchanged", latest, c.etag)
         ELSE [c EXCEPT !.pc = "fetch", !.asked = NoContent, !.tries = 0,
                        !.answer = NoContent, !.etag = NoContent,
                        !.status = "none"]
HandleNotModified(s) ==
    /\ sync[s].pc = "answered" /\ sync[s].status = "not_modified"
    /\ sync' = [sync EXCEPT ![s] = AnswerNotModified(@)]
    /\ UNCHANGED <<page, edits, accepted, artifacts, source, discarded, lastRun, loaded>>

\* 200: the artifact file is written and synced before any row.
StoreArtifact(s) ==
    /\ sync[s].pc = "answered" /\ sync[s].status = "changed"
    /\ artifacts' = artifacts \cup {sync[s].answer}
    /\ sync' = [sync EXCEPT ![s].pc = "stored"]
    /\ UNCHANGED <<page, edits, accepted, source, discarded, lastRun, loaded>>

FailStorage(s) ==
    /\ sync[s].pc = "answered" /\ sync[s].status = "changed"
    /\ sync' = [sync EXCEPT ![s] = FailedCheck(@, NoContent)]
    /\ UNCHANGED <<page, edits, accepted, artifacts, source, discarded, lastRun, loaded>>

\* The revision of this content is found or inserted.
SaveRevision(s) ==
    /\ sync[s].pc = "stored"
    /\ sync' = [sync EXCEPT ![s].pc = "revised", ![s].revision = sync[s].answer]
    /\ UNCHANGED <<page, edits, accepted, artifacts, source, discarded, lastRun, loaded>>

KnownRevision(c) == c.answer \in Range(source.revisions)
AlreadyParsed(c) == c.answer \in source.candidates

\* Mutant: a revision that was stored before is not parsed again.
OnlyNewRevisionsParsed(c) ==
    IF AlreadyParsed(c) THEN Completed(c, "unchanged", c.answer, c.etag)
    ELSE IF c.answer \in accepted /\ ~KnownRevision(c)
         THEN [Completed(c, "review_required", c.answer, c.etag)
                  EXCEPT !.candidate = c.answer]
         ELSE FailedCheck(c, c.answer)

\* A known revision counts as unchanged only with a candidate of its own; one
\* that was stored and never parsed is parsed now.  A refused page leaves the
\* validator alone.
ParseOutcome(c) ==
    IF AlreadyParsed(c) THEN Completed(c, "unchanged", c.answer, c.etag)
    ELSE IF c.answer \in accepted
         THEN [Completed(c, "review_required", c.answer, c.etag)
                  EXCEPT !.candidate = c.answer]
         ELSE FailedCheck(c, c.answer)
ParsePage(s) ==
    /\ sync[s].pc = "revised"
    /\ sync' = [sync EXCEPT ![s] = ParseOutcome(@)]
    /\ UNCHANGED <<page, edits, accepted, artifacts, source, discarded, lastRun, loaded>>

\* The operation deadline: rows flushed so far stay, the run fails.
ReachDeadline(s) ==
    /\ sync[s].pc \in {"fetch", "answered", "stored", "revised"}
    /\ sync' = [sync EXCEPT ![s] = FailedCheck(@, NoContent)]
    /\ UNCHANGED <<page, edits, accepted, artifacts, source, discarded, lastRun, loaded>>

\* A validator equal to the one in the row as read is no change of the session,
\* and what is committed by then stays.
CommitCheck(s) ==
    LET c == sync[s] IN
    /\ c.pc = "complete"
    /\ source' = [revisions |-> IF LatestRevision(c) = c.revision /\
                                   c.revision \notin Range(source.revisions) \cup {NoContent}
                                THEN Append(source.revisions, c.revision)
                                ELSE source.revisions,
                  candidates |-> source.candidates \cup ({c.candidate} \ {NoContent}),
                  etag |-> IF c.validator \in loaded[s] THEN source.etag ELSE c.validator,
                  due |-> FALSE]
    /\ lastRun' = c.run
    /\ sync' = [sync EXCEPT ![s] = IdleSync]
    /\ loaded' = [loaded EXCEPT ![s] = {}]
    /\ UNCHANGED <<page, edits, accepted, artifacts, discarded>>

\* The process dies, or the request or the worker's cycle is rolled back.
AbortCheck(s) ==
    /\ sync[s].pc # "idle"
    /\ sync' = [sync EXCEPT ![s] = IdleSync]
    /\ loaded' = [loaded EXCEPT ![s] = {}]
    /\ UNCHANGED <<page, edits, accepted, artifacts, source, discarded, lastRun>>

------------------------------------------------------------------------------
(* Surroundings *)

CheckFallsDue ==
    /\ ~source.due /\ source' = [source EXCEPT !.due = TRUE]
    /\ UNCHANGED <<page, edits, accepted, artifacts, discarded, lastRun, sync, loaded>>

EditPage ==
    /\ edits < MaxEdits /\ edits' = edits + 1
    /\ page' \in Pages \ {page}
    /\ UNCHANGED <<accepted, artifacts, source, discarded, lastRun, sync, loaded>>

\* A release with a better parser restarts both processes.
UpgradeParser ==
    /\ accepted # Pages /\ accepted' = Pages
    /\ sync' = [s \in Syncers |-> IdleSync]
    /\ loaded' = [s \in Syncers |-> {}]
    /\ UNCHANGED <<page, edits, artifacts, source, discarded, lastRun>>

\* delete_rate_candidate of a candidate every reviewing home has rejected.
DiscardCandidate(c) ==
    /\ c \in source.candidates
    /\ source' = [source EXCEPT !.candidates = @ \ {c}]
    /\ discarded' = discarded \cup {c}
    /\ UNCHANGED <<page, edits, accepted, artifacts, lastRun, sync, loaded>>

SyncInit ==
    /\ page \in Readable /\ edits = 0 /\ accepted = Readable
    /\ artifacts = {} /\ discarded = {}
    /\ source = [revisions |-> <<>>, candidates |-> {}, etag |-> NoContent, due |-> TRUE]
    /\ lastRun = NoRun
    /\ loaded = [s \in Syncers |-> {}]
    /\ sync = [s \in Syncers |-> IdleSync]

CheckStep(s) ==
    \/ LoadSource(s) \/ BeginCheck(s) \/ LeaseRefused(s)
    \/ RetryFetch(s) \/ GiveUpFetch(s) \/ ReceiveAnswer(s)
    \/ HandleNotModified(s) \/ StoreArtifact(s) \/ FailStorage(s)
    \/ SaveRevision(s) \/ ParsePage(s) \/ ReachDeadline(s)
    \/ CommitCheck(s) \/ AbortCheck(s)

SyncNext ==
    \/ \E s \in Syncers : CheckStep(s)
    \/ CheckFallsDue \/ EditPage \/ UpgradeParser
    \/ \E c \in Pages : DiscardCandidate(c)

CheckAdvances(s) ==
    \/ ReceiveAnswer(s) \/ HandleNotModified(s) \/ StoreArtifact(s)
    \/ SaveRevision(s) \/ ParsePage(s) \/ CommitCheck(s)
CheckFails(s) == GiveUpFetch(s) \/ FailStorage(s) \/ ReachDeadline(s) \/ AbortCheck(s)

\* The worker runs on, a source falls due again, a check advances or reaches its
\* deadline.  The network, the disk and the processes may fail any number of
\* times, but not for ever.
SyncFairness ==
    /\ WF_syncVars(CheckFallsDue)
    /\ WF_syncVars(LoadSource("worker")) /\ WF_syncVars(BeginCheck("worker"))
    /\ \A s \in Syncers : WF_syncVars(CheckAdvances(s))
    /\ <>[][\A s \in Syncers : ~CheckFails(s)]_syncVars

SyncSpec == SyncInit /\ [][SyncNext]_syncVars /\ SyncFairness

------------------------------------------------------------------------------
(* Properties *)

SyncTypeOK ==
    /\ page \in Pages /\ edits \in 0 .. MaxEdits
    /\ accepted \subseteq Pages /\ artifacts \subseteq Pages
    /\ source \in SourceRows /\ discarded \subseteq Pages
    /\ lastRun \in RunRows
    /\ loaded \in [Syncers -> SUBSET Maybe]
    /\ sync \in [Syncers -> Checks]

\* Whatever fails or dies between the file and the commit, a revision row names
\* an artifact file that exists (_write_immutable_artifact before any row).
RevisionsHaveArtifacts == Range(source.revisions) \subseteq artifacts

\* The validator sent to the utility is of a page that became a candidate: a
\* page that was never parsed cannot hide behind its own 304.
ValidatorOfParsedPage ==
    source.etag # NoContent => source.etag \in source.candidates \cup discarded

\* A 304 names the latest revision.  It is not the revision the utility
\* confirmed only if the utility went back to an older text.
NotModifiedNamesConfirmedPage ==
    lastRun.status = "not_modified" /\ lastRun.revision # lastRun.seen =>
        \E i, j \in DOMAIN source.revisions :
            /\ i < j
            /\ source.revisions[i] = lastRun.seen
            /\ source.revisions[j] = lastRun.revision

\* The status never goes back to an older look at the page: the lease is held
\* from the fetch to the commit, so checks commit in the order they fetched.
ChecksCommitInFetchOrder ==
    [][lastRun'.seen # NoContent => lastRun'.asOf >= lastRun.asOf]_syncVars

\* A page the parser accepts and the utility leaves alone comes up for review,
\* after parser upgrades and interrupted checks too.
PageReachesReview ==
    (page \in accepted) ~> (page \in source.candidates \cup discarded \/ page \notin accepted)

\* What a check leaves behind, however it ended: revisions with their files, a
\* validator of a parsed page, and a 304 that names the right revision.
RevisionsSound ==
    /\ SyncTypeOK
    /\ RevisionsHaveArtifacts
    /\ ValidatorOfParsedPage
    /\ NotModifiedNamesConfirmedPage
=============================================================================
