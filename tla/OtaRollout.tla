------------------------------- MODULE OtaRollout -------------------------------
(***************************************************************************)
(* Firmware deployments: batches of per-sensor jobs, the ota_install       *)
(* command of each job, immediate and staged rollouts.  The model covers   *)
(* the operator's deploy, retry, cancel, archive, restore, hold and delete *)
(* routes and the firmware download (routes/firmware.py), what a sensor    *)
(* request does to jobs (services/commands.py), confirmation, stage        *)
(* deadlines and retention (services/firmware_deployments.py) and the      *)
(* worker's passes over deployments (worker/app/jobs.py).                  *)
(*                                                                         *)
(* Every mutator locks command, release, batch, deployment in that order,  *)
(* so a transaction is one action on the rows `w'; a lock race the code    *)
(* answers with an error is a transaction that does not happen.  Sessions  *)
(* do not autoflush: where a query runs before the flush of an earlier     *)
(* assignment (ReconcileStale) the model reads the rows as they were.      *)
(*                                                                         *)
(* Time is not represented: any active job may be past the deadline of its *)
(* stage, and any waiting command past its expiry, when one is looked at.  *)
(***************************************************************************)
EXTENDS Integers, FiniteSets

CONSTANTS MaxBatch,    \* bound: deployment batches ever created
          MaxDevice,   \* sensors
          MaxRelease,  \* releases, numbered in the order of their versions
          Filable,     \* bound: the batches that may be archived and deleted
          Reports,     \* the results sensors report in this instance
          Builds       \* whether sensors report a release's own build identity

ASSUME RolloutAssumption ==
    /\ MaxBatch \in Nat \ {0} /\ MaxDevice \in Nat \ {0} /\ MaxRelease \in Nat \ {0}
    /\ Filable \subseteq 1..MaxBatch
    /\ Reports \subseteq {"running", "awaiting_reboot", "awaiting_heartbeat",
                         "succeeded", "failed", "rolled_back"}
    /\ Builds \subseteq BOOLEAN

Batches  == 1 .. MaxBatch
Devices  == 1 .. MaxDevice
Releases == 1 .. MaxRelease
Jobs     == Batches \X Devices
NoJob    == <<0, 0>>

WAITING_STATES      == {"staged", "queued"}
NONSTAGED_STATES    == {"queued", "downloading", "rebooting", "validating"}
ACTIVE_STATES       == {"staged"} \cup NONSTAGED_STATES
TERMINAL_JOB_STATES == {"succeeded", "failed", "rolled_back", "timed_out", "cancelled"}
JobStates           == {"none"} \cup ACTIVE_STATES \cup TERMINAL_JOB_STATES

\* accepted and running act alike.  "ended_by_server" is a command expired, timed
\* out with its job, or failed by the delivery loop itself (attempts exhausted,
\* envelope too large): a late result of the sensor is accepted and ignored.
InstallResults == {"running", "awaiting_reboot", "awaiting_heartbeat",
                   "succeeded", "failed", "rolled_back"}
ACTIVE_COMMAND == {"queued", "delivered", "running", "awaiting_reboot", "awaiting_heartbeat"}
InstallStates  == {"none", "cancelled", "ended_by_server"} \cup ACTIVE_COMMAND \cup InstallResults

BatchStates  == {"none", "in_progress", "succeeded", "partial", "cancelled", "failed"}

\* What a sensor reports: no release of this server, or the version of one,
\* with that release's own build identity or another.
Identities == [version : {0}, exact : {FALSE}] \cup [version : Releases, exact : Builds]
NoIdentity == [version |-> -1, exact |-> FALSE]

VARIABLES w,         \* the committed rows
          installs   \* jobs whose ota_install command reached the sensor

rolloutVars == <<w, installs>>

RolloutRows ==
    [job : [Jobs -> JobStates],
     command : [Jobs -> InstallStates],
     completed : SUBSET Jobs,                  \* completed_at is set
     batch : [Batches -> BatchStates],
     release : [Batches -> 0 .. MaxRelease],
     rollout : [Batches -> {"none", "immediate", "staged", "retry"}],
     file : [Batches -> {"live", "archived", "deleted"}],
     identity : [Devices -> Identities]]       \* what the sensor last reported

--------------------------------------------------------------------------------
(* Queries *)

Active(r, x)    == r.job[x] \in ACTIVE_STATES
NonStaged(r, x) == r.job[x] \in NONSTAGED_STATES
ReleaseOf(r, x) == r.release[x[1]]
JobsOf(r, b)    == {x \in Jobs : x[1] = b /\ r.job[x] # "none"}

\* Mutant: staged jobs count as well, as ACTIVE_FIRMWARE_DEPLOYMENT_STATES has them.
ReleaseBusy_Mutant(r, v) == \E x \in Jobs : Active(r, x) /\ ReleaseOf(r, x) = v

ReleaseBusy(r, v) == \E x \in Jobs : NonStaged(r, x) /\ ReleaseOf(r, x) = v

\* order_by(created_at, id): batches in order of creation and, within one, the
\* order of the request's device list (taken to be the order of the sensors).
Before(x, y) == x[1] < y[1] \/ (x[1] = y[1] /\ x[2] < y[2])

Staged(r, v) == {x \in Jobs : r.job[x] = "staged" /\ ReleaseOf(r, x) = v}
OldestStaged(r, v) ==
    CHOOSE x \in Staged(r, v) : \A y \in Staged(r, v) \ {x} : Before(x, y)

\* recalculate_firmware_batch: the state a batch has from the states of its jobs.
DerivedState(r, b) ==
    LET states == {r.job[x] : x \in JobsOf(r, b)}
    IN  IF states = {} THEN r.batch[b]
        ELSE IF states \cap ACTIVE_STATES # {} THEN "in_progress"
        ELSE IF states = {"succeeded"} THEN "succeeded"
        ELSE IF "succeeded" \in states THEN "partial"
        ELSE IF states = {"cancelled"} THEN "cancelled"
        ELSE "failed"

--------------------------------------------------------------------------------
(* Transitions of rows *)

\* A terminal state for every job of S: state and completed_at.
Terminate(r, S, state) ==
    [r EXCEPT !.job = [x \in Jobs |-> IF x \in S THEN state ELSE r.job[x]],
              !.completed = @ \cup S]

\* An active state for job x.
Enter(r, x, state) == [r EXCEPT !.job = [r.job EXCEPT ![x] = state]]

SetCommands(r, S, state) ==
    [r EXCEPT !.command = [x \in Jobs |-> IF x \in S THEN state ELSE r.command[x]]]

\* halt_staged_siblings_after_failure for every job of S.
Siblings(r, S) ==
    {y \in Jobs : r.job[y] = "staged" /\ \E x \in S : x[1] = y[1] /\ x # y}
Halt(r, S) == Terminate(r, Siblings(r, S), "cancelled")

Recalculate(r, S) ==
    [r EXCEPT !.batch = [b \in Batches |-> IF \E x \in S : x[1] = b
                                           THEN DerivedState(r, b) ELSE r.batch[b]]]

\* Mutant: the batch of a failed job is not recalculated.
Fail_Mutant(r, S, state) == Halt(Terminate(r, S, state), S)

\* Mutant: the staged siblings of a failed job are not halted.
Fail_NoHaltMutant(r, S, state) == Recalculate(Terminate(r, S, state), S)

\* A failure of the jobs of S: the staged siblings halted, the batches recalculated.
Fail(r, S, state) == Recalculate(Halt(Terminate(r, S, state), S), S)

\* queue_staged_firmware_deployment for every job of S.
Promote(r, S) ==
    SetCommands([r EXCEPT !.job = [x \in Jobs |-> IF x \in S THEN "queued" ELSE r.job[x]]],
                S, "queued")

\* Mutant: promotion does not look for a job of the release past staging.
Promotable_Mutant(r, v) == Staged(r, v) # {}

\* advance_next_staged_firmware_deployment.
Promotable(r, v) == ~ReleaseBusy(r, v) /\ Staged(r, v) # {}
AdvanceNext(r, v) == IF Promotable(r, v) THEN Promote(r, {OldestStaged(r, v)}) ELSE r

\* reconcile_firmware_version_heartbeat: the identity id reported for sensor d
\* confirms or refutes every validating job of d.
Confirms(r, x, id) == ReleaseOf(r, x) = id.version /\ id.exact
ReconcileIdentity(r, d, id) ==
    LET validating == {x \in Jobs : x[2] = d /\ r.job[x] = "validating"}
        good == {x \in validating : Confirms(r, x, id)}
        bad  == validating \ good
        done == Terminate(Halt(Terminate(r, bad, "failed"), bad), good, "succeeded")
    IN  Recalculate(IF good = {} THEN done ELSE AdvanceNext(done, id.version), validating)

\* _terminalize_linked_ota_deployment for the commands of S, whose state is set already.
TerminalizeLinked(r, S) == Fail(r, {x \in S : Active(r, x)}, "failed")

\* apply_command_results, ota_install: the result of job x's command.  It does
\* not look at the job's own state.
InstallResultAccepted(r, x, result) ==
    \/ x = NoJob
    \/ x # NoJob /\ r.command[x] \in ACTIVE_COMMAND \cup {"ended_by_server", result}

StageOf(result) ==
    CASE result = "running"         -> "downloading"
      [] result = "awaiting_reboot" -> "rebooting"
      [] result \in {"awaiting_heartbeat", "succeeded"} -> "validating"

\* Mutant: a result is applied to a command that ended already.
ApplyInstallResult_Mutant(r, x, result) ==
    LET s == SetCommands(r, {x}, result)
    IN  IF x = NoJob THEN r
        ELSE IF result \in {"failed", "rolled_back"} THEN Fail(s, {x}, result)
        ELSE Recalculate(Enter(s, x, StageOf(result)), {x})

ApplyInstallResult(r, x, result) ==
    LET s == SetCommands(r, {x}, result)
    IN  IF x = NoJob THEN r
        ELSE IF r.command[x] \notin ACTIVE_COMMAND THEN r
        ELSE IF result \in {"failed", "rolled_back"} THEN Fail(s, {x}, result)
        ELSE Recalculate(Enter(s, x, StageOf(result)), {x})

\* deliver_commands for sensor d: commands that expired, or that the loop finds
\* undeliverable, end with their jobs; others are sent, or left for a later response.
Waiting(r, d) == {x \in Jobs : x[2] = d /\ r.command[x] \in {"queued", "delivered"}}
DeliverInstalls(r, ended, sent) ==
    SetCommands(TerminalizeLinked(SetCommands(r, ended, "ended_by_server"), ended),
                sent, "delivered")

--------------------------------------------------------------------------------
(* Actions *)

RolloutInit ==
    /\ w = [job |-> [x \in Jobs |-> "none"], command |-> [x \in Jobs |-> "none"],
            completed |-> {},
            batch |-> [b \in Batches |-> "none"], release |-> [b \in Batches |-> 0],
            rollout |-> [b \in Batches |-> "none"], file |-> [b \in Batches |-> "live"],
            identity |-> [d \in Devices |-> [version |-> 0, exact |-> FALSE]]]
    /\ installs = {}

\* _prepare_firmware_deployment: a new batch b of release v for the sensors S.
Deployable(b, v, S) ==
    /\ w.batch[b] = "none"
    /\ \A c \in Batches : c < b => w.batch[c] # "none"
    /\ S # {}
    /\ \A d \in S : v > w.identity[d].version
    /\ \A x \in Jobs : x[2] \in S => ~Active(w, x)

Deployed(b, v, S, rollout) ==
    LET first  == CHOOSE d \in S : \A e \in S : d <= e
        queued == IF rollout # "staged" THEN S
                  ELSE IF ReleaseBusy(w, v) THEN {} ELSE {first}
        Q      == {b} \X queued
    IN  [SetCommands(w, Q, "queued") EXCEPT
            !.job = [x \in Jobs |-> IF x \in Q THEN "queued"
                                    ELSE IF x \in {b} \X S THEN "staged" ELSE w.job[x]],
            !.batch[b] = "in_progress",
            !.release[b] = v,
            !.rollout[b] = rollout]

DeployFirmwareRelease(b, v, S, rollout) ==
    /\ rollout \in {"immediate", "staged"}
    /\ Deployable(b, v, S)
    /\ w' = Deployed(b, v, S, rollout)
    /\ UNCHANGED installs

\* retry_firmware_deployment_batch: the sensors S of batch a again, in a new batch b.
RetryBatch(a, b, S) ==
    /\ w.file[a] = "live"
    /\ {a} \X S \subseteq JobsOf(w, a)
    /\ \A x \in JobsOf(w, a) : w.command[x] \notin ACTIVE_COMMAND
    /\ \A d \in S : w.job[<<a, d>>] \in TERMINAL_JOB_STATES \ {"succeeded"}
    /\ Deployable(b, w.release[a], S)
    /\ w' = Deployed(b, w.release[a], S, "retry")
    /\ UNCHANGED installs

\* cancel_firmware_deployment_batch.
WaitingOf(b) == {x \in JobsOf(w, b) : w.job[x] \in WAITING_STATES}
QueuedOf(b)  == {x \in JobsOf(w, b) : w.job[x] = "queued"}

Cancellable(b) ==
    /\ w.file[b] = "live"
    /\ WaitingOf(b) # {}
    /\ JobsOf(w, b) \cap {x \in Jobs : NonStaged(w, x)} = QueuedOf(b)
    /\ \A x \in QueuedOf(b) : w.command[x] = "queued"

CancelBatch(b) ==
    /\ Cancellable(b)
    /\ w' = Recalculate(SetCommands(Terminate(w, WaitingOf(b), "cancelled"),
                                    QueuedOf(b), "cancelled"), WaitingOf(b))
    /\ UNCHANGED installs

\* archive and restore of a batch.
ArchiveBatch(b) ==
    /\ w.batch[b] # "none"
    /\ w.file[b] = "live"
    /\ \A x \in JobsOf(w, b) : w.job[x] \in TERMINAL_JOB_STATES
    /\ b \in Filable
    /\ w' = [w EXCEPT !.file[b] = "archived"]
    /\ UNCHANGED installs

RestoreBatch(b) ==
    /\ w.file[b] = "archived"
    /\ w' = [w EXCEPT !.file[b] = "live"]
    /\ UNCHANGED installs

Deletable(b) ==
    /\ w.file[b] = "archived"
    /\ \A x \in JobsOf(w, b) : w.job[x] \in TERMINAL_JOB_STATES
    /\ \A x \in JobsOf(w, b) : w.command[x] \notin ACTIVE_COMMAND

\* permanently_delete_firmware_deployment_batch by the operator, and
\* apply_firmware_deployment_retention by the worker: the same conditions.  A
\* troubleshooting hold or the retention period may only delay it.
DeleteBatch(b) ==
    /\ Deletable(b)
    /\ w' = [w EXCEPT !.file[b] = "deleted"]
    /\ UNCHANGED installs

\* A heartbeat or stateless sample of sensor d, with at most one OTA result.
\* A sample that does not advance the live state carries no identity.
SensorRequest(d, x, result, id) ==
    LET a == ApplyInstallResult(w, x, result)
        c == IF id = NoIdentity THEN a
             ELSE ReconcileIdentity([a EXCEPT !.identity[d] = id], d, id)
    IN  /\ x \in (installs \cap (Batches \X {d})) \cup {NoJob}
        /\ (x = NoJob) <=> (result = "none")
        /\ InstallResultAccepted(w, x, result)
        /\ \E ended \in SUBSET Waiting(c, d) : \E sent \in SUBSET (Waiting(c, d) \ ended) :
              /\ w' = DeliverInstalls(c, ended, sent)
              /\ installs' \in {installs, installs \cup sent}  \* the response may be lost

\* download_firmware: a sensor that knows the release from an earlier job may
\* ask before the command of this one reached it.
DownloadFirmware(x) ==
    /\ w.job[x] \in {"queued", "downloading"}
    /\ w.command[x] \in ACTIVE_COMMAND
    /\ w' = Enter(w, x, "downloading")
    /\ UNCHANGED installs

\* reconcile_stale_firmware_deployments (startup, and the listings of batches
\* and releases).  The halt of the staged siblings is not flushed before the
\* first promotion queries the staged rows, and that promotion re-reads its row
\* from the database: it promotes a sibling just halted as if it never was.
\* create_command then flushes, so a second release sees the halt.
Unhalt(r, x) == [r EXCEPT !.job = [r.job EXCEPT ![x] = "staged"], !.completed = @ \ {x}]

PromoteAfterHalt(flushed, halted, touched) ==
    LET first == {v \in touched : Promotable(flushed, v)}
        Promoted(v) ==
            LET x    == OldestStaged(flushed, v)
                rest == {u \in touched \ {v} : Promotable(halted, u)}
            IN  Promote(Unhalt(halted, x), {x} \cup {OldestStaged(halted, u) : u \in rest})
    IN  IF first = {} THEN {halted} ELSE {Promoted(v) : v \in first}

ReconcileStale(stale) ==
    LET flushed == SetCommands(Terminate(w, stale, "timed_out"),
                               {x \in stale : w.command[x] \in ACTIVE_COMMAND}, "ended_by_server")
        halted  == Halt(flushed, stale)
    IN  /\ stale # {}
        /\ \A x \in stale : Active(w, x)
        /\ \E r \in PromoteAfterHalt(flushed, halted, {ReleaseOf(w, x) : x \in stale}) :
              w' = Recalculate(r, stale)
        /\ UNCHANGED installs

\* Worker: evaluate_firmware_deployments, one sensor's job at a time.
WorkerConfirms(d) ==
    /\ \E x \in Jobs : /\ x[2] = d
                       /\ w.job[x] = "validating"
                       /\ ReleaseOf(w, x) = w.identity[d].version
    /\ w' = ReconcileIdentity(w, d, w.identity[d])
    /\ UNCHANGED installs

\* Worker: advance_staged_rollouts promotes for one release.
WorkerAdvances ==
    \E v \in Releases :
        /\ Promotable(w, v)
        /\ w' = AdvanceNext(w, v)
        /\ UNCHANGED installs

RolloutNext ==
    \/ \E b \in Batches, v \in Releases, S \in SUBSET Devices,
          rollout \in {"immediate", "staged"} : DeployFirmwareRelease(b, v, S, rollout)
    \/ \E a, b \in Batches, S \in SUBSET Devices : RetryBatch(a, b, S)
    \/ \E b \in Batches : CancelBatch(b)
    \/ \E b \in Batches : ArchiveBatch(b)
    \/ \E b \in Batches : RestoreBatch(b)
    \/ \E b \in Batches : DeleteBatch(b)
    \/ \E d \in Devices, x \in Jobs \cup {NoJob}, result \in Reports \cup {"none"},
          id \in Identities \cup {NoIdentity} : SensorRequest(d, x, result, id)
    \/ \E x \in Jobs : DownloadFirmware(x)
    \/ \E stale \in SUBSET {x \in Jobs : Active(w, x)} : ReconcileStale(stale)
    \/ \E d \in Devices : WorkerConfirms(d)
    \/ WorkerAdvances

RolloutSpec == RolloutInit /\ [][RolloutNext]_rolloutVars

\* The worker runs its passes every fifteen seconds.
WorkerFairness == WF_rolloutVars(WorkerAdvances)

--------------------------------------------------------------------------------
(* Properties *)

\* Type invariant.
RolloutTypeOK == w \in RolloutRows /\ installs \subseteq Jobs

\* The stored state of a batch is the one its jobs imply, after every path that
\* moves a job: results, confirmation, expiry, deadlines, halts, promotions.
BatchStateAgrees == \A b \in Batches : w.batch[b] = DerivedState(w, b)

\* A job that ended once and is active again (see EndedJobsStayEnded).
Revived(x) == Active(w, x) /\ x \in w.completed

\* "Exactly one sensor is queued at a time": at most one job of a release's
\* staged rollouts is past staging, whoever promotes it, jobs revived aside.
StagedRolloutSerial ==
    \A x, y \in Jobs :
        /\ NonStaged(w, x) /\ ~Revived(x) /\ w.rollout[x[1]] = "staged"
        /\ NonStaged(w, y) /\ ~Revived(y) /\ w.rollout[y[1]] = "staged"
        /\ ReleaseOf(w, x) = ReleaseOf(w, y)
        => x = y

\* A sensor has one active job at most, jobs revived aside: deploy and retry
\* never start a second one beside a job that is still to end.
OneJobPerSensor ==
    \A x, y \in Jobs :
        /\ Active(w, x) /\ ~Revived(x) /\ Active(w, y) /\ ~Revived(y)
        /\ x[2] = y[2]
        => x = y

\* "The update was cancelled before delivery": the sensor never received the
\* command of a cancelled job, and never will.
CancelledBeforeDelivery ==
    \A x \in Jobs : w.job[x] = "cancelled" =>
        x \notin installs /\ w.command[x] \in {"none", "cancelled"}

\* A deleted batch is an audit tombstone: none of its jobs is ever active again.
TombstonesAreFinal ==
    \A x \in Jobs : w.file[x[1]] = "deleted" => ~Active(w, x)

\* Jobs of release v are staged and none of it is past staging.
Stalled(v) ==
    /\ \E x \in Jobs : w.job[x] = "staged" /\ ReleaseOf(w, x) = v
    /\ \A x \in Jobs : ReleaseOf(w, x) = v => ~NonStaged(w, x)

\* A staged rollout never stalls: while jobs of a release are staged and none
\* of it is past staging, the worker promotes one or they are ended.
RolloutNotStalled ==
    \A v \in Releases : Stalled(v) ~> ~Stalled(v)

\* A job that ended and whose command ended as well never changes again: late,
\* repeated and reordered results, deadlines and promotions leave it alone.
DecidedJobsStayDecided ==
    [][\A x \in Jobs :
          w.job[x] \in TERMINAL_JOB_STATES /\ w.command[x] \notin ACTIVE_COMMAND
          => w'.job[x] = w.job[x]]_rolloutVars

\* The only promotion in a batch with a failed job is the one of the deadline
\* pass itself, in the step that times a job of that batch out: otherwise a
\* failure, by whatever path, stops the rollout for good.
HaltUndoneOnlyByDeadlinePass ==
    [][\A x \in Jobs : w.job[x] = "staged" /\ w'.job[x] = "queued" =>
          \/ \A y \in JobsOf(w, x[1]) : w'.job[y] \notin {"failed", "rolled_back", "timed_out"}
          \/ \E z \in JobsOf(w, x[1]) : Active(w, z) /\ w'.job[z] = "timed_out"]_rolloutVars

\* The server's decision on a job is final: a terminal job stays as it is.
EndedJobsStayEnded ==
    [][\A x \in Jobs : w.job[x] \in TERMINAL_JOB_STATES => w'.job[x] = w.job[x]]_rolloutVars

\* "Staged rollout stopped after another sensor failed": no job is promoted in
\* a batch in which a job failed, was rolled back or timed out.
HaltedRolloutStaysHalted ==
    [][\A x \in Jobs : w.job[x] = "staged" /\ w'.job[x] = "queued" =>
          \A y \in JobsOf(w, x[1]) : w'.job[y] \notin {"failed", "rolled_back", "timed_out"}]_rolloutVars

\* Batches, jobs and tombstones agree after any reports and any filing.
BatchesSound ==
    /\ RolloutTypeOK
    /\ BatchStateAgrees
    /\ TombstonesAreFinal

\* A rollout proceeds one sensor at a time, with one job for a sensor, and what
\* was cancelled is not delivered.
RolloutDisciplined ==
    /\ StagedRolloutSerial
    /\ OneJobPerSensor
    /\ CancelledBeforeDelivery
================================================================================
