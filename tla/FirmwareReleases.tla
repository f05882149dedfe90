-------------------------- MODULE FirmwareReleases --------------------------
(***************************************************************************)
(* Firmware releases and their image files.  The row of a release and its  *)
(* file change in two steps that a crash can separate: an upload writes a  *)
(* pending-upload file, commits the row and then renames the file; a       *)
(* deletion moves the file to a pending-delete name, commits the tombstone *)
(* and then unlinks it.  The worker's reconciler repairs what a crash left *)
(* behind.  (routes/firmware.py, services/firmware_deployments.py)         *)
(*                                                                         *)
(* One row, the lifecycle coordinator, serialises uploads, deletions,      *)
(* promotions and the reconciler; archive and restore lock the release     *)
(* only; the rename after an upload's commit and the restore after a       *)
(* failed deletion hold no lock at all.                                    *)
(*                                                                         *)
(* Abstractions: releases are numbered by semantic version, one image for  *)
(* each; one sensor stands for the fleet, with one deployment and one      *)
(* ota_install command of each release (module OtaRollout has them all).   *)
(* Symlinks, altered images and files the code only reports are left out,  *)
(* as is a commit whose outcome the client cannot learn.                   *)
(***************************************************************************)
EXTENDS Naturals, FiniteSets

CONSTANTS
    MaxVersion,   \* bound: releases 1 .. MaxVersion, in version order
    Deleters,     \* deletion requests that may be in flight together
    Contested     \* bound: the releases that are deployed and deleted

VARIABLES
    release,      \* firmware_releases: lifecycle state and rollback pin
    final,        \* releases whose image has its final name
    quarantined,  \* releases with a pending-delete file
    pending,      \* releases with a pending-upload file
    aged,         \* releases whose image is older than the recovery grace
    deployment,   \* the deployment of each release
    install,      \* the ota_install command of that deployment
    running,      \* version the sensor reports, 0 for one not in the table
    upload,       \* the upload in flight
    deletion,     \* the deletions in flight
    recon,        \* the reconciler's pass
    stranded      \* history: deleted while another request had the image

releaseVars == <<release, final, quarantined, pending, aged, deployment, install,
                 running, upload, deletion, recon, stranded>>
files == <<final, quarantined, pending>>
fleet == <<deployment, install, running>>

Versions == 1 .. MaxVersion
LifecycleStates == {"none", "available", "current", "archived", "deleted"}
\* "none" for one that ended; "revived" for one that ended and was made active
\* by a late result; "overtaken" for one revived after its release was taken
\* for deletion.
DeploymentStates == {"none", "staged", "active", "revived", "overtaken"}
\* An active command by how it came to be: with its deployment, or with the
\* promotion of a staged one; "overtaken" when a deletion missed it.
InstallCommands == {"none", "queued", "promoted", "overtaken"}
Idle == [phase |-> "none"]
NoPass == [phase |-> "none", deletes |-> {}, uploads |-> {}]

ASSUME ReleasesAssumption == MaxVersion \in Nat

Live(r) == release[r].state \in {"available", "current", "archived"}

\* The deletion holds the coordinator and every release row to its commit,
\* the upload from its pending file to its commit, the reconciler to its end.
RowsHeld == \E d \in Deleters : deletion[d].phase = "moved"

CoordinatorHeld == \/ RowsHeld
                   \/ upload.phase = "written"
                   \/ recon.phase = "locked"

\* _artifact_available: the file under the canonical name, content checked.
Available(r) == release[r].state # "deleted" /\ r \in final

ReleasesInit ==
    /\ release = [r \in Versions |-> [state |-> "none", pinned |-> FALSE]]
    /\ final = {} /\ quarantined = {} /\ pending = {} /\ aged = {}
    /\ deployment = [r \in Versions |-> "none"]
    /\ install = [r \in Versions |-> "none"]
    /\ running = 0
    /\ upload = Idle
    /\ deletion = [d \in Deleters |-> Idle]
    /\ recon = NoPass
    /\ stranded = {}

-----------------------------------------------------------------------------
\* upload_firmware_release: the row is flushed, the coordinator taken, the
\* pending file written and synced.  Versions and images are unique.
WriteUpload(r) ==
    /\ upload.phase = "none"
    /\ release[r].state = "none"
    /\ r \notin pending
    /\ ~CoordinatorHeld
    /\ pending' = pending \cup {r}
    /\ upload' = [phase |-> "written", release |-> r]
    /\ UNCHANGED <<release, final, quarantined, aged, fleet, deletion, recon, stranded>>

CommitUpload ==
    /\ upload.phase = "written"
    /\ release' = [release EXCEPT ![upload.release] = [state |-> "available", pinned |-> FALSE]]
    /\ upload' = [upload EXCEPT !.phase = "committed"]
    /\ UNCHANGED <<files, aged, fleet, deletion, recon, stranded>>

\* The commit failed: the row is rolled back and the pending file unlinked.
FailUpload ==
    /\ upload.phase = "written"
    /\ pending' = pending \ {upload.release}
    /\ upload' = Idle
    /\ UNCHANGED <<release, final, quarantined, aged, fleet, deletion, recon, stranded>>

\* The rename after the commit holds no lock; it raises when the reconciler
\* promoted the file before.
RenameUpload ==
    LET r == upload.release
    IN  /\ upload.phase = "committed"
        /\ IF r \in pending
           THEN pending' = pending \ {r} /\ final' = final \cup {r}
           ELSE UNCHANGED <<pending, final>>
        /\ upload' = Idle
        /\ UNCHANGED <<release, quarantined, aged, fleet, deletion, recon, stranded>>

CrashUpload ==
    /\ upload.phase # "none"
    /\ upload' = Idle
    /\ UNCHANGED <<release, files, aged, fleet, deletion, recon, stranded>>

-----------------------------------------------------------------------------
\* Mutant: the commands of deployments that ended do not protect.
ImageDeletable_Mutant(r) ==
    /\ release[r].state \in {"available", "archived"}
    /\ ~release[r].pinned
    /\ deployment[r] = "none"
    /\ running # r

\* The protections of a release from permanent deletion.  Its active commands
\* are locked and looked at before the wait for the coordinator, and not again:
\* a request that was waiting when a staged deployment was promoted does not
\* know of the command.
ImageDeletable(r) ==
    /\ release[r].state \in {"available", "archived"}
    /\ ~release[r].pinned
    /\ deployment[r] = "none"
    /\ install[r] \in {"none", "promoted"}
    /\ running # r

\* Somebody else is about to put the image of r back under its final name.
ImageInHand(d, r) ==
    \/ r \in pending
    \/ \E e \in Deleters \ {d} : deletion[e].phase = "failed" /\ deletion[e].release = r

\* permanently_delete_firmware_release under all its locks, up to the move
\* of the file: _quarantine_artifact_file.
QuarantineImage(d, r) ==
    /\ r \in Contested
    /\ deletion[d].phase = "none"
    /\ ~CoordinatorHeld
    /\ ImageDeletable(r)
    /\ final' = final \ {r}
    /\ quarantined' = IF r \in final THEN quarantined \cup {r} ELSE quarantined
    /\ deletion' = [deletion EXCEPT ![d] =
            [phase |-> "moved", release |-> r, moved |-> r \in final,
             inHand |-> ImageInHand(d, r)]]
    /\ install' = [install EXCEPT ![r] = IF @ = "promoted" THEN "overtaken" ELSE @]
    /\ UNCHANGED <<release, pending, aged, deployment, running, upload, recon, stranded>>

CommitDeletion(d) ==
    LET r == deletion[d].release
    IN  /\ deletion[d].phase = "moved"
        /\ release' = [release EXCEPT ![r].state = "deleted"]
        /\ deletion' = [deletion EXCEPT ![d].phase = "committed"]
        /\ stranded' = IF deletion[d].inHand THEN stranded \cup {r} ELSE stranded
        /\ UNCHANGED <<files, aged, fleet, upload, recon>>

\* _purge_quarantined_artifact of the file this request moved.
PurgeQuarantine(d) ==
    LET r == deletion[d].release
    IN  /\ deletion[d].phase = "committed"
        /\ quarantined' = IF deletion[d].moved THEN quarantined \ {r} ELSE quarantined
        /\ deletion' = [deletion EXCEPT ![d] = Idle]
        /\ UNCHANGED <<release, final, pending, aged, fleet, upload, recon, stranded>>

FailDeletion(d) ==
    /\ deletion[d].phase = "moved"
    /\ deletion' = [deletion EXCEPT ![d].phase = "failed"]
    /\ UNCHANGED <<release, files, aged, fleet, upload, recon, stranded>>

\* _restore_quarantined_artifact, after the rollback released every lock.
RestoreQuarantine(d) ==
    LET r == deletion[d].release
        back == deletion[d].moved /\ r \in quarantined
    IN  /\ deletion[d].phase = "failed"
        /\ final' = IF back THEN final \cup {r} ELSE final
        /\ quarantined' = IF back THEN quarantined \ {r} ELSE quarantined
        /\ deletion' = [deletion EXCEPT ![d] = Idle]
        /\ UNCHANGED <<release, pending, aged, fleet, upload, recon, stranded>>

CrashDeletion(d) ==
    /\ deletion[d].phase # "none"
    /\ deletion' = [deletion EXCEPT ![d] = Idle]
    /\ UNCHANGED <<release, files, aged, fleet, upload, recon, stranded>>

-----------------------------------------------------------------------------
Lifecycle(r, state, pinned) ==
    /\ release' = [release EXCEPT ![r] = [state |-> state, pinned |-> pinned]]
    /\ UNCHANGED <<files, aged, fleet, upload, deletion, recon, stranded>>

archive_firmware_release(r) ==
    /\ ~RowsHeld
    /\ release[r].state = "available"
    /\ deployment[r] = "none"
    /\ Lifecycle(r, "archived", release[r].pinned)

restore_firmware_release(r) ==
    /\ ~RowsHeld
    /\ release[r].state = "archived"
    /\ Available(r)
    /\ Lifecycle(r, "available", release[r].pinned)

\* _make_release_current: the prior current release is demoted and pinned.
make_release_current(r) ==
    /\ ~CoordinatorHeld
    /\ release[r].state = "available"
    /\ Available(r)
    /\ release' = [q \in Versions |->
            CASE q = r -> [state |-> "current", pinned |-> FALSE]
              [] q # r /\ release[q].state = "current" -> [state |-> "available", pinned |-> TRUE]
              [] OTHER -> release[q]]
    /\ UNCHANGED <<files, aged, fleet, upload, deletion, recon, stranded>>

update_rollback_pin(r, pinned) ==
    /\ ~CoordinatorHeld
    /\ Live(r)
    /\ pinned => release[r].state = "available" /\ Available(r)
    /\ Lifecycle(r, release[r].state, pinned)

\* The guards of a new deployment, queued with its command or staged; what
\* follows is module OtaRollout.
Deploy(r, staged) ==
    /\ r \in Contested
    /\ ~CoordinatorHeld
    /\ release[r].state \in {"available", "current"}
    /\ Available(r)
    /\ r > running
    /\ \A q \in Versions : deployment[q] = "none"
    /\ deployment' = [deployment EXCEPT ![r] = IF staged THEN "staged" ELSE "active"]
    /\ install' = [install EXCEPT ![r] = IF staged THEN @ ELSE "queued"]
    /\ UNCHANGED <<release, files, aged, running, upload, deletion, recon, stranded>>

\* advance_next_staged_firmware_deployment.
PromoteDeployment(r) ==
    /\ ~RowsHeld
    /\ deployment[r] = "staged"
    /\ deployment' = [deployment EXCEPT ![r] = "active"]
    /\ install' = [install EXCEPT ![r] = "promoted"]
    /\ UNCHANGED <<release, files, aged, running, upload, deletion, recon, stranded>>

\* A deployment ends, confirmed by the sensor's version or not.  A heartbeat
\* that refutes it leaves its command as it is.
EndDeployment(r, confirmed, commandEnds) ==
    /\ deployment[r] # "none"
    /\ ~RowsHeld
    /\ deployment' = [deployment EXCEPT ![r] = "none"]
    /\ install' = [install EXCEPT ![r] = IF commandEnds THEN "none" ELSE @]
    /\ running' = IF confirmed THEN r ELSE running
    /\ UNCHANGED <<release, files, aged, upload, deletion, recon, stranded>>

\* The command ends alone: it succeeded and the deployment is confirming, or
\* the deployment ended before.
EndInstall(r) ==
    /\ install[r] # "none"
    /\ ~RowsHeld
    /\ install' = [install EXCEPT ![r] = "none"]
    /\ UNCHANGED <<release, files, aged, deployment, running, upload, deletion, recon, stranded>>

\* apply_command_results: progress reported for an active command makes its
\* deployment active, also when it ended; the release is not looked at.
ReviveDeployment(r) ==
    /\ install[r] # "none"
    /\ deployment[r] = "none"
    /\ ~RowsHeld
    /\ deployment' = [deployment EXCEPT ![r] = IF install[r] = "overtaken" THEN "overtaken"
                                              ELSE "revived"]
    /\ UNCHANGED <<release, files, aged, install, running, upload, deletion, recon, stranded>>

-----------------------------------------------------------------------------
\* A rename keeps the modification time, so the age is the image's own.
Age(r) ==
    /\ r \in (final \cup quarantined \cup pending) \ aged
    /\ aged' = aged \cup {r}
    /\ UNCHANGED <<release, files, fleet, upload, deletion, recon, stranded>>

\* reconcile_firmware_artifact_quarantines lists the directory before it
\* waits for the coordinator.
ScanDirectory ==
    /\ recon.phase = "none"
    /\ recon' = [phase |-> "scanned", deletes |-> quarantined, uploads |-> pending]
    /\ UNCHANGED <<release, files, aged, fleet, upload, deletion, stranded>>

LockCoordinator ==
    /\ recon.phase = "scanned"
    /\ ~CoordinatorHeld
    /\ recon' = [recon EXCEPT !.phase = "locked"]
    /\ UNCHANGED <<release, files, aged, fleet, upload, deletion, stranded>>

\* Mutant: only the images of live releases are settled.
ReconcileDeleteOfLive(r) ==
    LET restore == r \in quarantined /\ r \in aged /\ Live(r) /\ r \notin final
    IN  /\ recon.phase = "locked"
        /\ r \in recon.deletes
        /\ quarantined' = IF restore THEN quarantined \ {r} ELSE quarantined
        /\ final' = IF restore THEN final \cup {r} ELSE final
        /\ recon' = [recon EXCEPT !.deletes = @ \ {r}]
        /\ UNCHANGED <<release, pending, aged, fleet, upload, deletion, stranded>>

\* One pending-delete file: purged for a tombstone, restored for a release
\* whose image is missing, otherwise reported and left.
ReconcileDelete(r) ==
    LET usable == r \in quarantined /\ r \in aged
        restore == usable /\ Live(r) /\ r \notin final
        purge == usable /\ release[r].state = "deleted"
    IN  /\ recon.phase = "locked"
        /\ r \in recon.deletes
        /\ quarantined' = IF restore \/ purge THEN quarantined \ {r} ELSE quarantined
        /\ final' = IF restore THEN final \cup {r} ELSE final
        /\ recon' = [recon EXCEPT !.deletes = @ \ {r}]
        /\ UNCHANGED <<release, pending, aged, fleet, upload, deletion, stranded>>

\* One pending-upload file: purged when no row owns it, promoted when the
\* owner's image is missing, otherwise reported and left.
ReconcileUpload(r) ==
    LET usable == r \in pending /\ r \in aged
        promote == usable /\ Live(r) /\ r \notin final
        purge == usable /\ release[r].state = "none"
    IN  /\ recon.phase = "locked"
        /\ r \in recon.uploads
        /\ pending' = IF promote \/ purge THEN pending \ {r} ELSE pending
        /\ final' = IF promote THEN final \cup {r} ELSE final
        /\ recon' = [recon EXCEPT !.uploads = @ \ {r}]
        /\ UNCHANGED <<release, quarantined, aged, fleet, upload, deletion, stranded>>

EndPass ==
    /\ recon.phase = "locked"
    /\ recon.deletes = {} /\ recon.uploads = {}
    /\ recon' = NoPass
    /\ UNCHANGED <<release, files, aged, fleet, upload, deletion, stranded>>

\* The worker dies or its cycle is rolled back; files stay as they are.  A
\* worker that dies while it waits for the lock only loses its listing.
CrashPass ==
    /\ recon.phase = "locked"
    /\ recon' = NoPass
    /\ UNCHANGED <<release, files, aged, fleet, upload, deletion, stranded>>

UploadStep == CommitUpload \/ FailUpload \/ RenameUpload \/ CrashUpload
DeletionStep(d) ==
    \/ CommitDeletion(d) \/ PurgeQuarantine(d) \/ FailDeletion(d)
    \/ RestoreQuarantine(d) \/ CrashDeletion(d)

ReleasesNext ==
    \/ UploadStep
    \/ \E d \in Deleters : \/ \E r \in Versions : QuarantineImage(d, r)
                           \/ DeletionStep(d)
    \/ \E r \in Versions :
          \/ WriteUpload(r)
          \/ archive_firmware_release(r)
          \/ restore_firmware_release(r)
          \/ make_release_current(r)
          \/ \E pinned \in BOOLEAN : update_rollback_pin(r, pinned)
          \/ \E staged \in BOOLEAN : Deploy(r, staged)
          \/ PromoteDeployment(r)
          \/ \E confirmed, commandEnds \in BOOLEAN : EndDeployment(r, confirmed, commandEnds)
          \/ EndInstall(r)
          \/ ReviveDeployment(r)
          \/ Age(r)
          \/ ReconcileDelete(r)
          \/ ReconcileUpload(r)
    \/ ScanDirectory
    \/ LockCoordinator
    \/ EndPass
    \/ CrashPass

\* Requests end; time passes; the worker's loop keeps starting passes.  Its
\* turn at the coordinator comes (the database queues lock waiters) and it is
\* not interrupted for ever at the same file.
ReleasesFairness ==
    /\ WF_releaseVars(UploadStep)
    /\ \A d \in Deleters : WF_releaseVars(DeletionStep(d))
    /\ \A r \in Versions : /\ WF_releaseVars(Age(r))
                           /\ SF_releaseVars(ReconcileDelete(r))
                           /\ SF_releaseVars(ReconcileUpload(r))
    /\ WF_releaseVars(ScanDirectory)
    /\ SF_releaseVars(LockCoordinator)
    /\ SF_releaseVars(EndPass)

ReleasesSpec == ReleasesInit /\ [][ReleasesNext]_releaseVars /\ ReleasesFairness

-----------------------------------------------------------------------------
ReleasesTypeOK ==
    /\ release \in [Versions -> [state : LifecycleStates, pinned : BOOLEAN]]
    /\ final \cup quarantined \cup pending \cup aged \cup stranded \subseteq Versions
    /\ deployment \in [Versions -> DeploymentStates]
    /\ install \in [Versions -> InstallCommands]
    /\ running \in 0 .. MaxVersion
    /\ upload.phase \in {"none", "written", "committed"}
    /\ \A d \in Deleters : deletion[d].phase \in {"none", "moved", "committed", "failed"}
    /\ recon.phase \in {"none", "scanned", "locked"}

\* No crash, failed commit or overlap with the reconciler loses the image of a
\* release that is not deleted: some file of the directory still holds it.
LiveImagesKept ==
    \A r \in Versions : Live(r) => r \in final \cup quarantined \cup pending

\* What sensors may be told to fetch is in place: the release of an active
\* deployment and the current release are deployable and their image has its
\* final name; at most one release is current.  A late result can make an ended
\* deployment active when its release is archived already (archiving looks at
\* active deployments only): its image is in place all the same, since deletion
\* looks at the commands as well, unless the command was created by a promotion
\* while the deletion waited for the coordinator.
ServedImagesInPlace ==
    /\ \A r \in Versions : deployment[r] \in {"staged", "active"} =>
          release[r].state \in {"available", "current"} /\ r \in final
    /\ \A r \in Versions : deployment[r] = "revived" => Live(r) /\ r \in final
    /\ \A r \in Versions : release[r].state = "current" => r \in final
    /\ Cardinality({r \in Versions : release[r].state = "current"}) <= 1

\* A tombstone has no image under the final name, except when the release was
\* deleted while an unfinished upload or a failed deletion of the same release
\* was about to put the image there.
TombstonesHaveNoImage ==
    \A r \in Versions : release[r].state = "deleted" /\ r \in final => r \in stranded

\* The reconciler settles every pending-delete file, and every pending-upload
\* file of a release that is not deleted in the meantime.
ImagesSettle ==
    \A r \in Versions :
        /\ r \in quarantined ~> r \notin quarantined
        /\ r \in pending ~> (r \notin pending \/ release[r].state = "deleted")

\* Rows and files of releases agree across crashes, failed commits and the
\* reconciler: no live image is lost, what is served is there, what is deleted
\* is gone.
ImagesSound ==
    /\ ReleasesTypeOK
    /\ LiveImagesKept
    /\ ServedImagesInPlace
    /\ TombstonesHaveNoImage
=============================================================================
