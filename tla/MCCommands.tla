------------------------------- MODULE MCCommands -------------------------------
(* What the server asks of sensors: destructive commands, firmware rollouts   *)
(* and the image files they serve, key rotations.  They meet in the command   *)
(* queue only, each with rows of its own, so each behaviour runs the part     *)
(* `focus' names.                                                             *)
EXTENDS DestructiveCommands, OtaRollout, FirmwareReleases

CONSTANTS Parts,                                     \* the parts this instance runs
          MaxKey, MaxAttempt, Slots                  \* of the rotation

VARIABLES keys, overlap, delivered, requests,  \* of the rotation
          focus

Rotation == INSTANCE CredentialRotation
            WITH db <- keys, elapsed <- overlap, seen <- delivered, req <- requests

rotationVars == <<keys, overlap, delivered, requests>>
commandVars == <<vars, releaseVars, rotationVars, rolloutVars, focus>>

CommandsInit ==
    /\ Init /\ ReleasesInit /\ Rotation!Init /\ RolloutInit
    /\ focus \in Parts

CommandsNext ==
    \/ focus = "destructive" /\ Next
       /\ UNCHANGED <<releaseVars, rotationVars, rolloutVars, focus>>
    \/ focus = "rotation" /\ Rotation!Next
       /\ UNCHANGED <<vars, releaseVars, rolloutVars, focus>>
    \/ focus = "rollout" /\ RolloutNext
       /\ UNCHANGED <<vars, releaseVars, rotationVars, focus>>
    \/ focus = "images" /\ ReleasesNext
       /\ UNCHANGED <<vars, rotationVars, rolloutVars, focus>>

CommandsSpec == CommandsInit /\ [][CommandsNext]_commandVars

\* The fairness of the part that runs: Fairness, Rotation!Fairness,
\* WorkerFairness or ReleasesFairness, none of it asked of a part at
\* rest.  Requests of sensors are never fair: a sensor may fall silent.
Run(part, A) == focus = part /\ A
CommandsFairness ==
    /\ \A p \in Prepares : WF_vars(Run("destructive", ExpiryPasses(p)))
    /\ WF_vars(Run("destructive", WorkerExpiresTokens))
    /\ WF_rotationVars(Run("rotation", \E k \in Rotation!Keys : Rotation!OverlapElapses(k)))
    /\ WF_rotationVars(Run("rotation", Rotation!OtherDeviceDelivery))
    /\ WF_rolloutVars(Run("rollout", WorkerAdvances))
    /\ WF_releaseVars(Run("images", UploadStep))
    /\ \A d \in Deleters : WF_releaseVars(Run("images", DeletionStep(d)))
    /\ \A r \in Versions : /\ WF_releaseVars(Run("images", Age(r)))
                           /\ SF_releaseVars(Run("images", ReconcileDelete(r)))
                           /\ SF_releaseVars(Run("images", ReconcileUpload(r)))
    /\ WF_releaseVars(Run("images", ScanDirectory))
    /\ SF_releaseVars(Run("images", LockCoordinator))
    /\ SF_releaseVars(Run("images", EndPass))

CommandsFairSpec == CommandsSpec /\ CommandsFairness

\* Every rotation ends with its candidate key activated or revoked, although
\* the sensor may never answer (expire_rotation_credentials).
RotationResolves == Rotation!RotationResolves
================================================================================
