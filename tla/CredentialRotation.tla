--------------------------- MODULE CredentialRotation ---------------------------
(***************************************************************************)
(* The rotation of one sensor's HMAC credential: the operator's routes     *)
(* that start, cancel and revoke (routes/devices.py, routes/settings.py),  *)
(* the authentication of a sensor request (security/device_auth.py), the   *)
(* application of the command result the request carries, and the expiry   *)
(* and delivery of commands that end it (services/commands.py).            *)
(*                                                                         *)
(* A rotation is named by the key version of its candidate credential, and *)
(* its three durable commands by a phase and that version.  A request is   *)
(* two steps: AuthenticateRequest reads the credential rows into the       *)
(* request's session, HandleRequest is the locked remainder up to the      *)
(* commit.  Sessions are made with autoflush off and rows already loaded   *)
(* are not refreshed, so HandleRequest reads the candidate's state from    *)
(* the session where it was loaded and from the database where it was not. *)
(*                                                                         *)
(* Time is abstracted to the set `elapsed' of rotations whose ten minute   *)
(* overlap is over; all commands of a rotation expire at that instant.     *)
(***************************************************************************)
EXTENDS Integers, FiniteSets

CONSTANTS MaxKey,      \* bound: credential versions of the sensor
          MaxAttempt,  \* MAX_COMMAND_DELIVERY_ATTEMPT (255 in the code)
          Slots        \* requests of the sensor the server may hold at once

ASSUME ConstantsAssumption ==
    /\ MaxKey \in Nat \ {0}
    /\ MaxAttempt \in Nat \ {0}

Keys     == 1 .. MaxKey
Phases   == {"prepare", "commit", "cancel"}
Commands == Phases \X Keys
NoResult == <<"none", 0>>

TERMINAL_STATES == {"succeeded", "failed", "expired", "cancelled", "superseded", "rolled_back"}

\* CommandResult.state: the four non-terminal reports (accepted, running,
\* awaiting_reboot, awaiting_heartbeat) act alike on a rotation, and so do
\* failed and rolled_back.
ResultStates == {"running", "succeeded", "failed"}

CommandStates    == {"none", "queued", "delivered"} \cup ResultStates \cup TERMINAL_STATES
CredentialStates == {"none", "active", "pending", "prepared", "revoked"}

Databases ==
    [cred : [Keys -> CredentialStates], revoked : SUBSET Keys,
     cmd : [Commands -> CommandStates], attempt : [Commands -> 0 .. MaxAttempt],
     deviceRevoked : BOOLEAN]

Requests ==
    [key : Keys \cup {0}, loaded : [Keys -> {"none", "active", "prepared"}],
     command : Commands \cup {NoResult}, result : ResultStates \cup {"none"}]

VARIABLES db,       \* the committed rows of the device, its credentials, its commands
          elapsed,  \* rotations whose overlap_expires_at has passed
          seen,     \* commands whose delivery reached the sensor
          req       \* requests between authentication and commit

vars == <<db, elapsed, seen, req>>

Idle == [key |-> 0, loaded |-> [k \in Keys |-> "none"], command |-> NoResult, result |-> "none"]

--------------------------------------------------------------------------------
(* Rows *)

Open(d, k)       == d.cred[k] \in {"pending", "prepared"}
LiveOpen(d, k)   == Open(d, k) /\ k \notin d.revoked
LiveActive(d, k) == d.cred[k] = "active" /\ k \notin d.revoked

\* Mutant: terminal commands are expired again with their rotation.
LiveCommand_Mutant(d, c) == d.cmd[c] # "none"

LiveCommand(d, c) == d.cmd[c] \notin TERMINAL_STATES \cup {"none"}

\* authenticate_device_request: the rows its query loads, and the ones it accepts.
Loaded(d) == {k \in Keys : d.cred[k] \in {"active", "prepared"} /\ k \notin d.revoked}
Accepted(d, over) == {k \in Loaded(d) : d.cred[k] = "active" \/ k \notin over}

\* _invalidate_rotation_credential on every key of S.
Invalidate(d, S) ==
    [d EXCEPT !.cred    = [k \in Keys |-> IF k \in S THEN "revoked" ELSE d.cred[k]],
              !.revoked = d.revoked \cup S]

SetCommand(d, c, state) == [d EXCEPT !.cmd = [d.cmd EXCEPT ![c] = state]]

--------------------------------------------------------------------------------
(* Expiry and delivery: services/commands.py *)

\* Mutant: only pending candidates expire, prepared ones are forgotten.
ExpireRotationCredentials_Mutant(d, over) ==
    LET S == {k \in over : d.cred[k] = "pending"}
    IN  [Invalidate(d, S) EXCEPT
            !.cmd = [c \in Commands |-> IF c[2] \in S /\ LiveCommand(d, c)
                                        THEN "expired" ELSE d.cmd[c]]]

ExpireRotationCredentials(d, over) ==
    LET S == {k \in over : Open(d, k)}
    IN  [Invalidate(d, S) EXCEPT
            !.cmd = [c \in Commands |-> IF c[2] \in S /\ LiveCommand(d, c)
                                        THEN "expired" ELSE d.cmd[c]]]

ExpireCommands(d, over) ==
    [d EXCEPT !.cmd = [c \in Commands |->
        IF c[2] \in over /\ d.cmd[c] \in {"queued", "delivered"}
        THEN "expired" ELSE d.cmd[c]]]

Deliverable(d, over) ==
    {c \in Commands : c[2] \notin over /\ d.cmd[c] \in {"queued", "delivered"}}

\* A prepare command whose candidate is no longer pending is expired instead of sent.
Orphaned(d, c)  == c[1] = "prepare" /\ d.cred[c[2]] # "pending"

\* Mutant: one attempt more than the limit.
Exhausted_Mutant(d, c) == d.attempt[c] > MaxAttempt

Exhausted(d, c) == d.attempt[c] >= MaxAttempt
Sent(d, pick)   == {c \in pick : ~Orphaned(d, c) /\ ~Exhausted(d, c)}

\* The delivery loop over the commands `pick' that the limit of four, the
\* response byte budget and SKIP LOCKED leave of the deliverable ones.
DeliverCommands(d, pick) ==
    LET orphans == {c \in pick : Orphaned(d, c)}
    IN  [Invalidate(d, {c[2] : c \in orphans}) EXCEPT
            !.cmd = [c \in Commands |->
                CASE c \in orphans       -> "expired"
                  [] c \in Sent(d, pick) -> "delivered"
                  [] c \in (pick \ orphans) \ Sent(d, pick) -> "failed"
                  [] OTHER               -> d.cmd[c]],
            !.attempt = [c \in Commands |->
                IF c \in Sent(d, pick) THEN d.attempt[c] + 1 ELSE d.attempt[c]]]

--------------------------------------------------------------------------------
(* apply_command_results: what one reported result does to the rows *)

\* rotation_credential.state as the request's session sees it.
SessionState(d, r, k) == IF r.loaded[k] # "none" THEN r.loaded[k] ELSE d.cred[k]

\* The conditions under which a result is applied; any other raises
\* IntegrityConflict and the whole request is rolled back.
PrepareAccepted(d, r, k, over) ==
    /\ LiveActive(d, r.key)
    /\ r.key # k
    /\ SessionState(d, r, k) = "pending"
    /\ k \notin over

\* Mutant: the commit report need not be signed with the candidate.
CommitAccepted_Mutant(d, r, k) == SessionState(d, r, k) = "prepared"

CommitAccepted(d, r, k) == r.key = k /\ SessionState(d, r, k) = "prepared"

CancelAccepted(d, r, k) == LiveActive(d, r.key)

ResultAccepted(d, r, over) ==
    LET phase == r.command[1]
        k     == r.command[2]
    IN  \/ r.command = NoResult
        \/ /\ r.command # NoResult
           /\ d.cmd[r.command] \in TERMINAL_STATES
           /\ d.cmd[r.command] = r.result
        \/ /\ r.command # NoResult
           /\ d.cmd[r.command] \notin TERMINAL_STATES
           /\ r.result = "succeeded" =>
                CASE phase = "prepare" -> PrepareAccepted(d, r, k, over)
                  [] phase = "commit"  -> CommitAccepted(d, r, k)
                  [] phase = "cancel"  -> CancelAccepted(d, r, k)

\* Mutant: the old key is retired as soon as the candidate is prepared.
PrepareSucceeded_Mutant(d, k) ==
    SetCommand([Invalidate(d, {j \in Keys : LiveActive(d, j)})
                   EXCEPT !.cred[k] = "prepared"], <<"commit", k>>, "queued")

\* Prepare succeeded: the candidate is prepared and its commit command queued.
PrepareSucceeded(d, k) ==
    SetCommand([d EXCEPT !.cred = [d.cred EXCEPT ![k] = "prepared"]],
               <<"commit", k>>, "queued")

\* Mutant: the old key is left active.
CommitSucceeded_Mutant(d, k) == [d EXCEPT !.cred = [d.cred EXCEPT ![k] = "active"]]

\* Commit succeeded: every other live active credential is revoked, the candidate activated.
CommitSucceeded(d, k) ==
    LET old == {j \in Keys \ {k} : LiveActive(d, j)}
        e   == Invalidate(d, old)
    IN  [e EXCEPT !.cred = [e.cred EXCEPT ![k] = "active"]]

\* Cancel succeeded, or any phase reported failed: the candidate is revoked.
CandidateDropped(d, k) == Invalidate(d, {k})

ApplyResult(d, r) ==
    LET k == r.command[2]
        e == CASE r.result = "succeeded" /\ r.command[1] = "prepare" -> PrepareSucceeded(d, k)
               [] r.result = "succeeded" /\ r.command[1] = "commit"  -> CommitSucceeded(d, k)
               [] r.result = "succeeded" /\ r.command[1] = "cancel"  -> CandidateDropped(d, k)
               [] r.result = "failed"                                -> CandidateDropped(d, k)
               [] OTHER                                              -> d
    IN  IF r.command = NoResult \/ d.cmd[r.command] \in TERMINAL_STATES
        THEN d
        ELSE SetCommand(e, r.command, r.result)

--------------------------------------------------------------------------------
(* Actions *)

\* After enroll_device: version 1 is active, nothing is under way.
Init ==
    /\ db = [cred    |-> [k \in Keys |-> IF k = 1 THEN "active" ELSE "none"],
             revoked |-> {},
             cmd     |-> [c \in Commands |-> "none"],
             attempt |-> [c \in Commands |-> 0],
             deviceRevoked |-> FALSE]
    /\ elapsed = {}
    /\ seen = {}
    /\ req = [s \in Slots |-> Idle]

\* rotate_device_credential.  Its expiry pass is not flushed before the query
\* for a rotation in progress, so an elapsed one still refuses the request.
\* A repeated idempotency key returns the rotation it made: no step.
RotateDeviceCredential(k) ==
    /\ db.cred[k] = "none"
    /\ \A j \in Keys : j < k => db.cred[j] # "none"
    /\ \A j \in Keys : ~LiveOpen(db, j)
    /\ \E j \in Keys : LiveActive(db, j)
    /\ db' = SetCommand([db EXCEPT !.cred = [db.cred EXCEPT ![k] = "pending"]],
                        <<"prepare", k>>, "queued")
    /\ UNCHANGED <<elapsed, seen, req>>

\* cancel_device_credential_rotation.
CancelRotation(k) ==
    /\ Open(db, k)
    /\ k \notin elapsed
    /\ db.cmd[<<"cancel", k>>] = "none"
    /\ db.cmd[<<"commit", k>>] \in {"none", "queued"}
    /\ db' = [db EXCEPT !.cmd = [db.cmd EXCEPT
                ![<<"commit", k>>] = IF @ = "queued" THEN "superseded" ELSE @,
                ![<<"cancel", k>>] = "queued"]]
    /\ UNCHANGED <<elapsed, seen, req>>

\* Mutant: only the active credential is revoked with the device.
RevokedWithDevice_Mutant(d) == {k \in Keys : d.cred[k] = "active"}

\* revoke_device: revoked_at on the device and on every credential not revoked yet.
RevokedWithDevice(d) == {k \in Keys : d.cred[k] # "none"}

RevokeDevice ==
    /\ ~db.deviceRevoked
    /\ db' = [db EXCEPT !.deviceRevoked = TRUE,
                        !.revoked = db.revoked \cup RevokedWithDevice(db)]
    /\ UNCHANGED <<elapsed, seen, req>>

\* overlap_expires_at of rotation k passes; overlaps end in the order they began.
OverlapElapses(k) ==
    /\ k > 1
    /\ db.cred[k] # "none"
    /\ k \notin elapsed
    /\ \A j \in 2 .. k - 1 : j \in elapsed
    /\ elapsed' = elapsed \cup {k}
    /\ UNCHANGED <<db, seen, req>>

\* deliver_commands for another device: expire_rotation_credentials is global.
OtherDeviceDelivery ==
    /\ db' = ExpireRotationCredentials(db, elapsed)
    /\ UNCHANGED <<elapsed, seen, req>>

\* External: the firmware.  It has the enrolled key and the keys that prepare
\* commands brought it, signs with any of them and reports on any command it saw.
SensorKeys == {1} \cup {k \in Keys : <<"prepare", k>> \in seen}

\* authenticate_device_request.  At most one rotation result per request: a
\* batch of results behaves as its results sent one by one, or is refused whole.
AuthenticateRequest(s, key, c, result) ==
    /\ req[s] = Idle
    /\ key \in SensorKeys
    /\ c \in seen \cup {NoResult}
    /\ result \in IF c = NoResult THEN {"none"} ELSE ResultStates
    /\ ~db.deviceRevoked
    /\ Cardinality(Accepted(db, elapsed)) <= 2
    /\ key \in Accepted(db, elapsed)
    /\ req' = [req EXCEPT ![s] =
                [key     |-> key,
                 loaded  |-> [k \in Keys |-> IF k \in Loaded(db) THEN db.cred[k] ELSE "none"],
                 command |-> c,
                 result  |-> result]]
    /\ UNCHANGED <<db, elapsed, seen>>

\* heartbeat / stateless_telemetry after authentication: results, expiry,
\* delivery, commit.  The response may be lost on its way to the sensor.
HandleRequest(s) ==
    LET r == req[s]
        a == ApplyResult(db, r)
        e == ExpireCommands(ExpireRotationCredentials(a, elapsed), elapsed)
    IN  /\ r # Idle
        /\ ResultAccepted(db, r, elapsed)
        /\ \E pick \in SUBSET Deliverable(e, elapsed) :
              /\ db' = DeliverCommands(e, pick)
              /\ seen' \in {seen, seen \cup Sent(e, pick)}
        /\ req' = [req EXCEPT ![s] = Idle]
        /\ UNCHANGED elapsed

\* The request is refused (conflict, bad evidence, progress moving backward)
\* and rolled back, or its connection is lost before the commit.
AbandonRequest(s) ==
    /\ req[s] # Idle
    /\ req' = [req EXCEPT ![s] = Idle]
    /\ UNCHANGED <<db, elapsed, seen>>

Next ==
    \/ \E k \in Keys : RotateDeviceCredential(k)
    \/ \E k \in Keys : CancelRotation(k)
    \/ RevokeDevice
    \/ \E k \in Keys : OverlapElapses(k)
    \/ OtherDeviceDelivery
    \/ \E s \in Slots, key \in Keys, c \in Commands \cup {NoResult},
          result \in ResultStates \cup {"none"} : AuthenticateRequest(s, key, c, result)
    \/ \E s \in Slots : HandleRequest(s)
    \/ \E s \in Slots : AbandonRequest(s)

Spec == Init /\ [][Next]_vars

\* Time passes, and some sensor of the server keeps sending heartbeats.
Fairness ==
    /\ WF_vars(\E k \in Keys : OverlapElapses(k))
    /\ WF_vars(OtherDeviceDelivery)

FairSpec == Spec /\ Fairness

--------------------------------------------------------------------------------
(* Properties *)

\* Type invariant.
TypeOK ==
    /\ db \in Databases
    /\ elapsed \subseteq Keys
    /\ seen \subseteq Commands
    /\ req \in [Slots -> Requests]

OneActive(d) == \A j, k \in Keys : LiveActive(d, j) /\ LiveActive(d, k) => j = k
OneOpen(d)   == \A j, k \in Keys : LiveOpen(d, j) /\ LiveOpen(d, k) => j = k

\* Overlap is bounded: whatever the requests in flight, one credential at most
\* is live and active and one at most is a live candidate, so the rule that
\* authenticate_device_request refuses a sensor with more than two usable
\* credentials never locks a sensor out.
BoundedOverlap ==
    /\ OneActive(db)
    /\ OneOpen(db)
    /\ Cardinality(Accepted(db, elapsed)) <= 2

\* A device that was not revoked has a live active credential.
SensorNotLockedOut ==
    ~db.deviceRevoked => \E k \in Keys : LiveActive(db, k)

CancelReported(d, k)  == d.cmd[<<"cancel", k>>] \in {"succeeded", "failed"}
CancelledCommit(d, k) == d.cmd[<<"commit", k>>] = "succeeded" /\ CancelReported(d, k)

\* The one way to lose the last active credential: the sensor's final report
\* on a cancel command arrives for a rotation that was committed as well.
\* Expiry, failed phases, lost responses and retries never cost it.
LockoutOnlyByCancelledCommit ==
    \/ SensorNotLockedOut
    \/ \E k \in Keys : CancelledCommit(db, k)

\* "Revocation is immediate": once the operator revoked the device no key is
\* accepted again, not even one that a request in flight activates afterwards.
RevocationImmediate == db.deviceRevoked => Accepted(db, elapsed) = {}

\* A key takes over only by a request it signed itself: when the live active
\* key changes from one to another, the new key authenticated a request in
\* flight, so the sensor has it.
TakeoverIsAuthenticated ==
    [][\A k \in Keys : ~LiveActive(db, k) /\ LiveActive(db', k) =>
          \E s \in Slots : req[s].key = k /\ req'[s] = Idle]_vars

\* The outcome of a command is final: retries, late reports, expiry passes and
\* cancellations never change a terminal state.
CommandOutcomeFinal ==
    [][\A c \in Commands : db.cmd[c] \in TERMINAL_STATES => db'.cmd[c] = db.cmd[c]]_vars

(* The inductive invariant: the safety properties above on any database d, and *)
(* how far the commands of a rotation have come in each state of its candidate. *)

LockoutCause(d) ==
    \/ d.deviceRevoked
    \/ \E k \in Keys : LiveActive(d, k)
    \/ \E k \in Keys : CancelledCommit(d, k)

RevokedRows(d) ==
    \A k \in Keys : /\ d.deviceRevoked /\ d.cred[k] # "none" => k \in d.revoked
                    /\ Open(d, k) /\ k \in d.revoked => d.deviceRevoked
                    /\ d.cred[k] = "none" => k \notin d.revoked

CommandsFollow(d, k) ==
    /\ d.cred[k] = "none" => \A p \in Phases : d.cmd[<<p, k>>] = "none"
    /\ d.cred[k] = "pending" => d.cmd[<<"commit", k>>] = "none"
    /\ d.cred[k] = "prepared" => d.cmd[<<"prepare", k>>] = "succeeded"
    /\ d.cred[k] = "active" => \/ \A p \in Phases : d.cmd[<<p, k>>] = "none"
                               \/ d.cmd[<<"commit", k>>] = "succeeded"
    /\ d.cmd[<<"commit", k>>] # "none" => d.cmd[<<"prepare", k>>] = "succeeded"
    /\ LiveCommand(d, <<"commit", k>>) => d.cred[k] = "prepared" \/ CancelReported(d, k)

CommandsFollowCandidate(d) == \A k \in Keys : CommandsFollow(d, k)

DBInv(d) ==
    /\ d \in Databases
    /\ OneActive(d)
    /\ OneOpen(d)
    /\ LockoutCause(d)
    /\ RevokedRows(d)
    /\ CommandsFollowCandidate(d)

SeenCommandsExist ==
    /\ \A c \in seen : db.cmd[c] # "none"
    /\ \A s \in Slots : req[s].command # NoResult =>
          req[s].command \in seen /\ req[s].result # "none"

IndInv ==
    /\ TypeOK
    /\ DBInv(db)
    /\ SeenCommandsExist

\* Every rotation ends: its candidate is activated or revoked.
RotationResolves ==
    \A k \in Keys : Open(db, k) ~> db.cred[k] \in {"active", "revoked"}
================================================================================
