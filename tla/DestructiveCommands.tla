-------------------------- MODULE DestructiveCommands --------------------------
(***************************************************************************)
(* Storage format and data reset of one sensor: an operator queues a       *)
(* prepare command and receives a confirmation token, the sensor reports   *)
(* that it is ready, the operator commits with the token, the sensor       *)
(* reports completion (routes/dashboard.py, services/commands.py).  A data *)
(* reset may be cancelled.                                                 *)
(*                                                                         *)
(* The token row is locked by every route that uses it, so queueing a      *)
(* commit or a cancel is one step; queueing a prepare reads the device row *)
(* without a lock and is two.  Commands are <<role, prepare, number>>;     *)
(* commits of one prepare would differ by their idempotency keys.  The     *)
(* cancel command itself is left out: neither its delivery nor its result  *)
(* does anything to other rows.                                            *)
(* A prepare and its commits and cancels expire at the same instant, and   *)
(* `elapsed' are the prepares for which it has passed.                     *)
(* A heartbeat is one step: it locks the commands it reports on before it  *)
(* reads them, and batches of readings wait for the device row it holds.   *)
(* (Heartbeats that overlap are in ReadingIngestion.)                      *)
(***************************************************************************)
EXTENDS Integers, FiniteSets

CONSTANTS MaxPrepare,  \* bound: prepare commands ever queued
          MaxCopies,   \* bound: commits per prepare
          MaxSeq       \* bound: sequences

ASSUME ConstantsAssumption ==
    MaxPrepare \in Nat \ {0} /\ MaxCopies \in Nat \ {0} /\ MaxSeq \in Nat

Prepares == 1 .. MaxPrepare
Copies   == 1 .. MaxCopies
Prepare(p)   == <<"prepare", p, 1>>
Commit(p, i) == <<"commit", p, i>>
Commands == {Prepare(p) : p \in Prepares} \cup {Commit(p, i) : p \in Prepares, i \in Copies}
NoResult == <<"none", 0, 0>>
NotReady == -1

TERMINAL_STATES == {"succeeded", "failed", "expired", "cancelled", "superseded", "rolled_back"}

\* The four progress reports act alike, and so do failed and rolled_back.
ResultStates  == {"running", "succeeded", "failed"}
CommandStates == {"none", "queued", "delivered", "running"} \cup TERMINAL_STATES

VARIABLES db,       \* the committed rows
          form,     \* a prepare request between its read of the device and its commit
          elapsed,  \* prepares whose expires_at has passed
          seen      \* commands that reached the sensor

vars == <<db, form, elapsed, seen>>

NoForm == [kind |-> "none", gen |-> 0, floor |-> 0]
Forms  == [kind : {"none", "format", "reset"}, gen : Nat, floor : 0 .. MaxSeq]

Rows ==
    [cmd : [Commands -> CommandStates],
     token : [Prepares -> {"none", "live", "gone"}],     \* prepare_token_hash
     order : [Prepares -> Forms],                         \* payload of the prepare
     ready : [Prepares -> NotReady .. MaxSeq],            \* sequence_floor of its evidence
     gen : Nat,                                           \* device.reset_generation
     max : 0 .. MaxSeq]                                   \* device.maximum_sequence

--------------------------------------------------------------------------------
(* Rows *)

SetCommand(d, c, state) == [d EXCEPT !.cmd = [d.cmd EXCEPT ![c] = state]]

\* _redact_prepare_token for the prepares of S that hold one.
Redact(d, S) ==
    [d EXCEPT !.token = [p \in Prepares |-> IF p \in S /\ d.token[p] = "live"
                                            THEN "gone" ELSE d.token[p]]]

\* The i-th commit of p is the next to be created.
IsNext(d, p, i) ==
    /\ d.cmd[Commit(p, i)] = "none"
    /\ \A j \in Copies : j < i => d.cmd[Commit(p, j)] # "none"

\* Mutant: the prepare need not have been carried out by the sensor.
TokenValid_Mutant(d, p) == d.token[p] = "live" /\ p \notin elapsed

\* validate_commit_token.
TokenValid(d, p) ==
    /\ d.cmd[Prepare(p)] = "succeeded"
    /\ d.token[p] = "live"
    /\ p \notin elapsed

\* Mutant: the token is not consumed.
TokenConsumed_Mutant(d, p) == d

TokenConsumed(d, p) == [d EXCEPT !.token = [d.token EXCEPT ![p] = "gone"]]

\* Mutant: a prepare that ended already keeps its token.
ExpirePrepareTokens_Mutant(d, over) ==
    LET S == {p \in over : d.token[p] = "live" /\ d.cmd[Prepare(p)] \notin TERMINAL_STATES}
    IN  [Redact(d, S) EXCEPT !.cmd = [c \in Commands |->
            IF \E p \in S : c = Prepare(p) THEN "expired" ELSE d.cmd[c]]]

\* expire_prepare_tokens.
ExpirePrepareTokens(d, over) ==
    LET S == {p \in over : d.token[p] = "live"}
    IN  [Redact(d, S) EXCEPT !.cmd = [c \in Commands |->
            IF (\E p \in S : c = Prepare(p)) /\ d.cmd[c] \notin TERMINAL_STATES
            THEN "expired" ELSE d.cmd[c]]]

\* deliver_commands: queued and delivered commands past their expiry end, and a
\* prepare among them loses its token.  Of the others the loop fails some
\* (attempts exhausted, envelope too large), sends some and leaves the rest.
ExpireCommands(d, over) ==
    LET S == {c \in Commands : c[2] \in over /\ d.cmd[c] \in {"queued", "delivered"}}
    IN  [Redact(d, {p \in Prepares : Prepare(p) \in S}) EXCEPT
            !.cmd = [c \in Commands |-> IF c \in S THEN "expired" ELSE d.cmd[c]]]

Deliverable(d, over) ==
    {c \in Commands : c[2] \notin over /\ d.cmd[c] \in {"queued", "delivered"}}

DeliverCommands(d, failed, sent) ==
    [d EXCEPT !.cmd = [c \in Commands |-> IF c \in failed THEN "failed"
                                          ELSE IF c \in sent THEN "delivered" ELSE d.cmd[c]]]

--------------------------------------------------------------------------------
(* apply_command_results *)

\* Evidence of a ready sensor: the floor it will reset to, not below the server's.
PrepareEvidence(d, p, floor) ==
    d.order[p].kind = "reset" => floor >= d.order[p].floor

\* Mutant: the generation that was reset to is not compared with the device's.
CompletionAccepted_Mutant(d, p) == d.ready[p] >= d.max

\* Mutant: the floor is not compared with what arrived since the prepare.
CompletionAccepted_NoFloor(d, p) == d.order[p].gen = d.gen + 1

\* A completed data reset: the next generation, from a floor nothing stored exceeds.
CompletionAccepted(d, p) == d.order[p].gen = d.gen + 1 /\ d.ready[p] >= d.max

\* A result that contradicts a terminal state is refused with its whole request.
ResultAccepted(d, c, result, floor) ==
    \/ c = NoResult
    \/ /\ c # NoResult
       /\ d.cmd[c] \notin TERMINAL_STATES
       /\ result = "succeeded" /\ c[1] = "prepare" => PrepareEvidence(d, c[2], floor)
       /\ result = "succeeded" /\ c[1] = "commit" /\ d.order[c[2]].kind = "reset" =>
             CompletionAccepted(d, c[2])
    \/ c # NoResult /\ d.cmd[c] \in TERMINAL_STATES /\ d.cmd[c] = result

ResetTo(d, p) == [d EXCEPT !.gen = d.order[p].gen, !.max = d.ready[p]]

ApplyResult(d, c, result, floor) ==
    LET p == c[2]
        e == SetCommand(d, c, result)
    IN  IF c = NoResult THEN d
        ELSE IF d.cmd[c] \in TERMINAL_STATES THEN d
        ELSE CASE result = "succeeded" /\ c[1] = "prepare" ->
                    [e EXCEPT !.ready = [d.ready EXCEPT ![p] = floor]]
               [] result = "failed" /\ c[1] = "prepare" -> Redact(e, {p})
               [] result = "succeeded" /\ c[1] = "commit" /\ d.order[p].kind = "reset" ->
                    ResetTo(e, p)
               [] OTHER -> e

--------------------------------------------------------------------------------
(* Actions *)

Init ==
    /\ db = [cmd   |-> [c \in Commands |-> "none"],
             token |-> [p \in Prepares |-> "none"],
             order |-> [p \in Prepares |-> NoForm],
             ready |-> [p \in Prepares |-> NotReady],
             gen   |-> 0, max |-> 0]
    /\ form = NoForm
    /\ elapsed = {}
    /\ seen = {}

\* The payload of a prepare: a reset names the boundary the device row gives.
PayloadOf(d, kind) ==
    IF kind = "reset" THEN [kind |-> kind, gen |-> d.gen + 1, floor |-> d.max]
    ELSE [kind |-> kind, gen |-> 0, floor |-> 0]

\* queue_command for a prepare: the device row is read ...
ReadDevice(kind) ==
    /\ form = NoForm
    /\ kind \in {"format", "reset"}
    /\ form' = PayloadOf(db, kind)
    /\ UNCHANGED <<db, elapsed, seen>>

\* ... and the command created from it.
QueuePrepare(p) ==
    /\ form # NoForm
    /\ db.token[p] = "none"
    /\ \A q \in Prepares : q < p => db.token[q] # "none"
    /\ db' = [SetCommand(db, Prepare(p), "queued") EXCEPT
                 !.token = [db.token EXCEPT ![p] = "live"],
                 !.order = [db.order EXCEPT ![p] = form]]
    /\ form' = NoForm
    /\ UNCHANGED <<elapsed, seen>>

\* The prepare request repeated with its idempotency key; it is refused when
\* its payload comes out differently by now.
RepeatPrepare(p) ==
    /\ db.token[p] = "live"
    /\ db.order[p] = PayloadOf(db, db.order[p].kind)
    /\ p \in elapsed
    /\ db' = SetCommand(Redact(db, {p}), Prepare(p), "expired")
    /\ UNCHANGED <<form, elapsed, seen>>

\* queue_command for a commit.
QueueCommit(p, i) ==
    /\ TokenValid(db, p)
    /\ db.order[p].kind = "reset" => db.ready[p] >= db.order[p].floor
    /\ IsNext(db, p, i)
    /\ db' = SetCommand(TokenConsumed(db, p), Commit(p, i), "queued")
    /\ UNCHANGED <<form, elapsed, seen>>

\* queue_command for a cancel, with cancel_data_reset_prepare.  A prepare whose
\* token was consumed by a commit is still cancelled; the commit is not.
QueueCancel(p) ==
    /\ db.order[p].kind = "reset"
    /\ p \notin elapsed
    /\ db.cmd[Prepare(p)] \in {"queued", "delivered", "succeeded"}
    /\ db' = SetCommand(Redact(db, {p}), Prepare(p), "cancelled")
    /\ UNCHANGED <<form, elapsed, seen>>

\* Ten minutes after a prepare; they pass in the order of creation.
ExpiryPasses(p) ==
    /\ db.token[p] # "none"
    /\ p \notin elapsed
    /\ \A q \in Prepares : q < p => q \in elapsed
    /\ elapsed' = elapsed \cup {p}
    /\ UNCHANGED <<db, form, seen>>

\* Worker: run_jobs.
WorkerExpiresTokens ==
    /\ db' = ExpirePrepareTokens(db, elapsed)
    /\ UNCHANGED <<form, elapsed, seen>>

\* A heartbeat with at most one result of a destructive command: the result,
\* expiry and delivery.  The response may be lost.
Heartbeat(c, result, floor) ==
    LET e == ExpireCommands(ApplyResult(db, c, result, floor), elapsed)
    IN  /\ c \in seen \cup {NoResult}
        /\ result \in IF c = NoResult THEN {"none"} ELSE ResultStates
        /\ ResultAccepted(db, c, result, floor)
        /\ \E failed \in SUBSET Deliverable(e, elapsed) :
              \E sent \in SUBSET (Deliverable(e, elapsed) \ failed) :
                  /\ db' = DeliverCommands(e, failed, sent)
                  /\ seen' \in {seen, seen \cup sent}
        /\ UNCHANGED <<form, elapsed>>

\* Ingestion of readings raises maximum_sequence (ReadingIngestion).
ReadingsArrive ==
    /\ db.max < MaxSeq
    /\ db' = [db EXCEPT !.max = @ + 1]
    /\ UNCHANGED <<form, elapsed, seen>>

Next ==
    \/ \E kind \in {"format", "reset"} : ReadDevice(kind)
    \/ \E p \in Prepares : QueuePrepare(p)
    \/ \E p \in Prepares : RepeatPrepare(p)
    \/ \E p \in Prepares, i \in Copies : QueueCommit(p, i)
    \/ \E p \in Prepares : QueueCancel(p)
    \/ \E p \in Prepares : ExpiryPasses(p)
    \/ WorkerExpiresTokens
    \/ \E c \in Commands \cup {NoResult}, result \in ResultStates \cup {"none"},
          floor \in 0 .. MaxSeq : Heartbeat(c, result, floor)
    \/ ReadingsArrive

Spec == Init /\ [][Next]_vars

\* Time passes, and the worker runs its jobs every fifteen seconds.
Fairness ==
    /\ \A p \in Prepares : WF_vars(ExpiryPasses(p))
    /\ WF_vars(WorkerExpiresTokens)

FairSpec == Spec /\ Fairness

--------------------------------------------------------------------------------
(* Properties *)

\* Type invariant.
TypeOK ==
    /\ db \in Rows
    /\ form \in Forms
    /\ elapsed \subseteq Prepares
    /\ seen \subseteq Commands

CommitsOf(d, p) == {i \in Copies : d.cmd[Commit(p, i)] # "none"}

\* A confirmation is used once, however often the operator sends the commit and
\* with whatever idempotency keys: a prepare has one commit command at most.
ConfirmationUsedOnce == \A p \in Prepares : Cardinality(CommitsOf(db, p)) <= 1

\* No commit without readiness: whoever commits, the sensor had reported the
\* impact of that very prepare before the commit command came to exist.
CommitFollowsReadiness ==
    \A p \in Prepares : CommitsOf(db, p) # {} => db.ready[p] # NotReady

\* The data reset of prepare p was confirmed and carried out.
Completed(d, p) ==
    /\ d.order[p].kind = "reset"
    /\ \E i \in Copies : d.cmd[Commit(p, i)] = "succeeded"
CompletedTo(d, g) == {p \in Prepares : Completed(d, p) /\ d.order[p].gen = g}

\* Every generation the device is or was in is the outcome of exactly one
\* prepare that was confirmed and carried out: prepares made from a stale row
\* and completions reported twice or late never reset the device again.
GenerationsAccounted == \A g \in 1 .. db.gen : Cardinality(CompletedTo(db, g)) = 1

\* A reset never gives up readings the server accepted after the sensor named
\* its floor: maximum_sequence never moves back (as long as the sensor's
\* heartbeats do not overlap: ReadingIngestion shows what happens then).
MaximumNeverMovesBack == [][db'.max >= db.max]_vars

(* The inductive invariant, on any database d. *)

\* A commit exists for a consumed token and a ready sensor only, and once.
CommitsConfirmed(d) ==
    \A p \in Prepares : \A i \in Copies : d.cmd[Commit(p, i)] # "none" =>
        /\ d.token[p] = "gone"
        /\ d.ready[p] # NotReady
        /\ \A j \in Copies : d.cmd[Commit(p, j)] # "none" => i = j

SucceededIsReady(d) ==
    \A p \in Prepares : d.cmd[Prepare(p)] = "succeeded" => d.ready[p] # NotReady

\* Completed resets and generations correspond one to one.
ResetsCounted(d) ==
    /\ \A p \in Prepares : Completed(d, p) => d.order[p].gen \in 1 .. d.gen
    /\ \A p, q \in Prepares : Completed(d, p) /\ Completed(d, q)
                                 /\ d.order[p].gen = d.order[q].gen => p = q
    /\ \A g \in 1 .. d.gen : \E p \in Prepares : Completed(d, p) /\ d.order[p].gen = g

DBInv(d) ==
    /\ d \in Rows
    /\ CommitsConfirmed(d)
    /\ SucceededIsReady(d)
    /\ ResetsCounted(d)

IndInv ==
    /\ TypeOK
    /\ DBInv(db)
    /\ \A c \in seen : db.cmd[c] # "none"

\* "Remove replayable prepare secrets once their authoritative expiry passes":
\* every token is gone in the end, also one whose prepare failed on the way.
TokensVanish == \A p \in Prepares : db.token[p] = "live" ~> db.token[p] = "gone"
================================================================================
