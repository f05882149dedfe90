---------------------------- MODULE Firmware_proofs ----------------------------
(***************************************************************************)
(* Proofs about firmware deployments: BatchesSound, RolloutDisciplined,    *)
(* DecidedJobsStayDecided and HaltUndoneOnlyByDeadlinePass of module       *)
(* OtaRollout, for any number of batches, sensors and releases.            *)
(*                                                                         *)
(* None of them is inductive alone.  A staged rollout stays serial because *)
(* a job that ended has completed_at, so that a late result which revives  *)
(* it does not make a second fresh job; cancelled means undelivered        *)
(* because a staged job has no command and a queued command was not sent;  *)
(* a tombstone is final because deletion waits for the commands as well as *)
(* the jobs; and a failure stops its rollout because no job beside a       *)
(* failed one is staged.  RolloutInv says all of this of the rows, and of  *)
(* what sensors received.                                                  *)
(*                                                                         *)
(* A transaction is a chain of row transitions (a sensor request: result,  *)
(* identity, delivery), so the argument is about rows: LawfulStep says job *)
(* by job what a chain's link may do, LawfulStepKeeps that such a link     *)
(* keeps the invariant and what is decided, and one lemma for each link    *)
(* that it is lawful.  Deploying and filing, which are not links of a      *)
(* chain, have a lemma each.                                               *)
(***************************************************************************)
EXTENDS OtaRollout, FirmwareReleases, FiniteSetTheorems, WellFoundedInduction,
        TLAPS

\* The least of a set of natural numbers.
LEMMA LeastNatural ==
    ASSUME NEW T, T \subseteq Nat, T # {}
    PROVE  \E x \in T : \A y \in T : x <= y
<1>1. PICK x \in T : \A y \in T : ~ (<<y, x>> \in OpToRel(<, Nat))
  BY NatLessThanWellFounded, WFMin, Zenon
<1>2. \A y \in T : ~ (<<y, x>> \in {ss \in Nat \X Nat : ss[1] < ss[2]})
  BY <1>1, Zenon DEF OpToRel
<1>3. ASSUME NEW y \in T PROVE x <= y
  <2>1. x \in Nat /\ y \in Nat
    OBVIOUS
  <2>2. <<y, x>> \in Nat \X Nat /\ <<y, x>>[1] = y /\ <<y, x>>[2] = x
    BY <2>1
  <2>3. ~ (y < x)
    BY <1>2, <2>2
  <2>4. QED
    BY <2>1, <2>3
<1>4. QED
  BY <1>3

\* A staged job is promoted whenever there is one: OldestStaged is defined.
LEMMA OldestIsStaged ==
    ASSUME NEW r, NEW v, Staged(r, v) # {}
    PROVE  OldestStaged(r, v) \in Staged(r, v)
<1> DEFINE T == Staged(r, v)
<1>1. T \subseteq Jobs /\ T # {}
  BY DEF Staged
<1>2. \A x \in T : x[1] \in Nat /\ x[2] \in Nat /\ x = <<x[1], x[2]>>
  BY <1>1, RolloutAssumption DEF Jobs, Batches, Devices
<1> HIDE DEF T
<1>3. PICK b \in {x[1] : x \in T} : \A c \in {x[1] : x \in T} : b <= c
  BY <1>1, <1>2, LeastNatural, ZenonT(60)
<1> DEFINE D == {x[2] : x \in {y \in T : y[1] = b}}
<1>4. D \subseteq Nat /\ D # {}
  BY <1>2, <1>3
<1>5. PICK d \in D : \A e \in D : d <= e
  <2> HIDE DEF D
  <2> QED BY <1>4, LeastNatural
<1>6. PICK x \in T : x[1] = b /\ x[2] = d
  BY <1>5
<1>7. ASSUME NEW y \in T \ {x} PROVE Before(x, y)
  <2>1. b <= y[1] /\ b \in Nat /\ d \in Nat
    BY <1>2, <1>3, <1>6
  <2>2. CASE b < y[1]
    BY <1>6, <2>2 DEF Before
  <2>3. CASE b = y[1]
    <3>1. d <= y[2]
      BY <1>5, <2>3
    <3>2. d # y[2]
      BY <1>2, <1>6, <2>3
    <3>3. QED
      BY <1>2, <1>6, <2>1, <2>3, <3>1, <3>2 DEF Before
  <2>4. QED
    BY <1>2, <2>1, <2>2, <2>3
<1>8. QED
  BY <1>7 DEF OldestStaged, T

--------------------------------------------------------------------------------
(* The inductive invariant, on rows. *)

\* The states that stop a rollout.
Failures == {"failed", "rolled_back", "timed_out"}

\* What a job says of its command, its completion, its batch and its filing.
JobRowSound(r, x) ==
    /\ r.job[x] \in {"none", "staged"} => r.command[x] = "none" /\ x \notin r.completed
    /\ r.job[x] = "cancelled" => r.command[x] \in {"none", "cancelled"}
    /\ r.job[x] \in TERMINAL_JOB_STATES => x \in r.completed
    /\ r.job[x] # "none" => r.batch[x[1]] # "none"
    /\ r.file[x[1]] = "deleted" => /\ r.job[x] \in TERMINAL_JOB_STATES \cup {"none"}
                                   /\ r.command[x] \notin ACTIVE_COMMAND
\* Only batches that exist are archived or deleted.
FiledBatchExists(r) == \A b \in Batches : r.file[b] # "live" => r.batch[b] # "none"
\* No job is staged beside a failed one.
HaltKept(r) == \A x, y \in Jobs :
    x[1] = y[1] /\ r.job[x] \in Failures => r.job[y] # "staged"
\* An active job that never ended.
Fresh(r, x) == Active(r, x) /\ x \notin r.completed
\* The parts of RolloutDisciplined and BatchesSound, of rows.
Serial(r) == \A x, y \in Jobs :
    /\ NonStaged(r, x) /\ x \notin r.completed /\ r.rollout[x[1]] = "staged"
    /\ NonStaged(r, y) /\ y \notin r.completed /\ r.rollout[y[1]] = "staged"
    /\ ReleaseOf(r, x) = ReleaseOf(r, y)
    => x = y
OneEach(r) == \A x, y \in Jobs : Fresh(r, x) /\ Fresh(r, y) /\ x[2] = y[2] => x = y
Agrees(r) == \A b \in Batches : r.batch[b] = DerivedState(r, b)
\* The invariant of the rows.
RowsInv(r) ==
    /\ r \in RolloutRows
    /\ \A x \in Jobs : JobRowSound(r, x)
    /\ FiledBatchExists(r) /\ HaltKept(r) /\ Serial(r) /\ OneEach(r) /\ Agrees(r)
\* A command that reached its sensor was sent.
SeenSound(r, sn) == sn \subseteq Jobs /\ \A x \in sn : r.command[x] \notin {"none", "queued", "cancelled"}
\* The inductive invariant.
RolloutInv == RowsInv(w) /\ SeenSound(w, installs)

--------------------------------------------------------------------------------
(* What the transitions of rows change. *)

\* A batch's release, rollout and filing do not change.
SameFiling(r, s) ==
    s \in RolloutRows /\ s.release = r.release /\ s.rollout = r.rollout /\ s.file = r.file

\* What a terminal state for the jobs of S changes.
LEMMA TerminateFields ==
    ASSUME NEW r \in RolloutRows, NEW S \in SUBSET Jobs, NEW state \in TERMINAL_JOB_STATES
    PROVE  /\ SameFiling(r, Terminate(r, S, state))
           /\ Terminate(r, S, state).job = [x \in Jobs |-> IF x \in S THEN state ELSE r.job[x]]
           /\ Terminate(r, S, state).completed = r.completed \cup S
           /\ Terminate(r, S, state).command = r.command
           /\ Terminate(r, S, state).batch = r.batch
           /\ Terminate(r, S, state).identity = r.identity
<1>1. [x \in Jobs |-> IF x \in S THEN state ELSE r.job[x]] \in [Jobs -> JobStates]
  BY DEF RolloutRows, JobStates, TERMINAL_JOB_STATES
<1>2. QED
  BY <1>1 DEF Terminate, RolloutRows, SameFiling

\* What a state for the commands of S changes.
LEMMA SetCommandsFields ==
    ASSUME NEW r \in RolloutRows, NEW S \in SUBSET Jobs, NEW state \in InstallStates
    PROVE  /\ SameFiling(r, SetCommands(r, S, state))
           /\ SetCommands(r, S, state).command =
                 [x \in Jobs |-> IF x \in S THEN state ELSE r.command[x]]
           /\ SetCommands(r, S, state).job = r.job
           /\ SetCommands(r, S, state).completed = r.completed
           /\ SetCommands(r, S, state).batch = r.batch
           /\ SetCommands(r, S, state).identity = r.identity
<1>1. [x \in Jobs |-> IF x \in S THEN state ELSE r.command[x]] \in [Jobs -> InstallStates]
  BY DEF RolloutRows
<1>2. QED
  BY <1>1 DEF SetCommands, RolloutRows, SameFiling

\* What an active state for one job changes.
LEMMA EnterFields ==
    ASSUME NEW r \in RolloutRows, NEW x \in Jobs, NEW state \in ACTIVE_STATES
    PROVE  /\ SameFiling(r, Enter(r, x, state))
           /\ Enter(r, x, state).job = [r.job EXCEPT ![x] = state]
           /\ Enter(r, x, state).command = r.command
           /\ Enter(r, x, state).completed = r.completed
           /\ Enter(r, x, state).batch = r.batch
           /\ Enter(r, x, state).identity = r.identity
<1>1. [r.job EXCEPT ![x] = state] \in [Jobs -> JobStates]
  BY DEF RolloutRows, JobStates
<1>2. QED
  BY <1>1 DEF Enter, RolloutRows, SameFiling

\* The derived state is a state of batches.
LEMMA DerivedTyped ==
    ASSUME NEW r \in RolloutRows, NEW b \in Batches
    PROVE  DerivedState(r, b) \in BatchStates
BY DEF DerivedState, RolloutRows, BatchStates

\* A batch with an active job is in progress.
LEMMA DerivedActive ==
    ASSUME NEW r \in RolloutRows, NEW x \in Jobs, Active(r, x)
    PROVE  DerivedState(r, x[1]) = "in_progress"
<1>1. x \in JobsOf(r, x[1])
  BY DEF JobsOf, Active, ACTIVE_STATES, NONSTAGED_STATES
<1>2. QED
  BY <1>1 DEF DerivedState, Active

\* DerivedState is a matter of the batch's own jobs.
LEMMA DerivedSame ==
    ASSUME NEW r \in RolloutRows, NEW s \in RolloutRows, NEW b \in Batches,
           \A x \in Jobs : x[1] = b => s.job[x] = r.job[x], s.batch[b] = r.batch[b]
    PROVE  DerivedState(s, b) = DerivedState(r, b)
<1>1. JobsOf(s, b) = JobsOf(r, b)
  BY DEF JobsOf
<1>2. {s.job[x] : x \in JobsOf(s, b)} = {r.job[x] : x \in JobsOf(r, b)}
  BY <1>1 DEF JobsOf
<1>3. QED
  BY <1>2 DEF DerivedState

\* A batch with a job exists.
LEMMA DerivedExists ==
    ASSUME NEW r \in RolloutRows, NEW x \in Jobs, r.job[x] # "none"
    PROVE  DerivedState(r, x[1]) # "none"
<1>1. x \in JobsOf(r, x[1])
  BY DEF JobsOf
<1>2. QED
  BY <1>1 DEF DerivedState

\* Recalculation changes the stored states of the batches of S to the derived
\* ones, and derived states do not depend on stored ones where there are jobs.
LEMMA RecalculateFields ==
    ASSUME NEW r \in RolloutRows, NEW S \in SUBSET Jobs
    PROVE  /\ SameFiling(r, Recalculate(r, S))
           /\ Recalculate(r, S).job = r.job
           /\ Recalculate(r, S).command = r.command
           /\ Recalculate(r, S).completed = r.completed
           /\ Recalculate(r, S).identity = r.identity
           /\ \A b \in Batches :
                 /\ (\E x \in S : x[1] = b) =>
                       Recalculate(r, S).batch[b] = DerivedState(r, b)
                 /\ ~(\E x \in S : x[1] = b) => Recalculate(r, S).batch[b] = r.batch[b]
           /\ \A b \in Batches : DerivedState(Recalculate(r, S), b) = DerivedState(r, b)
<1> DEFINE batch == [b \in Batches |-> IF \E x \in S : x[1] = b
                                       THEN DerivedState(r, b) ELSE r.batch[b]]
           s == Recalculate(r, S)
<1>1. batch \in [Batches -> BatchStates]
  BY DerivedTyped DEF RolloutRows
<1>2. s = [r EXCEPT !.batch = batch]
  BY DEF Recalculate
<1>3. /\ SameFiling(r, s) /\ s.job = r.job /\ s.command = r.command
      /\ s.completed = r.completed /\ s.identity = r.identity /\ s.batch = batch
  <2> HIDE DEF batch, s
  <2> QED BY <1>1, <1>2 DEF RolloutRows, SameFiling
<1>4. ASSUME NEW b \in Batches PROVE DerivedState(s, b) = DerivedState(r, b)
  <2>1. JobsOf(s, b) = JobsOf(r, b)
    BY <1>3 DEF JobsOf
  <2>2. {s.job[x] : x \in JobsOf(s, b)} = {r.job[x] : x \in JobsOf(r, b)}
    BY <1>3, <2>1
  <2>3. CASE {r.job[x] : x \in JobsOf(r, b)} = {}
    <3>1. DerivedState(r, b) = r.batch[b]
      BY <2>3 DEF DerivedState
    <3>2. DerivedState(s, b) = s.batch[b]
      BY <2>2, <2>3 DEF DerivedState
    <3>3. QED
      BY <1>3, <3>1, <3>2
  <2>4. CASE {r.job[x] : x \in JobsOf(r, b)} # {}
    <3> HIDE DEF s, batch
    <3> QED BY <2>2, <2>4 DEF DerivedState
  <2>5. QED
    BY <2>3, <2>4
<1>5. QED
  BY <1>3, <1>4

\* What halting the staged jobs beside those of S changes.
LEMMA HaltFields ==
    ASSUME NEW r \in RolloutRows, NEW S \in SUBSET Jobs
    PROVE  /\ SameFiling(r, Halt(r, S))
           /\ Halt(r, S).job = [x \in Jobs |-> IF x \in Siblings(r, S) THEN "cancelled" ELSE r.job[x]]
           /\ Halt(r, S).completed = r.completed \cup Siblings(r, S)
           /\ Halt(r, S).command = r.command
           /\ Halt(r, S).batch = r.batch
           /\ Halt(r, S).identity = r.identity
BY TerminateFields DEF Halt, Siblings, TERMINAL_JOB_STATES

\* What the promotion of the jobs of S changes.
LEMMA PromoteFields ==
    ASSUME NEW r \in RolloutRows, NEW S \in SUBSET Jobs
    PROVE  /\ SameFiling(r, Promote(r, S))
           /\ Promote(r, S).job = [x \in Jobs |-> IF x \in S THEN "queued" ELSE r.job[x]]
           /\ Promote(r, S).command = [x \in Jobs |-> IF x \in S THEN "queued" ELSE r.command[x]]
           /\ Promote(r, S).completed = r.completed
           /\ Promote(r, S).batch = r.batch
           /\ Promote(r, S).identity = r.identity
<1> DEFINE job == [x \in Jobs |-> IF x \in S THEN "queued" ELSE r.job[x]]
           q == [r EXCEPT !.job = job]
<1>1. job \in [Jobs -> JobStates]
  BY DEF RolloutRows, JobStates, ACTIVE_STATES, NONSTAGED_STATES
<1>2. /\ q \in RolloutRows /\ q.job = job /\ q.command = r.command /\ q.completed = r.completed
      /\ q.batch = r.batch /\ q.release = r.release /\ q.rollout = r.rollout
      /\ q.file = r.file /\ q.identity = r.identity
  <2> HIDE DEF job
  <2> QED BY <1>1 DEF RolloutRows
<1>3. Promote(r, S) = SetCommands(q, S, "queued")
  BY DEF Promote
<1> HIDE DEF q
<1>4. "queued" \in InstallStates
  BY DEF InstallStates, ACTIVE_COMMAND
<1>5. QED
  BY <1>2, <1>3, <1>4, SetCommandsFields DEF SameFiling

\* Fail recalculates the rows q, in which the jobs of S ended and those of H,
\* staged beside them, are halted.
FailsThrough(r, S, state, q, H) ==
    /\ Fail(r, S, state) = Recalculate(q, S)
    /\ SameFiling(r, q) /\ q.command = r.command /\ q.batch = r.batch
    /\ q.identity = r.identity
    /\ H = {y \in Jobs \ S : r.job[y] = "staged" /\ \E x \in S : x[1] = y[1]}
    /\ q.job = [x \in Jobs |-> IF x \in S THEN state
                               ELSE IF x \in H THEN "cancelled" ELSE r.job[x]]
    /\ q.completed = r.completed \cup S \cup H

\* A failure ends the jobs of S, halts the staged jobs beside them and leaves
\* their batches as their jobs imply.
LEMMA FailFields ==
    ASSUME NEW r \in RolloutRows, NEW S \in SUBSET Jobs, NEW state \in TERMINAL_JOB_STATES
    PROVE  \E q \in RolloutRows, H \in SUBSET Jobs : FailsThrough(r, S, state, q, H)
<1> DEFINE t == Terminate(r, S, state)
           q == Halt(t, S)
           H == {y \in Jobs \ S : r.job[y] = "staged" /\ \E x \in S : x[1] = y[1]}
<1>1. /\ SameFiling(r, t) /\ t.job = [x \in Jobs |-> IF x \in S THEN state ELSE r.job[x]]
      /\ t.completed = r.completed \cup S /\ t.command = r.command
      /\ t.batch = r.batch /\ t.identity = r.identity
  BY TerminateFields
<1>2. Fail(r, S, state) = Recalculate(q, S)
  BY DEF Fail
<1> HIDE DEF t
<1>3. Siblings(t, S) = H
  BY <1>1 DEF Siblings, TERMINAL_JOB_STATES
<1>4. /\ SameFiling(t, q)
      /\ q.job = [x \in Jobs |-> IF x \in H THEN "cancelled" ELSE t.job[x]]
      /\ q.completed = t.completed \cup H /\ q.command = t.command
      /\ q.batch = t.batch /\ q.identity = t.identity
  BY <1>1, <1>3, HaltFields DEF SameFiling
<1> HIDE DEF q
<1>5. q.job = [x \in Jobs |-> IF x \in S THEN state
                              ELSE IF x \in H THEN "cancelled" ELSE r.job[x]]
  BY <1>1, <1>4
<1>6. q \in RolloutRows /\ H \in SUBSET Jobs /\ SameFiling(r, q) /\ q.command = r.command
      /\ q.batch = r.batch /\ q.identity = r.identity /\ q.completed = r.completed \cup S \cup H
  BY <1>1, <1>4 DEF SameFiling
<1>7. FailsThrough(r, S, state, q, H)
  BY <1>2, <1>5, <1>6 DEF FailsThrough
<1>8. QED
  BY <1>6, <1>7

--------------------------------------------------------------------------------
(* A step of the rows, job by job. *)

\* The job ended and so did its command.
Decided(r, x) == r.job[x] \in TERMINAL_JOB_STATES /\ r.command[x] \notin ACTIVE_COMMAND

\* Left alone, its command sent or ended perhaps.
Keeps(r, s, x) ==
    /\ s.job[x] = r.job[x]
    /\ x \in s.completed <=> x \in r.completed
    /\ \/ s.command[x] = r.command[x]
       \/ r.command[x] \in ACTIVE_COMMAND /\ s.command[x] \in {"delivered", "ended_by_server"}

\* Ended by its sensor, a confirmation, an expiry or a deadline.
Ends(r, s, x) ==
    /\ ~Decided(r, x) /\ r.job[x] \notin {"none", "cancelled"}
    /\ s.job[x] \in {"succeeded"} \cup Failures
    /\ x \in s.completed
    /\ \/ s.command[x] = r.command[x]
       \/ r.command[x] \in ACTIVE_COMMAND /\ s.command[x] \in InstallResults \cup {"ended_by_server"}

\* Halted while staged, or cancelled by the operator before delivery.
IsCancelled(r, s, x) ==
    /\ \/ r.job[x] = "staged" /\ s.command[x] = r.command[x]
       \/ r.job[x] = "queued" /\ r.command[x] = "queued" /\ s.command[x] = "cancelled"
    /\ s.job[x] = "cancelled"
    /\ x \in s.completed

IsPromoted(r, s, x) ==
    /\ r.job[x] = "staged" /\ s.job[x] = "queued"
    /\ s.command[x] = "queued"
    /\ x \notin s.completed

\* Moved among the active states, or revived, by a report.
Moves(r, s, x) ==
    /\ r.job[x] \notin {"none", "staged", "cancelled"}
    /\ s.job[x] \in NONSTAGED_STATES
    /\ x \in s.completed <=> x \in r.completed
    /\ r.command[x] \in ACTIVE_COMMAND
    /\ s.command[x] \in InstallResults \cup {r.command[x]}

JobStep(r, s, x) ==
    Keeps(r, s, x) \/ Ends(r, s, x) \/ IsCancelled(r, s, x) \/ IsPromoted(r, s, x) \/ Moves(r, s, x)

\* A failure leaves no job of its batch staged, and a promoted job is alone.
LawfulStep(r, s) ==
    /\ SameFiling(r, s)
    /\ \A x \in Jobs : JobStep(r, s, x)
    /\ \A x, y \in Jobs : x[1] = y[1] /\ s.job[x] \in Failures /\ s.job[x] # r.job[x]
                          => s.job[y] # "staged"
    /\ \A x, y \in Jobs : /\ IsPromoted(r, s, x) /\ NonStaged(s, y) /\ y \notin s.completed
                          /\ ReleaseOf(r, x) = ReleaseOf(r, y)
                          => x = y
    /\ Agrees(s)
    /\ \A b \in Batches : s.batch[b] = r.batch[b] \/ \E x \in Jobs : x[1] = b /\ s.job[x] # "none"

\* Lawful steps keep the invariant, and what is decided.
LEMMA LawfulStepKeeps ==
    ASSUME NEW r, NEW s, RowsInv(r), LawfulStep(r, s)
    PROVE  /\ RowsInv(s)
           /\ \A sn \in SUBSET Jobs : SeenSound(r, sn) => SeenSound(s, sn)
           /\ \A x \in Jobs : Decided(r, x) => Decided(s, x) /\ s.job[x] = r.job[x]
<1> USE DEF NONSTAGED_STATES, ACTIVE_STATES, TERMINAL_JOB_STATES, Failures, ACTIVE_COMMAND, InstallResults
<1>1. r \in RolloutRows /\ s \in RolloutRows /\ s.release = r.release /\ s.rollout = r.rollout /\ s.file = r.file
  BY DEF RowsInv, LawfulStep, SameFiling
<1>2. \A x \in Jobs : /\ JobStep(r, s, x) /\ JobRowSound(r, x)
                     /\ x[1] \in Batches /\ r.job[x] \in JobStates
  BY DEF RowsInv, LawfulStep, Jobs, RolloutRows
<1>3. \A x \in Jobs : Decided(r, x) => Decided(s, x) /\ s.job[x] = r.job[x]
  BY <1>2 DEF JobStep, JobRowSound, Keeps, Ends, IsCancelled, IsPromoted, Moves, Decided
<1>4. \A sn \in SUBSET Jobs : SeenSound(r, sn) => SeenSound(s, sn)
  BY <1>2 DEF SeenSound, JobStep, JobRowSound, Keeps, Ends, IsCancelled, IsPromoted, Moves, Decided
<1>5. \A x \in Jobs : Fresh(s, x) => Fresh(r, x)
  BY <1>2 DEF Fresh, Active, JobStates, JobStep, JobRowSound, Keeps, Ends, IsCancelled, IsPromoted, Moves
<1>6. OneEach(s)
  BY <1>5 DEF OneEach, RowsInv
<1>7. \A x \in Jobs : s.job[x] = "staged" => r.job[x] = "staged"
  BY <1>2 DEF JobStep, JobRowSound, Keeps, Ends, IsCancelled, IsPromoted, Moves
<1>8. HaltKept(s)
  BY <1>7 DEF HaltKept, RowsInv, LawfulStep
<1>9. \A x \in Jobs : NonStaged(s, x) /\ x \notin s.completed =>
                      IsPromoted(r, s, x) \/ (NonStaged(r, x) /\ x \notin r.completed)
  BY <1>2 DEF NonStaged, JobStates, JobStep, JobRowSound, Keeps, Ends, IsCancelled, IsPromoted, Moves
<1>10. Serial(s)
  <2> SUFFICES ASSUME NEW x \in Jobs, NEW y \in Jobs,
                      NonStaged(s, x), x \notin s.completed, s.rollout[x[1]] = "staged",
                      NonStaged(s, y), y \notin s.completed, s.rollout[y[1]] = "staged",
                      ReleaseOf(s, x) = ReleaseOf(s, y)
               PROVE  x = y
    BY DEF Serial
  <2>1. ReleaseOf(r, x) = ReleaseOf(r, y) /\ r.rollout[x[1]] = "staged" /\ r.rollout[y[1]] = "staged"
    BY <1>1 DEF ReleaseOf
  <2>2. CASE IsPromoted(r, s, x)
    BY <2>1, <2>2 DEF LawfulStep
  <2>3. CASE IsPromoted(r, s, y)
    BY <2>1, <2>3 DEF LawfulStep
  <2>4. CASE ~IsPromoted(r, s, x) /\ ~IsPromoted(r, s, y)
    BY <1>9, <2>1, <2>4 DEF RowsInv, Serial
  <2>5. QED
    BY <2>2, <2>3, <2>4
<1>11. \A x \in Jobs : s.job[x] # "none" => s.batch[x[1]] # "none"
  BY <1>1, <1>2, DerivedExists DEF LawfulStep, Agrees
<1>12. \A x \in Jobs : JobRowSound(s, x)
  <2> SUFFICES ASSUME NEW x \in Jobs PROVE JobRowSound(s, x)
    OBVIOUS
  <2>1. /\ s.job[x] \in {"none", "staged"} => s.command[x] = "none" /\ x \notin s.completed
        /\ s.job[x] = "cancelled" => s.command[x] \in {"none", "cancelled"}
        /\ s.job[x] \in TERMINAL_JOB_STATES => x \in s.completed
    BY <1>2 DEF JobStep, JobRowSound, Keeps, Ends, IsCancelled, IsPromoted, Moves
  <2>2. s.file[x[1]] = "deleted" => /\ s.job[x] \in TERMINAL_JOB_STATES \cup {"none"}
                                    /\ s.command[x] \notin ACTIVE_COMMAND
    BY <1>1, <1>2 DEF JobStep, JobRowSound, Keeps, Ends, IsCancelled, IsPromoted, Moves, Decided
  <2>3. QED
    BY <1>11, <2>1, <2>2 DEF JobRowSound
<1>13. FiledBatchExists(s)
  BY <1>1, <1>11 DEF FiledBatchExists, RowsInv, LawfulStep
<1>14. QED
  BY <1>1, <1>3, <1>4, <1>6, <1>8, <1>10, <1>12, <1>13 DEF RowsInv, LawfulStep

\* Outside the batches of S jobs were left alone or stayed active.
OnlyTouches(r, q, S) ==
    /\ \A x \in Jobs : \/ q.job[x] = r.job[x]
                       \/ \E y \in S : y[1] = x[1]
                       \/ Active(r, x) /\ Active(q, x)
    /\ \A x \in S : q.job[x] # "none"

\* Recalculating the batches of S is enough when elsewhere jobs were left alone
\* or stayed active.
LEMMA RecalculatedAgrees ==
    ASSUME NEW r, RowsInv(r), NEW q \in RolloutRows, q.batch = r.batch, NEW S \in SUBSET Jobs,
           OnlyTouches(r, q, S)
    PROVE  /\ Agrees(Recalculate(q, S))
           /\ \A b \in Batches : \/ Recalculate(q, S).batch[b] = r.batch[b]
                                 \/ \E x \in Jobs : x[1] = b /\ Recalculate(q, S).job[x] # "none"
<1> DEFINE s == Recalculate(q, S)
<1>1. /\ s \in RolloutRows /\ s.job = q.job
      /\ \A b \in Batches :
            /\ (\E x \in S : x[1] = b) => s.batch[b] = DerivedState(q, b)
            /\ ~(\E x \in S : x[1] = b) => s.batch[b] = q.batch[b]
      /\ \A b \in Batches : DerivedState(s, b) = DerivedState(q, b)
  BY RecalculateFields DEF SameFiling
<1> HIDE DEF s
<1>2. ASSUME NEW b \in Batches PROVE s.batch[b] = DerivedState(s, b)
  <2>1. CASE \E x \in S : x[1] = b
    BY <1>1, <2>1
  <2>2. CASE ~(\E x \in S : x[1] = b)
    <3>1. s.batch[b] = r.batch[b] /\ r.batch[b] = DerivedState(r, b) /\ r \in RolloutRows
      BY <1>1, <2>2 DEF RowsInv, Agrees
    <3>2. DerivedState(q, b) = DerivedState(r, b)
      <4>1. CASE \A x \in Jobs : x[1] = b => q.job[x] = r.job[x]
        BY <3>1, <4>1, DerivedSame
      <4>2. CASE \E x \in Jobs : x[1] = b /\ q.job[x] # r.job[x]
        <5>1. PICK x \in Jobs : x[1] = b /\ Active(r, x) /\ Active(q, x)
          BY <2>2, <4>2 DEF OnlyTouches
        <5>2. QED
          BY <3>1, <5>1, DerivedActive
      <4>3. QED
        BY <4>1, <4>2
    <3>3. QED
      BY <1>1, <3>1, <3>2
  <2>3. QED
    BY <2>1, <2>2
<1>3. \A b \in Batches : s.batch[b] = r.batch[b] \/ \E x \in Jobs : x[1] = b /\ s.job[x] # "none"
  BY <1>1 DEF OnlyTouches
<1>4. QED
  BY <1>2, <1>3 DEF Agrees, s

\* A step that keeps every job and batch is lawful.
LEMMA QuietLawful ==
    ASSUME NEW r, NEW s, RowsInv(r), SameFiling(r, s), s.batch = r.batch,
           \A x \in Jobs : Keeps(r, s, x)
    PROVE  LawfulStep(r, s)
<1>1. \A x \in Jobs : s.job[x] = r.job[x]
  BY DEF Keeps
<1>2. r \in RolloutRows /\ s \in RolloutRows
  BY DEF RowsInv, SameFiling
<1>3. Agrees(s)
  BY <1>1, <1>2, DerivedSame DEF Agrees, RowsInv
<1>4. QED
  BY <1>1, <1>3 DEF LawfulStep, JobStep, IsPromoted, RowsInv

\* The rows p differ from r in the commands of the jobs of S, none of them
\* decided, and in commands that were sent or ended.
MayFail(r, p, S) ==
    /\ SameFiling(r, p) /\ p.job = r.job /\ p.completed = r.completed /\ p.batch = r.batch
    /\ \A x \in Jobs \ S : \/ p.command[x] = r.command[x]
                           \/ /\ r.command[x] \in ACTIVE_COMMAND
                              /\ p.command[x] \in {"delivered", "ended_by_server"}
    /\ \A x \in S : /\ ~Decided(r, x) /\ r.job[x] \notin {"none", "cancelled"}
                    /\ \/ p.command[x] = r.command[x]
                       \/ /\ r.command[x] \in ACTIVE_COMMAND
                          /\ p.command[x] \in InstallResults \cup {"ended_by_server"}

\* A failure of the jobs of S, the states of commands set before it, is lawful.
LEMMA FailLawful ==
    ASSUME NEW r, RowsInv(r), NEW p, NEW S \in SUBSET Jobs, MayFail(r, p, S),
           NEW state \in Failures
    PROVE  /\ LawfulStep(r, Fail(p, S, state))
           /\ Fail(p, S, state).command = p.command
           /\ Fail(p, S, state).identity = p.identity
           /\ \A x \in S : Fail(p, S, state).job[x] = state
           /\ \A x \in Jobs \ S :
                 \/ Fail(p, S, state).job[x] = r.job[x]
                 \/ r.job[x] = "staged" /\ Fail(p, S, state).job[x] = "cancelled"
<1> DEFINE s == Fail(p, S, state)
<1>0. /\ SameFiling(r, p) /\ p.job = r.job /\ p.completed = r.completed /\ p.batch = r.batch
      /\ \A x \in Jobs \ S : \/ p.command[x] = r.command[x]
                             \/ /\ r.command[x] \in ACTIVE_COMMAND
                                /\ p.command[x] \in {"delivered", "ended_by_server"}
      /\ \A x \in S : /\ ~Decided(r, x) /\ r.job[x] \notin {"none", "cancelled"}
                      /\ \/ p.command[x] = r.command[x]
                         \/ /\ r.command[x] \in ACTIVE_COMMAND
                            /\ p.command[x] \in InstallResults \cup {"ended_by_server"}
  BY DEF MayFail
<1>1. p \in RolloutRows /\ state \in TERMINAL_JOB_STATES /\ r \in RolloutRows
  BY <1>0 DEF SameFiling, Failures, TERMINAL_JOB_STATES, RowsInv
<1>a. PICK q \in RolloutRows, H \in SUBSET Jobs : FailsThrough(p, S, state, q, H)
  BY <1>1, FailFields
<1>2.
              /\ Fail(p, S, state) = Recalculate(q, S)
              /\ SameFiling(p, q) /\ q.command = p.command /\ q.batch = p.batch
              /\ q.identity = p.identity
              /\ H = {y \in Jobs \ S : p.job[y] = "staged" /\ \E x \in S : x[1] = y[1]}
              /\ q.job = [x \in Jobs |-> IF x \in S THEN state
                                         ELSE IF x \in H THEN "cancelled" ELSE p.job[x]]
              /\ q.completed = p.completed \cup S \cup H
  BY <1>a DEF FailsThrough
<1>3. /\ SameFiling(q, s) /\ s.job = q.job /\ s.command = q.command
      /\ s.completed = q.completed /\ s.identity = q.identity
  BY <1>2, RecalculateFields
<1>4. SameFiling(r, s)
  BY <1>0, <1>2, <1>3 DEF SameFiling
<1>5. OnlyTouches(r, q, S)
  BY <1>0, <1>2 DEF Failures, OnlyTouches
<1>6. /\ Agrees(s)
      /\ \A b \in Batches : s.batch[b] = r.batch[b] \/ \E x \in Jobs : x[1] = b /\ s.job[x] # "none"
  BY <1>0, <1>2, <1>5, RecalculatedAgrees
<1> HIDE DEF s
<1>7. \A x \in S : Ends(r, s, x) /\ s.job[x] = state
  BY <1>0, <1>2, <1>3 DEF Ends
<1>8. \A x \in H : r.job[x] = "staged" /\ s.job[x] = "cancelled" /\ x \in s.completed
                   /\ s.command[x] = r.command[x]
  <2>1. \A x \in H : r.command[x] = "none"
    BY <1>0, <1>2 DEF RowsInv, JobRowSound
  <2>2. QED
    BY <1>0, <1>2, <1>3, <2>1 DEF ACTIVE_COMMAND
<1>9. \A x \in Jobs \ (S \cup H) : Keeps(r, s, x)
  BY <1>0, <1>2, <1>3 DEF Keeps
<1>10. \A x \in Jobs : JobStep(r, s, x)
  BY <1>7, <1>8, <1>9 DEF JobStep, IsCancelled
<1>11. \A x \in Jobs : ~IsPromoted(r, s, x)
  BY <1>7, <1>8, <1>9 DEF IsPromoted, Keeps, Failures
<1>12. ASSUME NEW x \in Jobs, NEW y \in Jobs, x[1] = y[1], s.job[x] \in Failures,
              s.job[x] # r.job[x]
       PROVE  s.job[y] # "staged"
  <2>1. x \in S
    BY <1>7, <1>8, <1>9, <1>12 DEF Keeps, Failures
  <2>2. QED
    BY <1>0, <1>2, <1>3, <1>7, <1>12, <2>1 DEF Failures
<1>13. LawfulStep(r, s)
  BY <1>4, <1>6, <1>10, <1>11, <1>12 DEF LawfulStep
<1>14. \A x \in Jobs \ S : s.job[x] = r.job[x] \/ (r.job[x] = "staged" /\ s.job[x] = "cancelled")
  BY <1>8, <1>9 DEF Keeps
<1>15. s.command = p.command /\ s.identity = p.identity
  BY <1>2, <1>3
<1>16. QED
  BY <1>7, <1>13, <1>14, <1>15 DEF s

\* The job of a command that still runs was promoted and is not decided.
LEMMA RunningJob ==
    ASSUME NEW r, RowsInv(r), NEW x \in Jobs, r.command[x] \in ACTIVE_COMMAND
    PROVE  r.job[x] \notin {"none", "staged", "cancelled"} /\ ~Decided(r, x)
BY DEF RowsInv, JobRowSound, ACTIVE_COMMAND, Decided

\* A sensor's result.
LEMMA ApplyResultLawful ==
    ASSUME NEW r, RowsInv(r), NEW x \in Jobs \cup {NoJob},
           NEW result \in InstallResults \cup {"none"}, (x = NoJob) <=> (result = "none")
    PROVE  /\ LawfulStep(r, ApplyInstallResult(r, x, result))
           /\ ApplyInstallResult(r, x, result).identity = r.identity
           /\ \A y \in Jobs : r.job[y] = "staged" => ApplyInstallResult(r, x, result).job[y] # "queued"
<1> DEFINE s == ApplyInstallResult(r, x, result)
           p == SetCommands(r, {x}, result)
<1>0. r \in RolloutRows
  BY DEF RowsInv
<1>1. CASE x = NoJob \/ r.command[x] \notin ACTIVE_COMMAND
  <2>1. s = r
    BY <1>1 DEF ApplyInstallResult
  <2>2. LawfulStep(r, r)
    BY <1>0, QuietLawful DEF SameFiling, Keeps
  <2>3. QED
    BY <2>1, <2>2
<1>2. CASE x # NoJob /\ r.command[x] \in ACTIVE_COMMAND
  <2>1. x \in Jobs /\ result \in InstallResults /\ result \in InstallStates
    BY <1>2 DEF InstallStates
  <2>2. r.job[x] \notin {"none", "staged", "cancelled"} /\ ~Decided(r, x)
    BY <1>2, <2>1, RunningJob
  <2>3. /\ SameFiling(r, p)
        /\ p.command = [y \in Jobs |-> IF y \in {x} THEN result ELSE r.command[y]]
        /\ p.job = r.job /\ p.completed = r.completed /\ p.batch = r.batch
        /\ p.identity = r.identity
    BY <1>0, <2>1, SetCommandsFields
  <2>4. CASE result \in {"failed", "rolled_back"}
    <3>1. s = Fail(p, {x}, result)
      BY <1>2, <2>4 DEF ApplyInstallResult
    <3> HIDE DEF s, p
    <3>2. result \in Failures /\ {x} \in SUBSET Jobs /\ MayFail(r, p, {x})
      BY <1>2, <2>1, <2>2, <2>3, <2>4 DEF Failures, MayFail
    <3>3. /\ LawfulStep(r, s) /\ s.identity = p.identity
          /\ s.job[x] = result
          /\ \A y \in Jobs \ {x} : \/ s.job[y] = r.job[y]
                                   \/ r.job[y] = "staged" /\ s.job[y] = "cancelled"
      BY <2>3, <3>1, <3>2, FailLawful
    <3>4. QED
      BY <2>3, <2>4, <3>3 DEF s
  <2>5. CASE result \notin {"failed", "rolled_back"}
    <3> DEFINE q == Enter(p, x, StageOf(result))
    <3>1. s = Recalculate(q, {x})
      BY <1>2, <2>5 DEF ApplyInstallResult
    <3>2. StageOf(result) \in {"downloading", "rebooting", "validating"}
      <4>1. CASE result = "running"
        BY <4>1 DEF StageOf
      <4>2. CASE result = "awaiting_reboot"
        BY <4>2 DEF StageOf
      <4>3. CASE result \in {"awaiting_heartbeat", "succeeded"}
        BY <4>3 DEF StageOf
      <4>4. QED
        BY <2>1, <2>5, <4>1, <4>2, <4>3 DEF InstallResults
    <3>3. /\ SameFiling(p, q) /\ q.job = [p.job EXCEPT ![x] = StageOf(result)]
          /\ q.command = p.command /\ q.completed = p.completed
          /\ q.batch = p.batch /\ q.identity = p.identity
      <4>1. p \in RolloutRows /\ StageOf(result) \in ACTIVE_STATES
        BY <2>3, <3>2 DEF SameFiling, ACTIVE_STATES, NONSTAGED_STATES
      <4> HIDE DEF p
      <4>2. QED
        BY <2>1, <4>1, EnterFields
    <3> HIDE DEF p, q
    <3>4. /\ SameFiling(q, s) /\ s.job = q.job /\ s.command = q.command
          /\ s.completed = q.completed /\ s.identity = q.identity
      BY <2>1, <3>1, <3>3, RecalculateFields DEF SameFiling
    <3>5. q \in RolloutRows /\ q.batch = r.batch /\ {x} \in SUBSET Jobs
          /\ q.job = [r.job EXCEPT ![x] = StageOf(result)] /\ r.job \in [Jobs -> JobStates]
      BY <1>0, <2>1, <2>3, <3>3 DEF SameFiling, RolloutRows
    <3> HIDE DEF s
    <3>6. /\ Agrees(s)
          /\ \A b \in Batches : s.batch[b] = r.batch[b] \/ \E y \in Jobs : y[1] = b /\ s.job[y] # "none"
      <4>1. OnlyTouches(r, q, {x})
        BY <2>1, <3>2, <3>5 DEF OnlyTouches
      <4>2. QED
        <5> DEFINE X == {x}
        <5>1. q \in RolloutRows /\ q.batch = r.batch /\ X \in SUBSET Jobs /\ OnlyTouches(r, q, X)
              /\ s = Recalculate(q, X)
          BY <3>1, <3>5, <4>1
        <5> HIDE DEF X
        <5>2. QED
          BY <5>1, RecalculatedAgrees
    <3>7. SameFiling(r, s) /\ s.identity = r.identity
      BY <2>3, <3>3, <3>4 DEF SameFiling
    <3>8. Moves(r, s, x)
      BY <1>2, <2>1, <2>2, <2>3, <3>2, <3>3, <3>4, <3>5 DEF Moves, NONSTAGED_STATES
    <3>9. \A y \in Jobs \ {x} : Keeps(r, s, y)
      BY <2>3, <3>3, <3>4, <3>5 DEF Keeps
    <3>10. s.job[x] \in {"downloading", "rebooting", "validating"}
      BY <2>1, <3>2, <3>4, <3>5
    <3>11. LawfulStep(r, s)
      <4>1. \A y \in Jobs : JobStep(r, s, y) /\ ~IsPromoted(r, s, y)
        BY <2>2, <3>8, <3>9 DEF JobStep, Keeps, IsPromoted
      <4>2. \A y \in Jobs : s.job[y] \in Failures => s.job[y] = r.job[y]
        BY <3>9, <3>10 DEF Keeps, Failures
      <4>3. QED
        BY <3>6, <3>7, <4>1, <4>2 DEF LawfulStep
    <3>12. QED
      BY <3>7, <3>9, <3>10, <3>11 DEF Keeps, s
  <2>6. QED
    BY <2>4, <2>5
<1>3. QED
  BY <1>1, <1>2

\* The commands of sensor d that a response ends, and those it carries.
Answers(r, d, ended, sent) ==
    ended \in SUBSET Waiting(r, d) /\ sent \in SUBSET (Waiting(r, d) \ ended)

\* The delivery loop.
LEMMA DeliverLawful ==
    ASSUME NEW r, RowsInv(r), NEW d, NEW ended, NEW sent, Answers(r, d, ended, sent)
    PROVE  /\ LawfulStep(r, DeliverInstalls(r, ended, sent))
           /\ \A x \in sent : DeliverInstalls(r, ended, sent).command[x] = "delivered"
           /\ \A x \in Jobs :
                 \/ DeliverInstalls(r, ended, sent).job[x] = r.job[x]
                 \/ r.job[x] = "staged" /\ DeliverInstalls(r, ended, sent).job[x] = "cancelled"
                 \/ /\ NonStaged(r, x)
                    /\ DeliverInstalls(r, ended, sent).job[x] = "failed"
<1> DEFINE p == SetCommands(r, ended, "ended_by_server")
           S == {x \in ended : Active(p, x)}
           q == Fail(p, S, "failed")
           s == DeliverInstalls(r, ended, sent)
<1>0. r \in RolloutRows /\ ended \in SUBSET Jobs /\ sent \in SUBSET Jobs
      /\ "ended_by_server" \in InstallStates /\ "delivered" \in InstallStates
  BY DEF RowsInv, Answers, Waiting, InstallStates, ACTIVE_COMMAND
<1>a. ended \in SUBSET Waiting(r, d) /\ sent \in SUBSET (Waiting(r, d) \ ended)
  BY DEF Answers
<1>1. /\ SameFiling(r, p)
      /\ p.command = [y \in Jobs |-> IF y \in ended THEN "ended_by_server" ELSE r.command[y]]
      /\ p.job = r.job /\ p.completed = r.completed /\ p.batch = r.batch
  BY <1>0, SetCommandsFields
<1>2. s = SetCommands(q, sent, "delivered")
  BY DEF DeliverInstalls, TerminalizeLinked
<1> HIDE DEF p
<1>3. \A x \in ended \cup sent : r.command[x] \in ACTIVE_COMMAND /\ x \in Jobs
  BY <1>a DEF Waiting, ACTIVE_COMMAND
<1>4. S \in SUBSET Jobs /\ \A x \in S : NonStaged(r, x)
  BY <1>0, <1>1, <1>3, RunningJob DEF Active, NonStaged, ACTIVE_STATES
<1> HIDE DEF S
<1>5. MayFail(r, p, S)
  BY <1>0, <1>1, <1>3, RunningJob DEF S, MayFail
<1>6. /\ LawfulStep(r, q) /\ q.command = p.command
      /\ \A x \in S : q.job[x] = "failed"
      /\ \A x \in Jobs \ S : q.job[x] = r.job[x] \/ (r.job[x] = "staged" /\ q.job[x] = "cancelled")
  <2>1. "failed" \in Failures
    BY DEF Failures
  <2>2. QED
    BY <1>1, <1>4, <1>5, <2>1, FailLawful
<1> HIDE DEF q
<1>7. q \in RolloutRows /\ SameFiling(r, q)
  BY <1>6 DEF LawfulStep, SameFiling
<1>8. /\ SameFiling(q, s) /\ s.job = q.job /\ s.completed = q.completed /\ s.batch = q.batch
      /\ s.command = [x \in Jobs |-> IF x \in sent THEN "delivered" ELSE q.command[x]]
  BY <1>0, <1>2, <1>7, SetCommandsFields
<1> HIDE DEF s
<1>9. \A x \in Jobs \ sent : s.command[x] = q.command[x]
  BY <1>8
<1>10. \A x \in sent : x \notin S /\ s.command[x] = "delivered" /\ q.command[x] = r.command[x]
                       /\ r.command[x] \in ACTIVE_COMMAND
  BY <1>0, <1>1, <1>3, <1>6, <1>8, <1>a DEF S
<1>11. \A x \in Jobs : JobStep(r, s, x)
  <2>1. ASSUME NEW x \in sent PROVE JobStep(r, s, x)
    <3>1. JobStep(r, q, x) /\ x \in Jobs /\ r.job[x] # "staged"
      BY <1>0, <1>3, <1>6, RunningJob DEF LawfulStep
    <3>2. q.job[x] = r.job[x] /\ s.job[x] = r.job[x]
      BY <1>6, <1>8, <1>10, <3>1
    <3>3. x \in s.completed <=> x \in r.completed
      BY <1>6, <1>8, <1>10, <3>1, <3>2 DEF JobStep, Keeps, Ends, IsCancelled, IsPromoted, Moves, RowsInv, JobRowSound, Failures, TERMINAL_JOB_STATES, Decided
    <3>4. QED
      BY <1>10, <3>2, <3>3 DEF JobStep, Keeps
  <2>2. ASSUME NEW x \in Jobs \ sent PROVE JobStep(r, s, x)
    BY <1>6, <1>8, <1>9, <2>2 DEF LawfulStep, JobStep, Keeps, Ends, IsCancelled, IsPromoted, Moves
  <2>3. QED
    BY <2>1, <2>2
<1>12. Agrees(s)
  BY <1>6, <1>7, <1>8, DerivedSame DEF Agrees, LawfulStep, SameFiling
<1>13. \A x \in Jobs : ~IsPromoted(r, s, x)
  BY <1>6, <1>8 DEF IsPromoted
<1>14. LawfulStep(r, s)
  BY <1>6, <1>7, <1>8, <1>11, <1>12, <1>13 DEF LawfulStep, SameFiling
<1>15. QED
  BY <1>4, <1>6, <1>8, <1>10, <1>14 DEF s

\* What becomes of a staged job in a lawful step.
LEMMA StagedFate ==
    ASSUME NEW r, NEW s, RowsInv(r), LawfulStep(r, s), NEW x \in Jobs, r.job[x] = "staged"
    PROVE  s.job[x] \in {"staged", "queued"} \/ Decided(s, x)
<1>1. JobStep(r, s, x) /\ r.command[x] = "none"
  BY DEF LawfulStep, RowsInv, JobRowSound
<1>2. QED
  BY <1>1 DEF JobStep, Keeps, Ends, IsCancelled, IsPromoted, Moves, Decided, Failures, TERMINAL_JOB_STATES, ACTIVE_COMMAND

\* The rows s differ from r in the promotion of the jobs of P: one staged job
\* of a release that is not busy, or none.
AdvancesBy(r, s, P) ==
    /\ SameFiling(r, s)
    /\ s.job = [x \in Jobs |-> IF x \in P THEN "queued" ELSE r.job[x]]
    /\ s.command = [x \in Jobs |-> IF x \in P THEN "queued" ELSE r.command[x]]
    /\ s.completed = r.completed /\ s.batch = r.batch
    /\ \A x \in P : /\ r.job[x] = "staged"
                    /\ \A y \in P : x = y
                    /\ \A y \in Jobs : ReleaseOf(r, y) = ReleaseOf(r, x) => ~NonStaged(r, y)

\* advance_next_staged_firmware_deployment promotes the oldest staged job, or none.
LEMMA AdvanceFields ==
    ASSUME NEW r \in RolloutRows, NEW v
    PROVE  \E P \in SUBSET Jobs : AdvancesBy(r, AdvanceNext(r, v), P)
<1>1. CASE ~Promotable(r, v)
  <2>1. AdvanceNext(r, v) = r
    BY <1>1 DEF AdvanceNext
  <2>2. r.job \in [Jobs -> JobStates] /\ r.command \in [Jobs -> InstallStates]
    BY DEF RolloutRows
  <2>3. AdvancesBy(r, r, {})
    BY <2>2 DEF SameFiling, AdvancesBy
  <2>4. QED
    BY <2>1, <2>3
<1>2. CASE Promotable(r, v)
  <2> DEFINE p == OldestStaged(r, v)
  <2>1. p \in Jobs /\ r.job[p] = "staged" /\ ReleaseOf(r, p) = v
    BY <1>2, OldestIsStaged DEF Promotable, Staged
  <2>2. AdvanceNext(r, v) = Promote(r, {p})
    BY <1>2 DEF AdvanceNext
  <2> HIDE DEF p
  <2>3. \A y \in Jobs : ReleaseOf(r, y) = ReleaseOf(r, p) => ~NonStaged(r, y)
    BY <1>2, <2>1 DEF Promotable, ReleaseBusy
  <2>5. /\ SameFiling(r, Promote(r, {p}))
        /\ Promote(r, {p}).job = [x \in Jobs |-> IF x \in {p} THEN "queued" ELSE r.job[x]]
        /\ Promote(r, {p}).command = [x \in Jobs |-> IF x \in {p} THEN "queued" ELSE r.command[x]]
        /\ Promote(r, {p}).completed = r.completed
        /\ Promote(r, {p}).batch = r.batch
    BY <2>1, PromoteFields
  <2>6. AdvancesBy(r, Promote(r, {p}), {p})
    BY <2>1, <2>3, <2>5 DEF AdvancesBy
  <2>7. {p} \in SUBSET Jobs
    BY <2>1
  <2>8. QED
    BY <2>2, <2>6, <2>7
<1>3. QED
  BY <1>1, <1>2

\* Nothing failed in the batch of a promoted job, which is alone past staging there.
CleanPromotion(r, s) ==
    \A x, y \in Jobs : r.job[x] = "staged" /\ s.job[x] = "queued" /\ y[1] = x[1] =>
        s.job[y] \notin Failures /\ (NonStaged(s, y) => y = x)

\* The worker's promotion.
LEMMA AdvanceLawful ==
    ASSUME NEW r, RowsInv(r), NEW v
    PROVE  LawfulStep(r, AdvanceNext(r, v)) /\ CleanPromotion(r, AdvanceNext(r, v))
<1> DEFINE s == AdvanceNext(r, v)
<1>0. r \in RolloutRows
  BY DEF RowsInv
<1>a. PICK P \in SUBSET Jobs : AdvancesBy(r, s, P)
  BY <1>0, AdvanceFields
<1>1.      /\ s \in RolloutRows /\ SameFiling(r, s)
           /\ s.job = [x \in Jobs |-> IF x \in P THEN "queued" ELSE r.job[x]]
           /\ s.command = [x \in Jobs |-> IF x \in P THEN "queued" ELSE r.command[x]]
           /\ s.completed = r.completed /\ s.batch = r.batch
           /\ \A x \in P : /\ r.job[x] = "staged"
                           /\ \A y \in P : x = y
                           /\ \A y \in Jobs : ReleaseOf(r, y) = ReleaseOf(r, x) => ~NonStaged(r, y)
  BY <1>a DEF AdvancesBy, SameFiling
<1> HIDE DEF s
<1>2. \A x \in P : IsPromoted(r, s, x)
  BY <1>1 DEF IsPromoted, RowsInv, JobRowSound
<1>3. \A x \in Jobs \ P : Keeps(r, s, x)
  BY <1>1 DEF Keeps
<1>4. Agrees(s)
  <2> SUFFICES ASSUME NEW b \in Batches PROVE s.batch[b] = DerivedState(s, b)
    BY DEF Agrees
  <2>1. r.batch[b] = DerivedState(r, b)
    BY DEF RowsInv, Agrees
  <2>2. CASE \E x \in P : x[1] = b
    BY <1>0, <1>1, <2>1, <2>2, DerivedActive DEF Active, ACTIVE_STATES, NONSTAGED_STATES
  <2>3. CASE ~(\E x \in P : x[1] = b)
    BY <1>0, <1>1, <2>1, <2>3, DerivedSame
  <2>4. QED
    BY <2>2, <2>3
<1>5. \A x \in Jobs : IsPromoted(r, s, x) => x \in P
  BY <1>3 DEF IsPromoted, Keeps
<1>6. \A x, y \in Jobs : x \in P /\ NonStaged(s, y) /\ ReleaseOf(r, x) = ReleaseOf(r, y) => x = y
  BY <1>1 DEF NonStaged
<1>7. \A x \in Jobs : s.job[x] \in Failures => s.job[x] = r.job[x]
  BY <1>1 DEF Failures
<1>8. LawfulStep(r, s)
  BY <1>1, <1>2, <1>3, <1>4, <1>5, <1>6, <1>7 DEF LawfulStep, JobStep
<1>9. CleanPromotion(r, s)
  <2> SUFFICES ASSUME NEW x \in Jobs, NEW y \in Jobs, r.job[x] = "staged", s.job[x] = "queued",
                      y[1] = x[1]
               PROVE  s.job[y] \notin Failures /\ (NonStaged(s, y) => y = x)
    BY DEF CleanPromotion
  <2>1. x \in P /\ ReleaseOf(r, x) = ReleaseOf(r, y)
    BY <1>3 DEF Keeps, ReleaseOf
  <2>2. s.job[y] \notin Failures
    BY <1>7 DEF RowsInv, HaltKept
  <2>3. QED
    BY <1>6, <2>1, <2>2
<1>10. QED
  BY <1>8, <1>9 DEF s

\* A reported identity.
LEMMA IdentityLawful ==
    ASSUME NEW r, RowsInv(r), NEW d, NEW id
    PROVE  /\ LawfulStep(r, ReconcileIdentity(r, d, id))
           /\ CleanPromotion(r, ReconcileIdentity(r, d, id))
<1> DEFINE V == {x \in Jobs : x[2] = d /\ r.job[x] = "validating"}
           good == {x \in V : Confirms(r, x, id)}
           bad == V \ good
           f == Terminate(r, bad, "failed")
           h == Halt(f, bad)
           H == {y \in Jobs : r.job[y] = "staged" /\ \E x \in bad : x[1] = y[1]}
           done == Terminate(h, good, "succeeded")
           e == IF good = {} THEN done ELSE AdvanceNext(done, id.version)
           s == ReconcileIdentity(r, d, id)
<1>0. /\ r \in RolloutRows /\ r.job \in [Jobs -> JobStates] /\ V \in SUBSET Jobs
      /\ good \in SUBSET Jobs /\ bad \in SUBSET Jobs /\ H \in SUBSET Jobs
      /\ "failed" \in TERMINAL_JOB_STATES /\ "succeeded" \in TERMINAL_JOB_STATES
  BY DEF RowsInv, RolloutRows, TERMINAL_JOB_STATES
<1>1. s = Recalculate(e, V)
  BY DEF ReconcileIdentity
<1>2. /\ V = good \cup bad /\ good \cap bad = {} /\ \A x \in V : r.job[x] = "validating"
      /\ V \cap H = {}
  OBVIOUS
<1>3. \A y \in Jobs : y \in H <=> r.job[y] = "staged" /\ \E x \in bad : x[1] = y[1]
  OBVIOUS
<1> HIDE DEF V, good, bad, H, s
<1>4. /\ SameFiling(r, f) /\ f.job = [x \in Jobs |-> IF x \in bad THEN "failed" ELSE r.job[x]]
      /\ f.completed = r.completed \cup bad /\ f.command = r.command /\ f.batch = r.batch
  BY <1>0, TerminateFields, SMTT(30)
<1> HIDE DEF f
<1>5. Siblings(f, bad) = H
  BY <1>0, <1>2, <1>3, <1>4 DEF Siblings
<1>6. /\ SameFiling(f, h) /\ h.job = [x \in Jobs |-> IF x \in H THEN "cancelled" ELSE f.job[x]]
      /\ h.completed = f.completed \cup H /\ h.command = f.command /\ h.batch = f.batch
  BY <1>0, <1>4, <1>5, HaltFields DEF SameFiling
<1> HIDE DEF h
<1>7. /\ SameFiling(h, done)
      /\ done.job = [x \in Jobs |-> IF x \in good THEN "succeeded" ELSE h.job[x]]
      /\ done.completed = h.completed \cup good /\ done.command = h.command
      /\ done.batch = h.batch
  <2>1. h \in RolloutRows /\ good \in SUBSET Jobs /\ "succeeded" \in TERMINAL_JOB_STATES
    BY <1>0, <1>6 DEF SameFiling
  <2>2. QED
    BY <2>1, TerminateFields
<1> HIDE DEF done
<1>8. /\ done \in RolloutRows /\ SameFiling(r, done)
      /\ done.command = r.command /\ done.batch = r.batch
      /\ done.completed = r.completed \cup V \cup H
      /\ \A x \in good : done.job[x] = "succeeded"
      /\ \A x \in bad : done.job[x] = "failed"
      /\ \A x \in H : done.job[x] = "cancelled"
      /\ \A x \in Jobs \ (V \cup H) : done.job[x] = r.job[x]
  BY <1>0, <1>2, <1>4, <1>6, <1>7 DEF SameFiling
<1>9. PICK P \in SUBSET Jobs : AdvancesBy(done, e, P)
  <2>1. CASE good = {}
    <3>1. AdvancesBy(done, done, {})
      BY <1>8 DEF AdvancesBy, SameFiling, RolloutRows
    <3>2. QED
      BY <2>1, <3>1
  <2>2. CASE good # {}
    BY <1>8, <2>2, AdvanceFields
  <2>3. QED
    BY <2>1, <2>2
<1> HIDE DEF e
<1>10. /\ SameFiling(done, e)
       /\ \A x \in P : e.job[x] = "queued" /\ e.command[x] = "queued"
       /\ \A x \in Jobs \ P : e.job[x] = done.job[x] /\ e.command[x] = done.command[x]
       /\ e.completed = done.completed /\ e.batch = done.batch
       /\ \A x \in P : /\ done.job[x] = "staged"
                       /\ \A y \in P : x = y
                       /\ \A y \in Jobs : ReleaseOf(done, y) = ReleaseOf(done, x) => ~NonStaged(done, y)
  BY <1>9 DEF AdvancesBy
<1>11. \A x \in P : x \notin V /\ x \notin H /\ r.job[x] = "staged"
  BY <1>2, <1>8, <1>10
<1>12. OnlyTouches(r, e, V)
  <2>1. \A x \in V : e.job[x] # "none"
    BY <1>0, <1>2, <1>8, <1>10, <1>11
  <2>2. \A x \in H : \E y \in V : y[1] = x[1]
    BY <1>0, <1>2, <1>3
  <2>3. \A x \in P : Active(r, x) /\ Active(e, x)
    BY <1>10, <1>11 DEF Active, ACTIVE_STATES, NONSTAGED_STATES
  <2>4. \A x \in Jobs \ (V \cup H \cup P) : e.job[x] = r.job[x]
    BY <1>8, <1>10
  <2>5. QED
    BY <2>1, <2>2, <2>3, <2>4 DEF OnlyTouches
<1>13. e \in RolloutRows /\ e.batch = r.batch
  BY <1>8, <1>10 DEF SameFiling
<1>14. /\ SameFiling(e, s) /\ s.job = e.job /\ s.command = e.command /\ s.completed = e.completed
  BY <1>0, <1>1, <1>13, RecalculateFields
<1>15. /\ Agrees(s)
       /\ \A b \in Batches : s.batch[b] = r.batch[b] \/ \E x \in Jobs : x[1] = b /\ s.job[x] # "none"
  BY <1>0, <1>1, <1>12, <1>13, RecalculatedAgrees
<1>16. \A x \in V : Ends(r, s, x)
  BY <1>0, <1>2, <1>8, <1>10, <1>11, <1>14 DEF Ends, Decided, TERMINAL_JOB_STATES, Failures
<1>17. \A x \in H : IsCancelled(r, s, x)
  BY <1>0, <1>3, <1>8, <1>10, <1>11, <1>14 DEF IsCancelled
<1>18. \A x \in P : IsPromoted(r, s, x)
  BY <1>8, <1>10, <1>11, <1>14 DEF IsPromoted, RowsInv, JobRowSound
<1>19. \A x \in Jobs \ (V \cup H \cup P) : Keeps(r, s, x)
  BY <1>8, <1>10, <1>14 DEF Keeps
<1>20. \A x \in Jobs : s.job[x] = "queued" /\ r.job[x] = "staged" => x \in P
  BY <1>0, <1>2, <1>8, <1>10, <1>11, <1>14
<1>21. \A x, y \in Jobs : x \in P /\ NonStaged(s, y) /\ ReleaseOf(r, x) = ReleaseOf(r, y) => x = y
  <2>1. r.release = done.release
    BY <1>8 DEF SameFiling
  <2>2. QED
    BY <1>10, <1>14, <2>1 DEF NonStaged, ReleaseOf
<1>22. \A x, y \in Jobs : x[1] = y[1] /\ s.job[x] \in Failures /\ s.job[x] # r.job[x] => s.job[y] # "staged"
  <2> SUFFICES ASSUME NEW x \in Jobs, NEW y \in Jobs, x[1] = y[1],
                      s.job[x] \in Failures, s.job[x] # r.job[x], s.job[y] = "staged"
               PROVE  FALSE
    OBVIOUS
  <2>1. x \in bad
    BY <1>2, <1>8, <1>10, <1>11, <1>14, <1>19 DEF Failures, Keeps
  <2>2. y \notin V /\ y \notin H /\ y \notin P
    BY <1>0, <1>2, <1>8, <1>10, <1>11, <1>14
  <2>3. r.job[y] = "staged"
    BY <1>19, <2>2 DEF Keeps
  <2>4. QED
    BY <1>3, <2>1, <2>2, <2>3
<1>23. LawfulStep(r, s)
  <2>1. \A x \in Jobs : JobStep(r, s, x)
    BY <1>16, <1>17, <1>18, <1>19 DEF JobStep
  <2>2. SameFiling(r, s)
    BY <1>8, <1>10, <1>14 DEF SameFiling
  <2>3. \A x \in Jobs : IsPromoted(r, s, x) => x \in P
    BY <1>20 DEF IsPromoted
  <2>4. QED
    BY <1>15, <1>21, <1>22, <2>1, <2>2, <2>3 DEF LawfulStep
<1>24. CleanPromotion(r, s)
  <2> SUFFICES ASSUME NEW x \in Jobs, NEW y \in Jobs, r.job[x] = "staged", s.job[x] = "queued",
                      y[1] = x[1]
               PROVE  s.job[y] \notin Failures /\ (NonStaged(s, y) => y = x)
    BY DEF CleanPromotion
  <2>1. x \in P /\ ReleaseOf(r, x) = ReleaseOf(r, y)
    BY <1>20 DEF ReleaseOf
  <2>2. y \notin bad
    BY <1>3, <1>11, <2>1
  <2>3. r.job[y] \notin Failures
    BY DEF RowsInv, HaltKept
  <2>4. s.job[y] \notin Failures
    BY <1>2, <1>8, <1>10, <1>11, <1>14, <2>2, <2>3 DEF Failures
  <2>5. QED
    BY <1>21, <2>1, <2>4
<1>25. QED
  BY <1>23, <1>24 DEF s

\* The operator's cancellation.
LEMMA CancelLawful ==
    ASSUME RowsInv(w), NEW b \in Batches, CancelBatch(b)
    PROVE  LawfulStep(w, w') /\ \A x \in Jobs : w.job[x] = "staged" => w'.job[x] # "queued"
<1> DEFINE W == WaitingOf(b)
           Q == QueuedOf(b)
           t == Terminate(w, W, "cancelled")
           q == SetCommands(t, Q, "cancelled")
<1>0. /\ w \in RolloutRows /\ w.job \in [Jobs -> JobStates] /\ W \in SUBSET Jobs /\ Q \in SUBSET Jobs
      /\ "cancelled" \in TERMINAL_JOB_STATES /\ "cancelled" \in InstallStates
  BY DEF RowsInv, RolloutRows, TERMINAL_JOB_STATES, InstallStates, WaitingOf, QueuedOf, JobsOf
<1>1. /\ w' = Recalculate(q, W) /\ \A x \in Q : w.command[x] = "queued"
      /\ Q \subseteq W /\ \A x \in W : w.job[x] = "staged" \/ (w.job[x] = "queued" /\ x \in Q)
      /\ \A x \in Q : w.job[x] = "queued"
  BY DEF CancelBatch, Cancellable, WaitingOf, QueuedOf, WAITING_STATES
<1> HIDE DEF W, Q
<1>2. /\ SameFiling(w, t) /\ t.job = [x \in Jobs |-> IF x \in W THEN "cancelled" ELSE w.job[x]]
      /\ t.completed = w.completed \cup W /\ t.command = w.command /\ t.batch = w.batch
  <2>1. w \in RolloutRows /\ W \in SUBSET Jobs /\ "cancelled" \in TERMINAL_JOB_STATES
    BY <1>0
  <2>2. QED
    BY <2>1, TerminateFields
<1> HIDE DEF t
<1>3. /\ SameFiling(t, q) /\ q.job = t.job /\ q.completed = t.completed /\ q.batch = t.batch
      /\ q.command = [x \in Jobs |-> IF x \in Q THEN "cancelled" ELSE t.command[x]]
  BY <1>0, <1>2, SetCommandsFields DEF SameFiling
<1> HIDE DEF q
<1>4. q \in RolloutRows /\ q.batch = w.batch /\ OnlyTouches(w, q, W) /\ SameFiling(w, q)
  BY <1>0, <1>2, <1>3 DEF SameFiling, OnlyTouches
<1>5. /\ SameFiling(q, w') /\ w'.job = q.job /\ w'.command = q.command /\ w'.completed = q.completed
  BY <1>0, <1>1, <1>4, RecalculateFields
<1>6. /\ Agrees(w')
      /\ \A c \in Batches : w'.batch[c] = w.batch[c] \/ \E x \in Jobs : x[1] = c /\ w'.job[x] # "none"
  BY <1>0, <1>1, <1>4, RecalculatedAgrees
<1>7. \A x \in W : IsCancelled(w, w', x)
  BY <1>0, <1>1, <1>2, <1>3, <1>5 DEF IsCancelled
<1>8. \A x \in Jobs \ W : Keeps(w, w', x)
  BY <1>0, <1>1, <1>2, <1>3, <1>5 DEF Keeps
<1>9. /\ \A x \in Jobs : JobStep(w, w', x) /\ ~IsPromoted(w, w', x)
      /\ \A x \in Jobs : w'.job[x] \in Failures => w'.job[x] = w.job[x]
      /\ \A x \in Jobs : w.job[x] = "staged" => w'.job[x] # "queued"
  BY <1>7, <1>8 DEF JobStep, IsPromoted, IsCancelled, Keeps, Failures
<1>10. SameFiling(w, w')
  BY <1>4, <1>5 DEF SameFiling
<1>11. QED
  BY <1>6, <1>9, <1>10 DEF LawfulStep

\* The download of the image.
LEMMA DownloadLawful ==
    ASSUME RowsInv(w), NEW x \in Jobs, DownloadFirmware(x)
    PROVE  LawfulStep(w, w') /\ \A y \in Jobs : w.job[y] = "staged" => w'.job[y] # "queued"
<1>0. w \in RolloutRows /\ w.job \in [Jobs -> JobStates] /\ "downloading" \in ACTIVE_STATES
  BY DEF RowsInv, RolloutRows, ACTIVE_STATES, NONSTAGED_STATES
<1>1. w.job[x] \in {"queued", "downloading"} /\ w.command[x] \in ACTIVE_COMMAND
      /\ w' = Enter(w, x, "downloading")
  BY DEF DownloadFirmware
<1>2. /\ SameFiling(w, w') /\ w'.job = [w.job EXCEPT ![x] = "downloading"]
      /\ w'.command = w.command /\ w'.completed = w.completed /\ w'.batch = w.batch
  BY <1>0, <1>1, EnterFields
<1>3. Moves(w, w', x) /\ w'.job[x] = "downloading"
  BY <1>0, <1>1, <1>2 DEF Moves, NONSTAGED_STATES
<1>4. \A y \in Jobs \ {x} : Keeps(w, w', y)
  BY <1>0, <1>2 DEF Keeps
<1>5. Agrees(w')
  <2> SUFFICES ASSUME NEW b \in Batches PROVE w'.batch[b] = DerivedState(w', b)
    BY DEF Agrees
  <2>1. w.batch[b] = DerivedState(w, b) /\ w' \in RolloutRows
    BY <1>2 DEF RowsInv, Agrees, SameFiling
  <2>2. CASE x[1] = b
    <3>1. Active(w, x) /\ Active(w', x)
      BY <1>1, <1>3 DEF Active, ACTIVE_STATES, NONSTAGED_STATES
    <3>2. QED
      BY <1>0, <1>2, <2>1, <2>2, <3>1, DerivedActive
  <2>3. CASE x[1] # b
    BY <1>0, <1>2, <1>4, <2>1, <2>3, DerivedSame DEF Keeps
  <2>4. QED
    BY <2>2, <2>3
<1>6. /\ \A y \in Jobs : JobStep(w, w', y) /\ ~IsPromoted(w, w', y)
      /\ \A y \in Jobs : w'.job[y] \in Failures => w'.job[y] = w.job[y]
      /\ \A y \in Jobs : w.job[y] = "staged" => w'.job[y] # "queued"
  BY <1>3, <1>4 DEF JobStep, IsPromoted, Keeps, Failures
<1>7. QED
  BY <1>2, <1>5, <1>6 DEF LawfulStep

\* A job promoted beside a failed one, in the step that timed that one out.
PromotedPastTimeout(r, s) ==
    \A x, y \in Jobs : r.job[x] = "staged" /\ s.job[x] = "queued" /\ y[1] = x[1]
                       /\ s.job[y] \in Failures
                       => Active(r, y) /\ s.job[y] = "timed_out"

\* The rows e that the deadline pass recalculates: the jobs of T timed out,
\* those of H halted, those of P promoted, each alone in its release.
StaleThrough(r, e, T, H, P) ==
    /\ e \in RolloutRows /\ SameFiling(r, e) /\ e.batch = r.batch
    /\ T \in SUBSET Jobs /\ H \in SUBSET Jobs /\ P \in SUBSET Jobs
    /\ T \cap H = {} /\ T \cap P = {} /\ H \cap P = {}
    /\ \A x \in Jobs \ T : r.job[x] = "staged" /\ (\E y \in T : y[1] = x[1]) <=>
                           x \in H \/ (x \in P /\ \E y \in T : y[1] = x[1])
    /\ \A x \in T : /\ Active(r, x) /\ e.job[x] = "timed_out" /\ x \in e.completed
                    /\ \/ e.command[x] = r.command[x]
                       \/ r.command[x] \in ACTIVE_COMMAND /\ e.command[x] = "ended_by_server"
    /\ \A x \in H : e.job[x] = "cancelled" /\ x \in e.completed /\ e.command[x] = r.command[x]
    /\ \A x \in P : /\ r.job[x] = "staged" /\ e.job[x] = "queued" /\ e.command[x] = "queued"
                    /\ x \notin e.completed
                    /\ \A y \in P : ReleaseOf(r, y) = ReleaseOf(r, x) => y = x
                    /\ \A y \in Jobs \ T : ReleaseOf(r, y) = ReleaseOf(r, x) => ~NonStaged(r, y)
    /\ \A x \in Jobs \ (T \cup H \cup P) :
          /\ e.job[x] = r.job[x] /\ e.command[x] = r.command[x]
          /\ x \in e.completed <=> x \in r.completed

\* Whatever such rows are, recalculating the batches of T is a lawful step.
LEMMA StaleLawful ==
    ASSUME NEW r, RowsInv(r), NEW e, NEW T, NEW H, NEW P, StaleThrough(r, e, T, H, P)
    PROVE  LawfulStep(r, Recalculate(e, T)) /\ PromotedPastTimeout(r, Recalculate(e, T))
<1> DEFINE s == Recalculate(e, T)
<1>0. r \in RolloutRows /\ e \in RolloutRows /\ T \in SUBSET Jobs /\ e.batch = r.batch /\ SameFiling(r, e)
  BY DEF RowsInv, StaleThrough
<1>1. /\ SameFiling(e, s) /\ s.job = e.job /\ s.command = e.command /\ s.completed = e.completed
  BY <1>0, RecalculateFields
<1>2. OnlyTouches(r, e, T)
  <2>1. \A x \in T : e.job[x] # "none"
    BY DEF StaleThrough
  <2>2. \A x \in H : \E y \in T : y[1] = x[1]
    BY DEF StaleThrough
  <2>3. \A x \in P : Active(r, x) /\ Active(e, x)
    BY DEF StaleThrough, Active, ACTIVE_STATES, NONSTAGED_STATES
  <2>4. \A x \in Jobs \ (T \cup H \cup P) : e.job[x] = r.job[x]
    BY DEF StaleThrough
  <2>5. QED
    BY <2>1, <2>2, <2>3, <2>4 DEF OnlyTouches
<1>3. /\ Agrees(s)
      /\ \A b \in Batches : s.batch[b] = r.batch[b] \/ \E x \in Jobs : x[1] = b /\ s.job[x] # "none"
  BY <1>0, <1>2, RecalculatedAgrees
<1> HIDE DEF s
<1>4. \A x \in T : Ends(r, s, x) /\ s.job[x] = "timed_out"
  BY <1>1 DEF StaleThrough, Ends, Decided, TERMINAL_JOB_STATES, Failures, Active, ACTIVE_STATES,
              NONSTAGED_STATES
<1>5. \A x \in H : IsCancelled(r, s, x)
  BY <1>1 DEF StaleThrough, IsCancelled
<1>6. \A x \in P : IsPromoted(r, s, x)
  BY <1>1 DEF StaleThrough, IsPromoted
<1>7. \A x \in Jobs \ (T \cup H \cup P) : Keeps(r, s, x)
  BY <1>1 DEF StaleThrough, Keeps
<1>8. \A x \in Jobs : JobStep(r, s, x)
  BY <1>4, <1>5, <1>6, <1>7 DEF JobStep
<1>9. \A x \in Jobs : r.job[x] = "staged" /\ s.job[x] = "queued" => x \in P
  BY <1>4, <1>5, <1>7 DEF IsCancelled, Keeps
<1>10. \A x \in Jobs : s.job[x] \in Failures /\ s.job[x] # r.job[x] => x \in T
  BY <1>5, <1>6, <1>7 DEF IsCancelled, IsPromoted, Keeps, Failures
<1>11. ASSUME NEW x \in T, NEW y \in Jobs, x[1] = y[1] PROVE s.job[y] # "staged"
  <2>1. CASE y \in T \cup H \cup P
    BY <1>4, <1>5, <1>6, <2>1 DEF IsCancelled, IsPromoted
  <2>2. CASE y \notin T \cup H \cup P
    BY <1>7, <1>11, <2>2 DEF Keeps, StaleThrough
  <2>3. QED
    BY <2>1, <2>2
<1>12. ASSUME NEW x \in P, NEW y \in Jobs, NonStaged(s, y), ReleaseOf(r, x) = ReleaseOf(r, y)
       PROVE  x = y
  <2>1. CASE y \in T
    BY <1>4, <1>12, <2>1 DEF NonStaged, NONSTAGED_STATES
  <2>2. CASE y \in H
    BY <1>5, <1>12, <2>2 DEF NonStaged, NONSTAGED_STATES, IsCancelled
  <2>3. CASE y \in P
    BY <1>12, <2>3 DEF StaleThrough
  <2>4. CASE y \notin T \cup H \cup P
    BY <1>7, <1>12, <2>4 DEF StaleThrough, Keeps, NonStaged
  <2>5. QED
    BY <2>1, <2>2, <2>3, <2>4
<1>13. SameFiling(r, s)
  BY <1>0, <1>1 DEF SameFiling
<1>14. LawfulStep(r, s)
  <2>1. \A x \in Jobs : IsPromoted(r, s, x) => x \in P
    BY <1>9 DEF IsPromoted
  <2>2. QED
    BY <1>3, <1>8, <1>10, <1>11, <1>12, <1>13, <2>1 DEF LawfulStep
<1>15. PromotedPastTimeout(r, s)
  <2> SUFFICES ASSUME NEW x \in Jobs, NEW y \in Jobs, r.job[x] = "staged", s.job[x] = "queued",
                      y[1] = x[1], s.job[y] \in Failures
               PROVE  Active(r, y) /\ s.job[y] = "timed_out"
    BY DEF PromotedPastTimeout
  <2>1. r.job[y] \notin Failures
    BY DEF RowsInv, HaltKept
  <2>2. y \in T
    BY <1>10, <2>1
  <2>3. QED
    BY <1>4, <2>2 DEF StaleThrough
<1>16. QED
  BY <1>14, <1>15 DEF s

\* The deadline pass goes through such rows, the promotion of a sibling it
\* halted itself included.
LEMMA ReconcileStaleLawful ==
    ASSUME RowsInv(w), NEW stale \in SUBSET Jobs, ReconcileStale(stale)
    PROVE  LawfulStep(w, w') /\ PromotedPastTimeout(w, w')
<1> DEFINE C == {x \in stale : w.command[x] \in ACTIVE_COMMAND}
           t == Terminate(w, stale, "timed_out")
           flushed == SetCommands(t, C, "ended_by_server")
           halted == Halt(flushed, stale)
           touched == {ReleaseOf(w, x) : x \in stale}
           Sib == {y \in Jobs \ stale : w.job[y] = "staged" /\ \E x \in stale : x[1] = y[1]}
<1>0. /\ w \in RolloutRows /\ w.job \in [Jobs -> JobStates] /\ C \in SUBSET Jobs /\ Sib \in SUBSET Jobs
      /\ "timed_out" \in TERMINAL_JOB_STATES /\ "ended_by_server" \in InstallStates
      /\ \A x \in stale : Active(w, x)
  BY DEF RowsInv, RolloutRows, TERMINAL_JOB_STATES, InstallStates, ReconcileStale
<1>1. PICK e \in PromoteAfterHalt(flushed, halted, touched) : w' = Recalculate(e, stale)
  BY DEF ReconcileStale
<1>c. \A x \in C : x \in stale /\ w.command[x] \in ACTIVE_COMMAND
  OBVIOUS
<1>s. \A x \in Jobs : x \in Sib <=> x \notin stale /\ w.job[x] = "staged" /\ \E y \in stale : y[1] = x[1]
  OBVIOUS
<1> HIDE DEF C, Sib
<1>2. /\ SameFiling(w, t) /\ t.job = [x \in Jobs |-> IF x \in stale THEN "timed_out" ELSE w.job[x]]
      /\ t.completed = w.completed \cup stale /\ t.command = w.command /\ t.batch = w.batch
  <2>1. w \in RolloutRows /\ "timed_out" \in TERMINAL_JOB_STATES
    BY <1>0
  <2>2. QED
    BY <2>1, TerminateFields
<1> HIDE DEF t
<1>3. /\ SameFiling(t, flushed) /\ flushed.job = t.job /\ flushed.completed = t.completed
      /\ flushed.batch = t.batch
      /\ flushed.command = [x \in Jobs |-> IF x \in C THEN "ended_by_server" ELSE t.command[x]]
  BY <1>0, <1>2, SetCommandsFields DEF SameFiling
<1> HIDE DEF flushed
<1>4. flushed \in RolloutRows /\ SameFiling(w, flushed)
  BY <1>2, <1>3 DEF SameFiling
<1>5. Siblings(flushed, stale) = Sib
  BY <1>0, <1>2, <1>3, <1>s DEF Siblings
<1>6. /\ SameFiling(flushed, halted) /\ halted.command = flushed.command /\ halted.batch = flushed.batch
      /\ halted.job = [x \in Jobs |-> IF x \in Sib THEN "cancelled" ELSE flushed.job[x]]
      /\ halted.completed = flushed.completed \cup Sib
  BY <1>0, <1>4, <1>5, HaltFields
<1> HIDE DEF halted
<1>7. /\ halted \in RolloutRows /\ SameFiling(w, halted) /\ halted.batch = w.batch
      /\ \A x \in stale : flushed.job[x] = "timed_out" /\ halted.job[x] = "timed_out"
      /\ \A x \in Jobs \ stale : flushed.job[x] = w.job[x]
      /\ \A x \in Sib : halted.job[x] = "cancelled"
      /\ \A x \in Jobs \ (stale \cup Sib) : halted.job[x] = w.job[x]
      /\ halted.completed = w.completed \cup stale \cup Sib
      /\ \A x \in C : halted.command[x] = "ended_by_server"
      /\ \A x \in Jobs \ C : halted.command[x] = w.command[x]
  BY <1>0, <1>2, <1>3, <1>4, <1>6, <1>s DEF SameFiling
<1>8. \A x \in Jobs : w.job[x] = "staged" => w.command[x] = "none" /\ x \notin w.completed
  BY DEF RowsInv, JobRowSound
<1> DEFINE first == {v \in touched : Promotable(flushed, v)}
<1>9. CASE first = {}
  <2>1. e = halted
    BY <1>1, <1>9 DEF PromoteAfterHalt
  <2>2. StaleThrough(w, halted, stale, Sib, {})
    BY <1>0, <1>7, <1>c, <1>s DEF StaleThrough
  <2>3. QED
    BY <1>1, <2>1, <2>2, StaleLawful
<1>10. CASE first # {}
  <2>1. PICK v \in first :
           e = Promote(Unhalt(halted, OldestStaged(flushed, v)),
                       {OldestStaged(flushed, v)}
                       \cup {OldestStaged(halted, u) : u \in {u \in touched \ {v} : Promotable(halted, u)}})
    BY <1>1, <1>10 DEF PromoteAfterHalt
  <2> DEFINE p == OldestStaged(flushed, v)
             rest == {u \in touched \ {v} : Promotable(halted, u)}
             P == {p} \cup {OldestStaged(halted, u) : u \in rest}
             un == Unhalt(halted, p)
  <2>2. /\ p \in Jobs /\ flushed.job[p] = "staged" /\ ReleaseOf(flushed, p) = v
        /\ \A y \in Jobs : ReleaseOf(flushed, y) = v => ~NonStaged(flushed, y)
    <3>1. Promotable(flushed, v)
      OBVIOUS
    <3>2. QED
      BY <3>1, OldestIsStaged DEF Promotable, Staged, ReleaseBusy
  <2>3. ASSUME NEW u \in rest
        PROVE  LET o == OldestStaged(halted, u)
               IN  /\ o \in Jobs /\ halted.job[o] = "staged" /\ ReleaseOf(halted, o) = u /\ u # v
                   /\ \A y \in Jobs : ReleaseOf(halted, y) = u => ~NonStaged(halted, y)
    <3>1. Promotable(halted, u) /\ u # v
      OBVIOUS
    <3>2. QED
      BY <3>1, OldestIsStaged DEF Promotable, Staged, ReleaseBusy
  <2>4. /\ e = Promote(un, P) /\ P \in SUBSET Jobs /\ p \in P
        /\ \A x \in P : x = p \/ \E u \in rest : x = OldestStaged(halted, u)
    BY <2>1, <2>2, <2>3
  <2> HIDE DEF p, rest, P, first
  <2>5. /\ un \in RolloutRows /\ SameFiling(halted, un) /\ un.command = halted.command /\ un.batch = halted.batch
        /\ un.job = [halted.job EXCEPT ![p] = "staged"] /\ un.completed = halted.completed \ {p}
    <3>1. [halted.job EXCEPT ![p] = "staged"] \in [Jobs -> JobStates]
      BY <1>7, <2>2 DEF RolloutRows, JobStates, ACTIVE_STATES
    <3>2. QED
      BY <1>7, <3>1 DEF Unhalt, RolloutRows, SameFiling
  <2> HIDE DEF un
  <2>6. /\ SameFiling(un, e)
        /\ e.job = [x \in Jobs |-> IF x \in P THEN "queued" ELSE un.job[x]]
        /\ e.command = [x \in Jobs |-> IF x \in P THEN "queued" ELSE un.command[x]]
        /\ e.completed = un.completed /\ e.batch = un.batch
    BY <2>4, <2>5, PromoteFields, ZenonT(60)
  <2>7. \A x \in Jobs : /\ ReleaseOf(flushed, x) = ReleaseOf(w, x)
                        /\ ReleaseOf(halted, x) = ReleaseOf(w, x)
    BY <1>4, <1>7 DEF ReleaseOf, SameFiling
  <2>8. /\ w.job[p] = "staged" /\ p \notin stale /\ ReleaseOf(w, p) = v
        /\ \A y \in Jobs \ stale : ReleaseOf(w, y) = v => ~NonStaged(w, y)
    BY <1>7, <2>2, <2>7 DEF NonStaged
  <2>9. ASSUME NEW u \in rest
        PROVE  /\ w.job[OldestStaged(halted, u)] = "staged"
               /\ OldestStaged(halted, u) \in Jobs \ (stale \cup Sib)
               /\ ReleaseOf(w, OldestStaged(halted, u)) = u /\ u # v
               /\ \A y \in Jobs \ stale : ReleaseOf(w, y) = u => ~NonStaged(w, y)
    <3> DEFINE o == OldestStaged(halted, u)
    <3>1. /\ o \in Jobs /\ halted.job[o] = "staged" /\ ReleaseOf(w, o) = u /\ u # v
          /\ \A y \in Jobs : ReleaseOf(w, y) = u => ~NonStaged(halted, y)
      BY <2>3, <2>7
    <3> HIDE DEF o
    <3>2. o \notin stale /\ o \notin Sib
      BY <1>7, <3>1
    <3>3. \A y \in Jobs \ stale : NonStaged(w, y) => NonStaged(halted, y)
      BY <1>7, <1>s DEF NonStaged, NONSTAGED_STATES
    <3>4. QED
      BY <1>7, <3>1, <3>2, <3>3 DEF o
  <2>10. \A x \in P : /\ w.job[x] = "staged" /\ x \notin stale /\ (x \in Sib => x = p)
                      /\ \A y \in P : ReleaseOf(w, y) = ReleaseOf(w, x) => y = x
                      /\ \A y \in Jobs \ stale : ReleaseOf(w, y) = ReleaseOf(w, x) => ~NonStaged(w, y)
    BY <2>4, <2>8, <2>9
  <2> DEFINE H == Sib \ {p}
  <2>11. StaleThrough(w, e, stale, H, P)
    <3>1. e \in RolloutRows /\ SameFiling(w, e) /\ e.batch = w.batch
      BY <1>7, <2>5, <2>6 DEF SameFiling
    <3>2. stale \cap H = {} /\ stale \cap P = {} /\ H \cap P = {} /\ H \in SUBSET Jobs
      BY <1>0, <1>s, <2>10
    <3>3. \A x \in Jobs \ stale : w.job[x] = "staged" /\ (\E y \in stale : y[1] = x[1]) <=>
                           x \in H \/ (x \in P /\ \E y \in stale : y[1] = x[1])
      BY <1>s, <2>4, <2>10
    <3>4. \A x \in stale : /\ e.job[x] = "timed_out" /\ x \in e.completed
                           /\ \/ e.command[x] = w.command[x]
                              \/ w.command[x] \in ACTIVE_COMMAND /\ e.command[x] = "ended_by_server"
      BY <1>7, <1>c, <2>2, <2>5, <2>6, <2>8, <2>10
    <3>5. \A x \in H : e.job[x] = "cancelled" /\ x \in e.completed /\ e.command[x] = w.command[x]
      BY <1>0, <1>7, <1>c, <1>s, <2>2, <2>5, <2>6, <3>2
    <3>6. \A x \in P : e.job[x] = "queued" /\ e.command[x] = "queued" /\ x \notin e.completed
      BY <1>7, <1>8, <2>2, <2>4, <2>5, <2>6, <2>10
    <3>7. \A x \in Jobs \ (stale \cup H \cup P) :
             /\ e.job[x] = w.job[x] /\ e.command[x] = w.command[x]
             /\ x \in e.completed <=> x \in w.completed
      BY <1>7, <1>c, <2>4, <2>5, <2>6
    <3>8. QED
      BY <1>0, <2>4, <2>10, <3>1, <3>2, <3>3, <3>4, <3>5, <3>6, <3>7 DEF StaleThrough
  <2>12. QED
    BY <1>1, <2>11, StaleLawful
<1>11. QED
  BY <1>9, <1>10

\* A new batch b, of the sensors S, some of whose jobs are queued at once.
LEMMA DeployKeeps ==
    ASSUME RolloutInv, NEW b \in Batches, NEW v \in 0 .. MaxRelease, NEW S \in SUBSET Devices,
           NEW rollout \in {"immediate", "staged", "retry"}, Deployable(b, v, S),
           w' = Deployed(b, v, S, rollout), UNCHANGED installs
    PROVE  RolloutInv' /\ \A x \in Jobs : w.job[x] # "none" => w'.job[x] = w.job[x]
<1> DEFINE first == CHOOSE d \in S : \A e \in S : d <= e
           queued == IF rollout # "staged" THEN S
                     ELSE IF ReleaseBusy(w, v) THEN {} ELSE {first}
           Q == {b} \X queued
           N == {b} \X S
           c == SetCommands(w, Q, "queued")
           job == [x \in Jobs |-> IF x \in Q THEN "queued" ELSE IF x \in N THEN "staged" ELSE w.job[x]]
<1>0. /\ RowsInv(w) /\ SeenSound(w, installs) /\ w \in RolloutRows /\ w.job \in [Jobs -> JobStates]
      /\ "queued" \in InstallStates /\ S # {}
  BY DEF RolloutInv, RowsInv, RolloutRows, InstallStates, ACTIVE_COMMAND, Deployable
<1>1. first \in S
  <2>1. S \subseteq Nat
    BY RolloutAssumption DEF Devices
  <2>2. \E d \in S : \A e \in S : d <= e
    BY <1>0, <2>1, LeastNatural
  <2>3. QED
    BY <2>2
<1> HIDE DEF first
<1>2. queued \in SUBSET S
  BY <1>1
<1>3. rollout = "staged" => /\ queued = {} \/ (queued = {first} /\ ~ReleaseBusy(w, v))
  OBVIOUS
<1>4. w' = [c EXCEPT !.job = job, !.batch[b] = "in_progress", !.release[b] = v, !.rollout[b] = rollout]
  BY DEF Deployed, first
<1> HIDE DEF queued
<1>5. /\ Q \in SUBSET Jobs /\ N \in SUBSET Jobs /\ Q \subseteq N
      /\ \A x \in N : x[1] = b /\ x[2] \in S
      /\ \A x \in Q : x[2] \in queued
      /\ \A x, y \in N : x[2] = y[2] => x = y
      /\ \A x \in Jobs : x[1] \in Batches
  BY <1>2 DEF Jobs
<1>6. /\ c \in RolloutRows /\ c.job = w.job /\ c.completed = w.completed /\ c.batch = w.batch
      /\ c.release = w.release /\ c.rollout = w.rollout /\ c.file = w.file /\ c.identity = w.identity
      /\ c.command = [x \in Jobs |-> IF x \in Q THEN "queued" ELSE w.command[x]]
  <2> HIDE DEF Q
  <2> QED BY <1>0, <1>5, SetCommandsFields DEF SameFiling
<1> HIDE DEF c, Q, N
<1>7. job \in [Jobs -> JobStates]
  BY <1>0 DEF JobStates, ACTIVE_STATES, NONSTAGED_STATES
<1> HIDE DEF job
<1>8. /\ w' \in RolloutRows /\ w'.job = job /\ w'.completed = w.completed /\ w'.command = c.command
      /\ w'.batch = [w.batch EXCEPT ![b] = "in_progress"]
      /\ w'.release = [w.release EXCEPT ![b] = v]
      /\ w'.rollout = [w.rollout EXCEPT ![b] = rollout]
      /\ w'.file = w.file
  <2> DEFINE batch == [w.batch EXCEPT ![b] = "in_progress"]
             chosen == [w.release EXCEPT ![b] = v]
             rolls == [w.rollout EXCEPT ![b] = rollout]
  <2>1. w' = [c EXCEPT !.job = job, !.batch = batch, !.release = chosen, !.rollout = rolls]
    BY <1>4, <1>6, ZenonT(60)
  <2>2. /\ batch \in [Batches -> BatchStates] /\ chosen \in [Batches -> 0 .. MaxRelease]
        /\ rolls \in [Batches -> {"none", "immediate", "staged", "retry"}]
    BY <1>0 DEF RolloutRows, BatchStates
  <2> HIDE DEF batch, chosen, rolls
  <2>3. QED
    BY <1>6, <1>7, <2>1, <2>2, ZenonT(60) DEF RolloutRows, batch, chosen, rolls
<1>9. /\ w.batch[b] = "none" /\ w.file[b] = "live"
      /\ \A x \in Jobs : x[1] = b => w.job[x] = "none" /\ w.command[x] = "none" /\ x \notin w.completed
      /\ \A x \in Jobs : x[2] \in S => ~Active(w, x)
  BY <1>0 DEF Deployable, RowsInv, JobRowSound, FiledBatchExists, RolloutRows
<1>10. /\ \A x \in Q : w'.job[x] = "queued" /\ w'.command[x] = "queued"
       /\ \A x \in N \ Q : w'.job[x] = "staged" /\ w'.command[x] = "none"
       /\ \A x \in Jobs \ N : w'.job[x] = w.job[x] /\ w'.command[x] = w.command[x]
       /\ \A a \in Batches \ {b} : /\ w'.batch[a] = w.batch[a] /\ w'.release[a] = w.release[a]
                                   /\ w'.rollout[a] = w.rollout[a]
       /\ w'.batch[b] = "in_progress" /\ w'.release[b] = v /\ w'.rollout[b] = rollout
  BY <1>0, <1>5, <1>6, <1>8, <1>9 DEF job, RolloutRows
<1>11. \A x \in Jobs : w.job[x] # "none" => x \notin N /\ w'.job[x] = w.job[x] /\ x[1] # b
  BY <1>5, <1>9, <1>10
<1>12. \A x \in Jobs : JobRowSound(w', x)
  <2>1. ASSUME NEW x \in N PROVE JobRowSound(w', x)
    BY <1>5, <1>8, <1>9, <1>10 DEF JobRowSound, TERMINAL_JOB_STATES
  <2>2. ASSUME NEW x \in Jobs \ N PROVE JobRowSound(w', x)
    <3>1. JobRowSound(w, x)
      BY <1>0 DEF RowsInv
    <3>2. w'.batch[x[1]] # "none" \/ w'.batch[x[1]] = w.batch[x[1]]
      BY <1>5, <1>10
    <3>3. QED
      BY <1>8, <1>10, <3>1, <3>2 DEF JobRowSound
  <2>3. QED
    BY <2>1, <2>2
<1>13. FiledBatchExists(w')
  BY <1>0, <1>8, <1>9, <1>10 DEF RowsInv, FiledBatchExists
<1>14. HaltKept(w')
  <2> SUFFICES ASSUME NEW x \in Jobs, NEW y \in Jobs, x[1] = y[1], w'.job[x] \in Failures,
                      w'.job[y] = "staged"
               PROVE  FALSE
    BY DEF HaltKept
  <2>1. x \notin N
    BY <1>10 DEF Failures
  <2>2. w.job[x] = w'.job[x] /\ x[1] # b
    BY <1>10, <1>11, <2>1 DEF Failures
  <2>3. y \notin N
    BY <1>5, <2>2
  <2>4. QED
    BY <1>0, <1>10, <2>2, <2>3 DEF RowsInv, HaltKept
<1>15. OneEach(w')
  <2>1. \A x \in Jobs \ N : Fresh(w', x) => Fresh(w, x) /\ x[2] \notin S
    BY <1>8, <1>9, <1>10 DEF Fresh, Active
  <2>2. QED
    BY <1>0, <1>5, <2>1 DEF OneEach, RowsInv
<1>16. Serial(w')
  <2> SUFFICES ASSUME NEW x \in Jobs, NEW y \in Jobs,
                      NonStaged(w', x), x \notin w'.completed, w'.rollout[x[1]] = "staged",
                      NonStaged(w', y), y \notin w'.completed, w'.rollout[y[1]] = "staged",
                      ReleaseOf(w', x) = ReleaseOf(w', y)
               PROVE  x = y
    BY DEF Serial
  <2>1. ASSUME NEW z \in Jobs \ N, NonStaged(w', z), z \notin w'.completed,
               w'.rollout[z[1]] = "staged"
        PROVE  /\ NonStaged(w, z) /\ z \notin w.completed /\ w.rollout[z[1]] = "staged"
               /\ ReleaseOf(w', z) = ReleaseOf(w, z)
    <3>1. w.job[z] = w'.job[z] /\ w.job[z] # "none"
      BY <1>10, <2>1 DEF NonStaged, NONSTAGED_STATES
    <3>2. z[1] # b /\ z[1] \in Batches
      BY <1>5, <1>11, <3>1
    <3>3. QED
      BY <1>8, <1>10, <2>1, <3>1, <3>2 DEF NonStaged, ReleaseOf
  <2>2. ASSUME NEW z \in N, NonStaged(w', z), w'.rollout[z[1]] = "staged"
        PROVE  /\ ~ReleaseBusy(w, v) /\ z[2] = first /\ ReleaseOf(w', z) = v
    <3>1. z \in Q
      BY <1>10, <2>2 DEF NonStaged, NONSTAGED_STATES
    <3>2. rollout = "staged" /\ z[2] \in queued
      BY <1>5, <1>10, <2>2, <3>1
    <3>3. QED
      BY <1>3, <1>5, <1>10, <3>2 DEF ReleaseOf
  <2>3. CASE x \in N /\ y \in N
    BY <1>5, <2>2, <2>3
  <2>4. CASE x \in N /\ y \notin N
    BY <2>1, <2>2, <2>4 DEF ReleaseBusy
  <2>5. CASE x \notin N /\ y \in N
    BY <2>1, <2>2, <2>5 DEF ReleaseBusy
  <2>6. CASE x \notin N /\ y \notin N
    BY <1>0, <2>1, <2>6 DEF RowsInv, Serial
  <2>7. QED
    BY <2>3, <2>4, <2>5, <2>6
<1>17. Agrees(w')
  <2> SUFFICES ASSUME NEW a \in Batches PROVE w'.batch[a] = DerivedState(w', a)
    BY DEF Agrees
  <2>1. CASE a = b
    <3>1. PICK x \in Jobs : x \in N /\ x[1] = b
      <4>1. <<b, first>> \in N
        BY <1>1 DEF N
      <4>2. QED
        BY <1>5, <4>1
    <3>2. Active(w', x)
      BY <1>10, <3>1 DEF Active, ACTIVE_STATES, NONSTAGED_STATES
    <3>3. DerivedState(w', x[1]) = "in_progress"
      BY <1>8, <3>2, DerivedActive
    <3>4. QED
      BY <1>10, <2>1, <3>1, <3>3
  <2>2. CASE a # b
    <3>1. \A x \in Jobs : x[1] = a => w'.job[x] = w.job[x]
      BY <1>5, <1>10, <2>2
    <3>2. DerivedState(w', a) = DerivedState(w, a)
      <4>1. w \in RolloutRows /\ w' \in RolloutRows /\ w'.batch[a] = w.batch[a]
        BY <1>0, <1>8, <1>10, <2>2
      <4>2. QED
        BY <3>1, <4>1, DerivedSame
    <3>3. QED
      BY <1>0, <1>10, <2>2, <3>2 DEF RowsInv, Agrees
  <2>3. QED
    BY <2>1, <2>2
<1>18. SeenSound(w', installs')
  BY <1>0, <1>5, <1>9, <1>10 DEF SeenSound
<1>19. RowsInv(w')
  BY <1>8, <1>12, <1>13, <1>14, <1>15, <1>16, <1>17 DEF RowsInv
<1>20. QED
  BY <1>11, <1>18, <1>19 DEF RolloutInv

\* Archive, restore and delete.
LEMMA FilingKeeps ==
    ASSUME RolloutInv, NEW b \in Batches, ArchiveBatch(b) \/ RestoreBatch(b) \/ DeleteBatch(b)
    PROVE  RolloutInv' /\ w'.job = w.job
<1>0. RowsInv(w) /\ SeenSound(w, installs) /\ w \in RolloutRows
  BY DEF RolloutInv, RowsInv
<1>1. PICK f \in {"live", "archived", "deleted"} :
         /\ w' = [w EXCEPT !.file[b] = f] /\ UNCHANGED installs
         /\ w.batch[b] # "none"
         /\ f = "deleted" => /\ \A x \in JobsOf(w, b) : w.job[x] \in TERMINAL_JOB_STATES
                             /\ \A x \in JobsOf(w, b) : w.command[x] \notin ACTIVE_COMMAND
  BY <1>0 DEF ArchiveBatch, RestoreBatch, DeleteBatch, Deletable, RowsInv, FiledBatchExists
<1>2. /\ w' \in RolloutRows /\ w'.job = w.job /\ w'.command = w.command /\ w'.completed = w.completed
      /\ w'.batch = w.batch /\ w'.release = w.release /\ w'.rollout = w.rollout
      /\ w'.file = [w.file EXCEPT ![b] = f]
  BY <1>0, <1>1 DEF RolloutRows
<1>3. w'.file[b] = f /\ \A a \in Batches \ {b} : w'.file[a] = w.file[a]
  BY <1>0, <1>2 DEF RolloutRows
<1>4. ASSUME NEW x \in Jobs PROVE JobRowSound(w', x)
  <2>1. JobRowSound(w, x) /\ x[1] \in Batches
    BY <1>0 DEF RowsInv, Jobs
  <2>2. CASE x[1] = b /\ f = "deleted"
    <3>1. w.job[x] \in TERMINAL_JOB_STATES \cup {"none"} /\ w.command[x] \notin ACTIVE_COMMAND
      BY <1>1, <2>1, <2>2 DEF JobsOf, JobRowSound, ACTIVE_COMMAND
    <3>2. QED
      BY <1>2, <2>1, <3>1 DEF JobRowSound
  <2>3. CASE x[1] # b \/ f # "deleted"
    BY <1>2, <1>3, <2>1, <2>3 DEF JobRowSound
  <2>4. QED
    BY <2>2, <2>3
<1>5. FiledBatchExists(w')
  BY <1>0, <1>1, <1>2, <1>3 DEF FiledBatchExists, RowsInv
<1>6. Agrees(w')
  BY <1>0, <1>2, DerivedSame DEF Agrees, RowsInv
<1>7. HaltKept(w') /\ OneEach(w') /\ Serial(w')
  BY <1>0, <1>2 DEF HaltKept, OneEach, Serial, RowsInv, Fresh, Active, NonStaged, ReleaseOf
<1>8. SeenSound(w', installs')
  BY <1>0, <1>1, <1>2 DEF SeenSound
<1>9. QED
  BY <1>2, <1>4, <1>5, <1>6, <1>7, <1>8 DEF RolloutInv, RowsInv

\* A request of a sensor: its result, its identity, its commands.
LEMMA SensorRequestKeeps ==
    ASSUME RolloutInv, NEW d \in Devices, NEW x \in Jobs \cup {NoJob},
           NEW result \in Reports \cup {"none"}, NEW id \in Identities \cup {NoIdentity},
           SensorRequest(d, x, result, id)
    PROVE  /\ RolloutInv'
           /\ \A y \in Jobs : Decided(w, y) => w'.job[y] = w.job[y]
           /\ \A y, z \in Jobs : w.job[y] = "staged" /\ w'.job[y] = "queued" /\ z[1] = y[1]
                                 => w'.job[z] \notin Failures
<1> DEFINE a == ApplyInstallResult(w, x, result)
           i == [a EXCEPT !.identity[d] = id]
           c == IF id = NoIdentity THEN a ELSE ReconcileIdentity(i, d, id)
<1>0. RowsInv(w) /\ SeenSound(w, installs) /\ result \in InstallResults \cup {"none"}
      /\ ((x = NoJob) <=> (result = "none"))
  BY RolloutAssumption DEF RolloutInv, SensorRequest, InstallResults
<1>1. PICK ended \in SUBSET Waiting(c, d) : \E sent \in SUBSET (Waiting(c, d) \ ended) :
         /\ w' = DeliverInstalls(c, ended, sent)
         /\ installs' \in {installs, installs \cup sent}
  BY DEF SensorRequest
<1>2. PICK sent \in SUBSET (Waiting(c, d) \ ended) :
         /\ w' = DeliverInstalls(c, ended, sent)
         /\ installs' \in {installs, installs \cup sent}
  BY <1>1
<1>3. LawfulStep(w, a) /\ \A y \in Jobs : w.job[y] = "staged" => a.job[y] # "queued"
  BY <1>0, ApplyResultLawful
<1> HIDE DEF a
<1>4. /\ RowsInv(a) /\ SeenSound(a, installs)
      /\ \A y \in Jobs : Decided(w, y) => Decided(a, y) /\ a.job[y] = w.job[y]
  <2>1. installs \in SUBSET Jobs
    BY <1>0 DEF SeenSound
  <2>2. QED
    BY <1>0, <1>3, <2>1, LawfulStepKeeps
<1>5. /\ RowsInv(c) /\ SeenSound(c, installs)
      /\ \A y \in Jobs : Decided(a, y) => Decided(c, y) /\ c.job[y] = a.job[y]
      /\ CleanPromotion(a, c)
      /\ \A y \in Jobs : a.job[y] = "staged" => c.job[y] \in {"staged", "queued"} \/ Decided(c, y)
  <2>0. installs \in SUBSET Jobs
    BY <1>0 DEF SeenSound
  <2>1. CASE id = NoIdentity
    BY <1>4, <2>1 DEF CleanPromotion
  <2>2. CASE id # NoIdentity
    <3>1. /\ i \in RolloutRows /\ SameFiling(a, i) /\ i.job = a.job /\ i.command = a.command
          /\ i.completed = a.completed /\ i.batch = a.batch
      <4>1. a \in RolloutRows /\ id \in Identities /\ [a.identity EXCEPT ![d] = id] \in [Devices -> Identities]
        BY <1>4, <2>2 DEF RowsInv, RolloutRows
      <4>2. i = [a EXCEPT !.identity = [a.identity EXCEPT ![d] = id]]
        BY <4>1 DEF RolloutRows
      <4>3. QED
        BY <4>1, <4>2 DEF RolloutRows, SameFiling
    <3> HIDE DEF i
    <3>2. LawfulStep(a, i)
      BY <1>4, <3>1, QuietLawful DEF Keeps
    <3>3. /\ RowsInv(i) /\ SeenSound(i, installs)
          /\ \A y \in Jobs : Decided(a, y) => Decided(i, y)
      BY <1>4, <2>0, <3>2, LawfulStepKeeps
    <3>4. LawfulStep(i, c) /\ CleanPromotion(i, c)
      BY <2>2, <3>3, IdentityLawful
    <3> HIDE DEF c
    <3>5. /\ RowsInv(c) /\ SeenSound(c, installs)
          /\ \A y \in Jobs : Decided(i, y) => Decided(c, y) /\ c.job[y] = i.job[y]
      BY <2>0, <3>3, <3>4, LawfulStepKeeps
    <3>6. CleanPromotion(a, c)
      BY <3>1, <3>4 DEF CleanPromotion
    <3>7. \A y \in Jobs : a.job[y] = "staged" => c.job[y] \in {"staged", "queued"} \/ Decided(c, y)
      BY <3>1, <3>3, <3>4, StagedFate
    <3>8. QED
      BY <3>1, <3>3, <3>5, <3>6, <3>7
  <2>3. QED
    BY <2>1, <2>2
<1> HIDE DEF c
<1>6. /\ LawfulStep(c, w')
      /\ \A y \in sent : w'.command[y] = "delivered"
      /\ \A y \in Jobs : \/ w'.job[y] = c.job[y]
                         \/ c.job[y] = "staged" /\ w'.job[y] = "cancelled"
                         \/ NonStaged(c, y) /\ w'.job[y] = "failed"
  <2> DEFINE s == DeliverInstalls(c, ended, sent)
  <2>1. RowsInv(c) /\ Answers(c, d, ended, sent)
    BY <1>5 DEF Answers
  <2>2. /\ LawfulStep(c, s)
        /\ \A y \in sent : s.command[y] = "delivered"
        /\ \A y \in Jobs : \/ s.job[y] = c.job[y]
                           \/ c.job[y] = "staged" /\ s.job[y] = "cancelled"
                           \/ NonStaged(c, y) /\ s.job[y] = "failed"
    BY <2>1, DeliverLawful
  <2>3. w' = s
    BY <1>2
  <2>4. QED
    BY <2>2, <2>3
<1>7. /\ RowsInv(w') /\ SeenSound(w', installs)
      /\ \A y \in Jobs : Decided(c, y) => Decided(w', y) /\ w'.job[y] = c.job[y]
  <2>1. installs \in SUBSET Jobs
    BY <1>0 DEF SeenSound
  <2>2. QED
    BY <1>5, <1>6, <2>1, LawfulStepKeeps
<1>8. SeenSound(w', installs')
  BY <1>2, <1>6, <1>7 DEF SeenSound, Waiting
<1>9. \A y \in Jobs : Decided(w, y) => w'.job[y] = w.job[y]
  BY <1>4, <1>5, <1>7
<1>10. ASSUME NEW y \in Jobs, NEW z \in Jobs, w.job[y] = "staged", w'.job[y] = "queued", z[1] = y[1]
       PROVE  w'.job[z] \notin Failures
  <2>1. ~Decided(c, y) /\ ~Decided(a, y)
    BY <1>5, <1>7, <1>10 DEF Decided, TERMINAL_JOB_STATES
  <2>2. a.job[y] = "staged"
    BY <1>0, <1>3, <1>10, <2>1, StagedFate
  <2>3. c.job[y] = "queued"
    BY <1>5, <1>6, <1>10, <2>1, <2>2
  <2>4. c.job[z] \notin Failures /\ (NonStaged(c, z) => z = y)
    BY <1>5, <1>10, <2>2, <2>3 DEF CleanPromotion
  <2>5. QED
    BY <1>6, <1>10, <2>4 DEF Failures
<1>11. QED
  BY <1>7, <1>8, <1>9, <1>10 DEF RolloutInv

\* What every step is shown to do: keep the invariant, leave decided jobs as
\* they are, and promote past a failure only in a deadline pass.
StepGoal ==
    /\ RolloutInv'
    /\ \A x \in Jobs : Decided(w, x) => w'.job[x] = w.job[x]
    /\ \A x, y \in Jobs : w.job[x] = "staged" /\ w'.job[x] = "queued" /\ y[1] = x[1]
                          /\ w'.job[y] \in Failures
                          => Active(w, y) /\ w'.job[y] = "timed_out"

\* Every action meets that goal.
LEMMA RolloutStep == RolloutInv /\ [RolloutNext]_rolloutVars => StepGoal
<1> SUFFICES ASSUME RolloutInv, [RolloutNext]_rolloutVars PROVE StepGoal
  OBVIOUS
<1>0. RowsInv(w) /\ SeenSound(w, installs) /\ installs \in SUBSET Jobs /\ w \in RolloutRows
  BY DEF RolloutInv, SeenSound, RowsInv
<1>l. ASSUME LawfulStep(w, w'), UNCHANGED installs PROVE RolloutInv' /\ \A x \in Jobs : Decided(w, x) => w'.job[x] = w.job[x]
  BY <1>0, <1>l, LawfulStepKeeps DEF RolloutInv
<1>1. ASSUME NEW b \in Batches, NEW v \in Releases, NEW S \in SUBSET Devices,
             NEW rollout \in {"immediate", "staged"}, DeployFirmwareRelease(b, v, S, rollout)
      PROVE  StepGoal
  <2>1. v \in 0 .. MaxRelease /\ Deployable(b, v, S) /\ w' = Deployed(b, v, S, rollout)
        /\ UNCHANGED installs /\ rollout \in {"immediate", "staged", "retry"}
    BY <1>1, RolloutAssumption DEF DeployFirmwareRelease, Releases
  <2>2. RolloutInv' /\ \A x \in Jobs : w.job[x] # "none" => w'.job[x] = w.job[x]
    BY <2>1, DeployKeeps
  <2>3. QED
    BY <2>2 DEF StepGoal, Decided, TERMINAL_JOB_STATES
<1>2. ASSUME NEW a \in Batches, NEW b \in Batches, NEW S \in SUBSET Devices, RetryBatch(a, b, S)
      PROVE  StepGoal
  <2>1. w.release[a] \in 0 .. MaxRelease /\ Deployable(b, w.release[a], S)
        /\ w' = Deployed(b, w.release[a], S, "retry") /\ UNCHANGED installs
    BY <1>0, <1>2 DEF RetryBatch, RolloutRows
  <2>2. RolloutInv' /\ \A x \in Jobs : w.job[x] # "none" => w'.job[x] = w.job[x]
    BY <2>1, DeployKeeps
  <2>3. QED
    BY <2>2 DEF StepGoal, Decided, TERMINAL_JOB_STATES
<1>3. ASSUME NEW b \in Batches, CancelBatch(b) PROVE StepGoal
  <2>1. LawfulStep(w, w') /\ UNCHANGED installs /\ \A x \in Jobs : w.job[x] = "staged" => w'.job[x] # "queued"
    BY <1>0, <1>3, CancelLawful DEF CancelBatch
  <2>2. QED
    BY <1>l, <2>1 DEF StepGoal
<1>4. ASSUME NEW b \in Batches, ArchiveBatch(b) \/ RestoreBatch(b) \/ DeleteBatch(b)
      PROVE  StepGoal
  <2>1. RolloutInv' /\ w'.job = w.job
    BY <1>4, FilingKeeps
  <2>2. QED
    BY <2>1 DEF StepGoal
<1>5. ASSUME NEW d \in Devices, NEW x \in Jobs \cup {NoJob}, NEW result \in Reports \cup {"none"},
             NEW id \in Identities \cup {NoIdentity}, SensorRequest(d, x, result, id)
      PROVE  StepGoal
  BY <1>5, SensorRequestKeeps DEF StepGoal
<1>6. ASSUME NEW x \in Jobs, DownloadFirmware(x) PROVE StepGoal
  <2>1. LawfulStep(w, w') /\ UNCHANGED installs /\ \A y \in Jobs : w.job[y] = "staged" => w'.job[y] # "queued"
    BY <1>0, <1>6, DownloadLawful DEF DownloadFirmware
  <2>2. QED
    BY <1>l, <2>1 DEF StepGoal
<1>7. ASSUME NEW stale \in SUBSET {x \in Jobs : Active(w, x)}, ReconcileStale(stale)
      PROVE  StepGoal
  <2>1. stale \in SUBSET Jobs
    OBVIOUS
  <2>2. LawfulStep(w, w') /\ UNCHANGED installs /\ PromotedPastTimeout(w, w')
    BY <1>0, <1>7, <2>1, ReconcileStaleLawful DEF ReconcileStale
  <2>3. QED
    BY <1>l, <2>2 DEF StepGoal, PromotedPastTimeout
<1>8. ASSUME NEW d \in Devices, WorkerConfirms(d) PROVE StepGoal
  <2>1. w' = ReconcileIdentity(w, d, w.identity[d]) /\ UNCHANGED installs
    BY <1>8 DEF WorkerConfirms
  <2>2. LawfulStep(w, w') /\ CleanPromotion(w, w')
    BY <1>0, <2>1, IdentityLawful
  <2>3. QED
    BY <1>l, <2>1, <2>2 DEF StepGoal, CleanPromotion
<1>9. ASSUME WorkerAdvances PROVE StepGoal
  <2>1. PICK v \in Releases : w' = AdvanceNext(w, v) /\ UNCHANGED installs
    BY <1>9 DEF WorkerAdvances
  <2>2. LawfulStep(w, w') /\ CleanPromotion(w, w')
    BY <1>0, <2>1, AdvanceLawful
  <2>3. QED
    BY <1>l, <2>1, <2>2 DEF StepGoal, CleanPromotion
<1>10. CASE UNCHANGED rolloutVars
  <2>1. w' = w /\ installs' = installs
    BY <1>10 DEF rolloutVars
  <2>2. QED
    BY <1>0, <2>1 DEF StepGoal, RolloutInv
<1>11. QED
  BY <1>1, <1>2, <1>3, <1>4, <1>5, <1>6, <1>7, <1>8, <1>9, <1>10 DEF RolloutNext

\* The empty tables satisfy the invariant.
LEMMA RolloutStart == RolloutInit => RolloutInv
<1> SUFFICES ASSUME RolloutInit PROVE RolloutInv
  OBVIOUS
<1>1. w \in RolloutRows
  BY RolloutAssumption DEF RolloutInit, RolloutRows, JobStates, InstallStates, BatchStates, Identities
<1>2. /\ \A x \in Jobs : w.job[x] = "none" /\ w.command[x] = "none" /\ x \notin w.completed
      /\ \A b \in Batches : w.batch[b] = "none" /\ w.file[b] = "live"
      /\ installs = {} /\ \A x \in Jobs : x[1] \in Batches
  BY DEF RolloutInit, Jobs
<1>3. Agrees(w)
  <2>1. \A b \in Batches : {w.job[x] : x \in JobsOf(w, b)} = {}
    BY <1>2 DEF JobsOf
  <2>2. QED
    BY <2>1 DEF Agrees, DerivedState
<1>4. QED
  BY <1>1, <1>2, <1>3 DEF RolloutInv, RowsInv, SeenSound, JobRowSound, FiledBatchExists, HaltKept,
       Serial, OneEach, Fresh, Active, NonStaged, ACTIVE_STATES, NONSTAGED_STATES, TERMINAL_JOB_STATES,
       ACTIVE_COMMAND, Failures

\* The invariant holds in every reachable state.
THEOREM RolloutInvariant == RolloutSpec => []RolloutInv
<1>1. RolloutInv /\ [RolloutNext]_rolloutVars => RolloutInv'
  BY RolloutStep DEF StepGoal
<1>2. QED
  BY <1>1, RolloutStart, PTL DEF RolloutSpec

\* The stored state of a batch is the one its jobs imply after every transaction,
\* and the jobs of a deleted batch never become active: late results of a
\* sensor included, since deletion waits for the commands too.
THEOREM BatchesCorrect == RolloutSpec => []BatchesSound
<1>1. RolloutInv => BatchesSound
  <2> SUFFICES ASSUME RolloutInv PROVE BatchesSound
    OBVIOUS
  <2>1. RolloutTypeOK /\ BatchStateAgrees
    BY DEF RolloutInv, RowsInv, SeenSound, RolloutTypeOK, BatchStateAgrees, Agrees
  <2>2. TombstonesAreFinal
    BY DEF RolloutInv, RowsInv, JobRowSound, TombstonesAreFinal, Active, ACTIVE_STATES,
           NONSTAGED_STATES, TERMINAL_JOB_STATES
  <2>3. QED
    BY <2>1, <2>2 DEF BatchesSound
<1>2. QED
  BY <1>1, RolloutInvariant, PTL

\* Whoever promotes - the deploy route, a confirmed heartbeat, the deadline pass
\* or the worker - a staged rollout has one sensor past staging at a time, a
\* sensor one job, and a cancelled job was never delivered; jobs revived by a
\* late result aside.
THEOREM RolloutsCorrect == RolloutSpec => []RolloutDisciplined
<1>1. RolloutInv => RolloutDisciplined
  <2> SUFFICES ASSUME RolloutInv PROVE RolloutDisciplined
    OBVIOUS
  <2>1. StagedRolloutSerial
    BY DEF RolloutInv, RowsInv, Serial, StagedRolloutSerial, Revived, NonStaged, Active, ACTIVE_STATES
  <2>2. OneJobPerSensor
    BY DEF RolloutInv, RowsInv, OneEach, OneJobPerSensor, Revived, Fresh
  <2>3. CancelledBeforeDelivery
    BY DEF RolloutInv, RowsInv, JobRowSound, SeenSound, CancelledBeforeDelivery
  <2>4. QED
    BY <2>1, <2>2, <2>3 DEF RolloutDisciplined
<1>2. QED
  BY <1>1, RolloutInvariant, PTL

\* A job that ended with its command is never changed by a late, repeated or
\* reordered result, a deadline or a promotion (apply_command_results,
\* reconcile_stale_firmware_deployments).
THEOREM DecidedStaysDecided == RolloutSpec => DecidedJobsStayDecided
<1>1. RolloutInv /\ [RolloutNext]_rolloutVars =>
        [\A x \in Jobs :
          w.job[x] \in TERMINAL_JOB_STATES /\ w.command[x] \notin ACTIVE_COMMAND
          => w'.job[x] = w.job[x]]_rolloutVars
  BY RolloutStep DEF StepGoal, Decided
<1>2. QED
  BY <1>1, RolloutInvariant, PTL DEF RolloutSpec, DecidedJobsStayDecided

\* No job is promoted in a batch with a failed job, except by the deadline pass
\* that times that very job out (halt_staged_siblings_after_failure).
THEOREM HaltsKeptButByDeadlines == RolloutSpec => HaltUndoneOnlyByDeadlinePass
<1>1. RolloutInv /\ [RolloutNext]_rolloutVars =>
        [\A x \in Jobs : w.job[x] = "staged" /\ w'.job[x] = "queued" =>
          \/ \A y \in JobsOf(w, x[1]) : w'.job[y] \notin {"failed", "rolled_back", "timed_out"}
          \/ \E z \in JobsOf(w, x[1]) : Active(w, z) /\ w'.job[z] = "timed_out"]_rolloutVars
  BY RolloutStep DEF StepGoal, JobsOf, Failures
<1>2. QED
  BY <1>1, RolloutInvariant, PTL DEF RolloutSpec, HaltUndoneOnlyByDeadlinePass

--------------------------------------------------------------------------------
(***************************************************************************)
(* Proof that rows and image files of firmware releases agree, for every   *)
(* number of releases and of deletion requests in flight: no crash, failed *)
(* commit or pass of the reconciler loses the image of a live release,     *)
(* what is served is in place, and a tombstone has no image but one that   *)
(* somebody else was about to put back.                                    *)
(*                                                                         *)
(* ImagesSound is not inductive: it does not say why an upload's row may   *)
(* be committed or a quarantined file purged.  ReleasesInv adds what the   *)
(* coordinator's lock protects - an upload before its commit has its file  *)
(* and no row, a deletion before its commit holds a release nobody serves, *)
(* a deletion after it has left a tombstone - and, for a release deleted   *)
(* while nobody else had its image, that no request can bring it back.  An *)
(* ended deployment comes back by its command, so the invariant follows    *)
(* the commands too: while one is active that no deletion overlooked, its  *)
(* release is not deleted and its image in place.                          *)
(***************************************************************************)
Rows == [state : LifecycleStates, pinned : BOOLEAN]
Uploads == [phase : {"written", "committed"}, release : Versions]
Deletions == [phase : {"moved", "committed", "failed"}, release : Versions,
              moved : BOOLEAN, inHand : BOOLEAN]
Passes == [phase : {"none", "scanned", "locked"},
           deletes : SUBSET Versions, uploads : SUBSET Versions]

\* ReleasesTypeOK with the fields of the requests in flight.
ReleasesTyped ==
    /\ release \in [Versions -> Rows]
    /\ final \subseteq Versions /\ quarantined \subseteq Versions /\ pending \subseteq Versions
    /\ aged \subseteq Versions /\ stranded \subseteq Versions
    /\ deployment \in [Versions -> DeploymentStates]
    /\ install \in [Versions -> InstallCommands]
    /\ running \in 0 .. MaxVersion
    /\ upload \in {Idle} \cup Uploads
    /\ deletion \in [Deleters -> {Idle} \cup Deletions]
    /\ recon \in Passes

\* The coordinator: one deletion, upload or pass holds it at a time.
OneHolder ==
    /\ \A d, e \in Deleters : deletion[d].phase = "moved" /\ deletion[e].phase = "moved" => d = e
    /\ RowsHeld => upload.phase # "written" /\ recon.phase # "locked"
    /\ upload.phase = "written" => recon.phase # "locked"

\* An upload before its commit has its file and no row yet.
UploadFits ==
    upload.phase = "written" =>
        release[upload.release].state = "none" /\ upload.release \in pending

\* Someone is about to put the image of r under its final name.
Failed(r) == \E e \in Deleters : deletion[e].phase = "failed" /\ deletion[e].release = r

\* No deployment of r is active, and none comes back but one overtaken.
Unserved(r) == deployment[r] = "none" /\ install[r] \in {"none", "overtaken"}

\* A deletion before its commit holds a release nobody serves; unless the image
\* was in other hands, no file of it can come back under the final name.  A
\* committed one has left a tombstone.
DeletionFits(d) ==
    LET r == deletion[d].release
    IN  /\ deletion[d].phase = "moved" =>
              /\ release[r].state \in {"available", "archived"} /\ Unserved(r)
              /\ ~deletion[d].inHand => r \notin final \cup pending /\ ~Failed(r)
        /\ deletion[d].phase = "committed" => release[r].state = "deleted"

\* The same for a release deleted while nobody had its image.
TombstonesClean ==
    \A r \in Versions : release[r].state = "deleted" /\ r \notin stranded =>
        r \notin final \cup pending /\ ~Failed(r)

OneCurrent ==
    \A q, r \in Versions : release[q].state = "current" /\ release[r].state = "current" => q = r

\* A deployment of r is active, or a late result may make one active again.
Referenced(r) ==
    \/ deployment[r] \in {"staged", "active", "revived"}
    \/ install[r] \in {"queued", "promoted"}

InPlace ==
    /\ \A r \in Versions : deployment[r] \in {"staged", "active"} =>
          release[r].state \in {"available", "current"}
    /\ \A r \in Versions : Referenced(r) => Live(r) /\ r \in final
    /\ \A r \in Versions : release[r].state = "current" => r \in final

ReleasesInv ==
    /\ ReleasesTyped
    /\ OneHolder
    /\ UploadFits
    /\ \A d \in Deleters : DeletionFits(d)
    /\ LiveImagesKept
    /\ InPlace
    /\ OneCurrent
    /\ TombstonesClean

--------------------------------------------------------------------------------
(* Uploads *)

\* The row of an upload comes to exist with its file: while the upload waits
\* for its commit the coordinator keeps the reconciler away from the file.
LEMMA UploadSteps ==
    ASSUME ReleasesInv, UploadStep \/ \E r \in Versions : WriteUpload(r)
    PROVE  ReleasesInv'
<1> USE DEF ReleasesInv, ReleasesTyped, OneHolder, RowsHeld, UploadFits, DeletionFits, Failed,
            Unserved, Referenced, TombstonesClean, OneCurrent, InPlace, LiveImagesKept, Live, files, fleet,
            Idle, Uploads
<1>1. ASSUME NEW r \in Versions, WriteUpload(r) PROVE ReleasesInv'
  BY <1>1 DEF WriteUpload, CoordinatorHeld
<1>2. CASE CommitUpload
  <2>1. /\ upload.release \in Versions /\ release[upload.release].state = "none"
        /\ upload.release \in pending
    BY <1>2 DEF CommitUpload
  <2>2. ~Referenced(upload.release)
    BY <2>1
  <2>3. /\ release' \in [Versions -> Rows] /\ release'[upload.release].state = "available"
        /\ \A q \in Versions \ {upload.release} : release'[q] = release[q]
    BY <1>2, <2>1 DEF CommitUpload, Rows, LifecycleStates
  <2>4. /\ upload'.phase = "committed" /\ upload' \in Uploads
        /\ UNCHANGED <<final, quarantined, pending, aged, deployment, install, running, deletion,
                       recon, stranded>>
    BY <1>2 DEF CommitUpload
  <2>5. ReleasesTyped' /\ OneHolder' /\ UploadFits'
    BY <2>3, <2>4
  <2>6. \A d \in Deleters : DeletionFits(d)'
    BY <1>2, <2>1, <2>3, <2>4 DEF CommitUpload
  <2>7. LiveImagesKept' /\ InPlace' /\ OneCurrent'
    BY <2>1, <2>2, <2>3, <2>4
  <2>8. TombstonesClean'
    BY <2>1, <2>3, <2>4
  <2>9. QED
    BY <2>5, <2>6, <2>7, <2>8
<1>3. CASE FailUpload
  BY <1>3 DEF FailUpload
<1>4. CASE RenameUpload
  BY <1>4 DEF RenameUpload
<1>5. CASE CrashUpload
  BY <1>5 DEF CrashUpload
<1> HIDE DEF ReleasesInv
<1>6. QED
  BY <1>1, <1>2, <1>3, <1>4, <1>5 DEF UploadStep

--------------------------------------------------------------------------------
(* Deletions *)

\* A deletion takes a release nobody serves, and overtakes its command.
LEMMA QuarantineStep ==
    ASSUME ReleasesInv, NEW d \in Deleters, NEW r \in Versions, QuarantineImage(d, r)
    PROVE  ReleasesInv'
<1>1. /\ release[r].state \in {"available", "archived"} /\ deployment[r] = "none"
      /\ \A e \in Deleters : deletion[e].phase # "moved"
      /\ install[r] \in {"none", "promoted"}
  BY DEF QuarantineImage, ImageDeletable, CoordinatorHeld, RowsHeld
<1>2. /\ upload.phase # "written" /\ recon.phase # "locked"
      /\ final' = final \ {r} /\ quarantined \subseteq quarantined'
      /\ quarantined' \subseteq Versions /\ (r \in final => r \in quarantined')
      /\ UNCHANGED <<release, pending, aged, deployment, running, upload, recon, stranded>>
  BY DEF QuarantineImage, CoordinatorHeld, ReleasesInv, ReleasesTyped
<1>3. /\ install' \in [Versions -> InstallCommands] /\ install'[r] \in {"none", "overtaken"}
      /\ \A q \in Versions \ {r} : install'[q] = install[q]
  BY <1>1 DEF QuarantineImage, InstallCommands, ReleasesInv, ReleasesTyped
<1>4. /\ deletion' \in [Deleters -> {Idle} \cup Deletions]
      /\ deletion'[d].phase = "moved" /\ deletion'[d].release = r
      /\ deletion'[d].inHand = ImageInHand(d, r)
      /\ \A e \in Deleters \ {d} : deletion'[e] = deletion[e]
  <2>1. ImageInHand(d, r) \in BOOLEAN
    BY DEF ImageInHand
  <2>2. QED
    BY <2>1 DEF QuarantineImage, ReleasesInv, ReleasesTyped, Deletions
<1>5. ReleasesTyped' /\ UploadFits'
  BY <1>2, <1>3, <1>4 DEF ReleasesInv, ReleasesTyped, UploadFits
<1>6. OneHolder'
  BY <1>1, <1>2, <1>4 DEF OneHolder, RowsHeld
<1>7. ASSUME NEW e \in Deleters PROVE DeletionFits(e)'
  <2>1. CASE e = d
    <3>1. ~ImageInHand(d, r) => r \notin pending /\ ~Failed(r)'
      BY <1>4 DEF ImageInHand, Failed
    <3>2. QED
      BY <1>1, <1>2, <1>3, <1>4, <2>1, <3>1 DEF DeletionFits, Unserved
  <2>2. CASE e # d
    <3>1. deletion'[e] = deletion[e] /\ deletion[e].phase # "moved"
      BY <1>1, <1>4, <2>2
    <3>2. QED
      BY <1>2, <3>1 DEF DeletionFits, ReleasesInv
  <2>3. QED
    BY <2>1, <2>2
<1>8. LiveImagesKept' /\ OneCurrent'
  BY <1>2 DEF ReleasesInv, LiveImagesKept, Live, OneCurrent
<1>9. InPlace'
  <2>1. ~Referenced(r)'
    BY <1>1, <1>2, <1>3 DEF Referenced
  <2>2. \A q \in Versions \ {r} : Referenced(q)' => Referenced(q)
    BY <1>2, <1>3 DEF Referenced
  <2>3. QED
    BY <1>1, <1>2, <2>1, <2>2 DEF ReleasesInv, InPlace, Live
<1>10. TombstonesClean'
  <2>1. \A q \in Versions : Failed(q)' => Failed(q)
    BY <1>4 DEF Failed
  <2>2. QED
    BY <1>2, <2>1 DEF ReleasesInv, TombstonesClean
<1>11. QED
  BY <1>5, <1>6, <1>7, <1>8, <1>9, <1>10 DEF ReleasesInv

\* The commit leaves a tombstone, without an image unless it was in other hands.
LEMMA CommitDeletionStep ==
    ASSUME ReleasesInv, NEW d \in Deleters, CommitDeletion(d)
    PROVE  ReleasesInv'
<1> DEFINE r == deletion[d].release
<1>1. DeletionFits(d) /\ deletion[d].phase = "moved" /\ deletion[d] \in Deletions
  BY DEF CommitDeletion, ReleasesInv, ReleasesTyped, Idle
<1>2. /\ r \in Versions /\ Unserved(r) /\ release[r].state \in {"available", "archived"}
      /\ (~deletion[d].inHand => r \notin final \cup pending /\ ~Failed(r))
      /\ stranded' = (IF deletion[d].inHand THEN stranded \cup {r} ELSE stranded)
      /\ UNCHANGED <<final, quarantined, pending, aged, deployment, install, running, upload, recon>>
  BY <1>1 DEF CommitDeletion, DeletionFits, Deletions, files, fleet
<1>3. /\ release' \in [Versions -> Rows] /\ release'[r].state = "deleted"
      /\ \A q \in Versions \ {r} : release'[q] = release[q]
  BY <1>2 DEF CommitDeletion, Rows, LifecycleStates, ReleasesInv, ReleasesTyped
<1>4. /\ deletion' \in [Deleters -> {Idle} \cup Deletions]
      /\ deletion'[d].phase = "committed" /\ deletion'[d].release = r
      /\ \A e \in Deleters \ {d} : deletion'[e] = deletion[e]
  BY <1>1 DEF CommitDeletion, ReleasesInv, ReleasesTyped, Deletions
<1> HIDE DEF r
<1>5. ReleasesTyped' /\ OneHolder'
  BY <1>2, <1>3, <1>4 DEF ReleasesInv, ReleasesTyped, OneHolder, RowsHeld
<1>6. UploadFits'
  BY <1>1, <1>2 DEF ReleasesInv, OneHolder, RowsHeld, UploadFits
<1>7. ASSUME NEW e \in Deleters PROVE DeletionFits(e)'
  <2>1. CASE e = d
    BY <1>3, <1>4, <2>1 DEF DeletionFits
  <2>2. CASE e # d
    <3>1. deletion'[e] = deletion[e] /\ deletion[e].phase # "moved" /\ DeletionFits(e)
      BY <1>1, <1>4, <2>2 DEF ReleasesInv, OneHolder
    <3>2. deletion[e].phase = "committed" => deletion[e].release \in Versions
      BY DEF ReleasesInv, ReleasesTyped, Idle, Deletions
    <3>3. QED
      BY <1>3, <3>1, <3>2 DEF DeletionFits
  <2>3. QED
    BY <2>1, <2>2
<1>8. LiveImagesKept' /\ OneCurrent'
  BY <1>2, <1>3 DEF ReleasesInv, LiveImagesKept, Live, OneCurrent
<1>9. InPlace'
  <2>1. ~Referenced(r) /\ \A q \in Versions : Referenced(q)' <=> Referenced(q)
    BY <1>2 DEF Referenced, Unserved
  <2>2. QED
    BY <1>2, <1>3, <2>1 DEF ReleasesInv, InPlace, Live, Unserved
<1>10. TombstonesClean'
  <2>1. \A q \in Versions : Failed(q)' => Failed(q)
    BY <1>1, <1>4 DEF Failed
  <2>2. QED
    BY <1>2, <1>3, <2>1 DEF ReleasesInv, TombstonesClean
<1>11. QED
  BY <1>5, <1>6, <1>7, <1>8, <1>9, <1>10 DEF ReleasesInv

\* A deletion takes the image of a release nobody serves, and purges it only
\* behind a tombstone.
LEMMA DeletionSteps ==
    ASSUME ReleasesInv, NEW d \in Deleters,
           DeletionStep(d) \/ \E r \in Versions : QuarantineImage(d, r)
    PROVE  ReleasesInv'
<1> USE DEF ReleasesInv, ReleasesTyped, OneHolder, RowsHeld, UploadFits, DeletionFits, Failed,
            Unserved, Referenced, TombstonesClean, OneCurrent, InPlace, LiveImagesKept, Live, files, fleet,
            Idle, Deletions
<1>1. ASSUME NEW r \in Versions, QuarantineImage(d, r) PROVE ReleasesInv'
  BY <1>1, QuarantineStep
<1>2. CASE CommitDeletion(d)
  BY <1>2, CommitDeletionStep
<1>3. CASE PurgeQuarantine(d)
  <2>1. deletion[d].release \in Versions /\ release[deletion[d].release].state = "deleted"
    BY <1>3 DEF PurgeQuarantine
  <2>2. QED
    BY <1>3, <2>1 DEF PurgeQuarantine
<1>4. CASE FailDeletion(d)
  BY <1>4 DEF FailDeletion
<1>5. CASE RestoreQuarantine(d)
  <2>1. /\ deletion[d].release \in Versions /\ Failed(deletion[d].release)
    BY <1>5 DEF RestoreQuarantine
  <2>2. QED
    BY <1>5, <2>1 DEF RestoreQuarantine
<1>6. CASE CrashDeletion(d)
  BY <1>6 DEF CrashDeletion
<1> HIDE DEF ReleasesInv
<1>7. QED
  BY <1>1, <1>2, <1>3, <1>4, <1>5, <1>6 DEF DeletionStep

--------------------------------------------------------------------------------
(* Lifecycle and deployments *)

\* Promotion leaves one current release: the prior one is demoted with it.
LEMMA PromotionStep ==
    ASSUME ReleasesInv, NEW r \in Versions, make_release_current(r)
    PROVE  ReleasesInv'
<1>1. /\ ReleasesTyped /\ release[r].state = "available" /\ r \in final
      /\ ~RowsHeld /\ upload.phase # "written"
      /\ UNCHANGED <<final, quarantined, pending, aged, deployment, install, running, upload, deletion,
                     recon, stranded>>
  BY DEF ReleasesInv, make_release_current, Available, CoordinatorHeld, files, fleet
<1>2. /\ release' \in [Versions -> Rows]
      /\ release'[r].state = "current"
      /\ \A q \in Versions \ {r} :
            release'[q].state = IF release[q].state = "current" THEN "available"
                                ELSE release[q].state
  <2> DEFINE Row(q) == CASE q = r -> [state |-> "current", pinned |-> FALSE]
                         [] q # r /\ release[q].state = "current" ->
                               [state |-> "available", pinned |-> TRUE]
                         [] OTHER -> release[q]
  <2>1. release' = [q \in Versions |-> Row(q)]
    BY DEF make_release_current
  <2>2. ASSUME NEW q \in Versions
        PROVE  /\ Row(q) \in Rows
               /\ q = r => Row(q).state = "current"
               /\ q # r /\ release[q].state = "current" => Row(q).state = "available"
               /\ q # r /\ release[q].state # "current" => Row(q).state = release[q].state
    <3>1. CASE q = r
      BY <3>1 DEF Rows, LifecycleStates
    <3>2. CASE q # r /\ release[q].state = "current"
      BY <3>2 DEF Rows, LifecycleStates
    <3>3. CASE q # r /\ release[q].state # "current"
      <4>1. Row(q) = release[q]
        BY <3>3
      <4>2. QED
        BY <1>1, <3>3, <4>1 DEF ReleasesTyped
    <3>4. QED
      BY <3>1, <3>2, <3>3
  <2> HIDE DEF Row
  <2>3. QED
    BY <2>1, <2>2
<1>3. ReleasesTyped' /\ OneHolder'
  BY <1>1, <1>2 DEF ReleasesInv, ReleasesTyped, OneHolder, RowsHeld
<1>4. UploadFits'
  BY <1>1 DEF UploadFits
<1>5. \A d \in Deleters : DeletionFits(d)'
  BY <1>1, <1>2 DEF ReleasesInv, ReleasesTyped, DeletionFits, Unserved, RowsHeld, Idle, Deletions
<1>6. OneCurrent'
  BY <1>2 DEF OneCurrent
<1>7. QED
  BY <1>1, <1>2, <1>3, <1>4, <1>5, <1>6
     DEF ReleasesInv, ReleasesTyped, LiveImagesKept, Live, InPlace, Referenced, TombstonesClean,
         Failed

\* The other requests that read a release or change its row.
LEMMA LifecycleSteps ==
    ASSUME ReleasesInv, NEW r \in Versions,
           \/ archive_firmware_release(r) \/ restore_firmware_release(r)
           \/ \E pinned \in BOOLEAN : update_rollback_pin(r, pinned)
           \/ \E staged \in BOOLEAN : Deploy(r, staged)
           \/ PromoteDeployment(r)
           \/ \E confirmed, commandEnds \in BOOLEAN : EndDeployment(r, confirmed, commandEnds)
           \/ EndInstall(r)
           \/ ReviveDeployment(r)
           \/ Age(r)
    PROVE  ReleasesInv'
<1> USE DEF ReleasesInv, ReleasesTyped, OneHolder, RowsHeld, UploadFits, DeletionFits, Failed,
            Unserved, Referenced, TombstonesClean, OneCurrent, InPlace, LiveImagesKept, Live, files, fleet
<1>1. CASE archive_firmware_release(r)
  BY <1>1 DEF archive_firmware_release, Lifecycle, Rows, LifecycleStates
<1>2. CASE restore_firmware_release(r)
  BY <1>2 DEF restore_firmware_release, Lifecycle, Available, Rows, LifecycleStates
<1>3. ASSUME NEW pinned \in BOOLEAN, update_rollback_pin(r, pinned) PROVE ReleasesInv'
  BY <1>3 DEF update_rollback_pin, CoordinatorHeld, Lifecycle, Rows, LifecycleStates
<1>4. ASSUME NEW staged \in BOOLEAN, Deploy(r, staged) PROVE ReleasesInv'
  BY <1>4 DEF Deploy, CoordinatorHeld, Available, DeploymentStates, InstallCommands
<1>5. CASE PromoteDeployment(r)
  BY <1>5 DEF PromoteDeployment, DeploymentStates, InstallCommands
<1>6. ASSUME NEW confirmed \in BOOLEAN, NEW commandEnds \in BOOLEAN,
             EndDeployment(r, confirmed, commandEnds)
      PROVE  ReleasesInv'
  <2>1. /\ deployment' \in [Versions -> DeploymentStates] /\ deployment'[r] = "none"
        /\ install' \in [Versions -> InstallCommands] /\ install'[r] \in {"none", install[r]}
        /\ \A q \in Versions \ {r} : deployment'[q] = deployment[q] /\ install'[q] = install[q]
    BY <1>6 DEF EndDeployment, DeploymentStates, InstallCommands
  <2>2. /\ running' \in 0 .. MaxVersion /\ ~RowsHeld
        /\ UNCHANGED <<release, final, quarantined, pending, aged, upload, deletion, recon, stranded>>
    BY <1>6 DEF EndDeployment, Versions
  <2>3. ReleasesTyped' /\ OneHolder' /\ UploadFits' /\ LiveImagesKept' /\ OneCurrent'
    BY <2>1, <2>2
  <2>4. \A d \in Deleters : DeletionFits(d)'
    BY <2>2
  <2>5. InPlace' /\ TombstonesClean'
    BY <2>1, <2>2
  <2>6. QED
    BY <2>3, <2>4, <2>5
<1>7. CASE EndInstall(r)
  BY <1>7 DEF EndInstall, InstallCommands
<1>8. CASE ReviveDeployment(r)
  BY <1>8 DEF ReviveDeployment, DeploymentStates, InstallCommands
<1>9. CASE Age(r)
  BY <1>9 DEF Age
<1> HIDE DEF ReleasesInv
<1>10. QED
  BY <1>1, <1>2, <1>3, <1>4, <1>5, <1>6, <1>7, <1>8, <1>9

--------------------------------------------------------------------------------
(* The reconciler *)

\* A pass touches files under the coordinator only, and by the row it finds.
LEMMA ReconcilerSteps ==
    ASSUME ReleasesInv,
           \/ \E r \in Versions : ReconcileDelete(r) \/ ReconcileUpload(r)
           \/ ScanDirectory \/ LockCoordinator \/ EndPass \/ CrashPass
    PROVE  ReleasesInv'
<1> USE DEF ReleasesInv, ReleasesTyped, OneHolder, RowsHeld, UploadFits, DeletionFits, Failed,
            Unserved, Referenced, TombstonesClean, OneCurrent, InPlace, LiveImagesKept, Live, files, fleet, Passes
<1>1. ASSUME NEW r \in Versions, ReconcileDelete(r) PROVE ReleasesInv'
  BY <1>1 DEF ReconcileDelete
<1>2. ASSUME NEW r \in Versions, ReconcileUpload(r) PROVE ReleasesInv'
  <2>1. /\ recon.phase = "locked" /\ recon' \in Passes /\ recon'.phase = "locked"
        /\ UNCHANGED <<release, quarantined, aged, deployment, install, running, upload, deletion,
                       stranded>>
    BY <1>2 DEF ReconcileUpload
  <2>2. /\ pending' \subseteq pending /\ final \subseteq final' /\ final' \subseteq Versions
        /\ \A q \in Versions : Live(q) /\ q \in pending => q \in pending' \cup final'
        /\ \A q \in Versions : q \in final' \ final => Live(q) /\ q \in pending
    BY <1>2 DEF ReconcileUpload
  <2>3. ReleasesTyped' /\ OneHolder' /\ UploadFits' /\ OneCurrent'
    BY <2>1, <2>2
  <2>4. \A d \in Deleters : DeletionFits(d)'
    BY <2>1, <2>2
  <2>5. LiveImagesKept' /\ InPlace' /\ TombstonesClean'
    BY <2>1, <2>2
  <2>6. QED
    BY <2>3, <2>4, <2>5
<1>3. CASE ScanDirectory
  BY <1>3 DEF ScanDirectory
<1>4. CASE LockCoordinator
  BY <1>4 DEF LockCoordinator, CoordinatorHeld
<1>5. CASE EndPass
  BY <1>5 DEF EndPass, NoPass
<1>6. CASE CrashPass
  BY <1>6 DEF CrashPass, NoPass
<1> HIDE DEF ReleasesInv
<1>7. QED
  BY <1>1, <1>2, <1>3, <1>4, <1>5, <1>6

--------------------------------------------------------------------------------

\* Every step of the releases and their images keeps the invariant.
LEMMA ReleasesStep == ReleasesInv /\ [ReleasesNext]_releaseVars => ReleasesInv'
<1> SUFFICES ASSUME ReleasesInv, [ReleasesNext]_releaseVars PROVE ReleasesInv'
  OBVIOUS
<1>1. CASE UNCHANGED releaseVars
  BY <1>1 DEF releaseVars, ReleasesInv, ReleasesTyped, OneHolder, RowsHeld, UploadFits,
              DeletionFits, Failed, Unserved, Referenced, TombstonesClean, OneCurrent, InPlace,
              LiveImagesKept, Live
<1>2. CASE ReleasesNext
  BY <1>2, UploadSteps, DeletionSteps, PromotionStep, LifecycleSteps, ReconcilerSteps
     DEF ReleasesNext
<1>3. QED
  BY <1>1, <1>2

\* A set with at most one element is finite and has cardinality 0 or 1.
LEMMA AtMostOne ==
    ASSUME NEW S, \A x, y \in S : x = y
    PROVE  Cardinality(S) <= 1
<1>1. CASE S = {}
  BY <1>1, FS_EmptySet
<1>2. CASE S # {}
  <2>1. PICK x \in S : TRUE
    BY <1>2
  <2>2. S = {x}
    BY <2>1
  <2>3. QED
    BY <2>2, FS_Singleton
<1>3. QED
  BY <1>1, <1>2

\* Rows and files of releases agree across crashes, failed commits and the
\* reconciler: no live image is lost, what is served is in place - the
\* release of a revived deployment too, archived perhaps - and what is
\* deleted is gone unless somebody else was about to put it back.
THEOREM ImagesCorrect == ReleasesSpec => []ImagesSound
<1>1. ReleasesInit => ReleasesInv
  BY ReleasesAssumption
     DEF ReleasesInit, ReleasesInv, ReleasesTyped, OneHolder, RowsHeld, UploadFits, DeletionFits,
         Failed, Unserved, Referenced, TombstonesClean, OneCurrent, InPlace, LiveImagesKept, Live,
         Idle, NoPass, Rows, LifecycleStates, Passes, DeploymentStates, InstallCommands
<1>2. ReleasesInv => ImagesSound
  <2> SUFFICES ASSUME ReleasesInv PROVE ImagesSound
    OBVIOUS
  <2>1. ReleasesTypeOK
    BY DEF ReleasesInv, ReleasesTyped, ReleasesTypeOK, Rows, Idle, Uploads, Deletions, Passes
  <2>2. Cardinality({r \in Versions : release[r].state = "current"}) <= 1
    BY AtMostOne DEF ReleasesInv, OneCurrent
  <2>3. ServedImagesInPlace
    BY <2>2 DEF ReleasesInv, InPlace, Referenced, ServedImagesInPlace
  <2>4. TombstonesHaveNoImage
    BY DEF ReleasesInv, TombstonesClean, TombstonesHaveNoImage
  <2>5. QED
    BY <2>1, <2>3, <2>4 DEF ReleasesInv, ImagesSound
<1>3. QED
  BY <1>1, <1>2, ReleasesStep, PTL DEF ReleasesSpec
================================================================================
