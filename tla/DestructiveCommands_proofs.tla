----------------------- MODULE DestructiveCommands_proofs -----------------------
(***************************************************************************)
(* Proofs about DestructiveCommands, for any number of prepares, commits   *)
(* and sequences.                                                          *)
(*                                                                         *)
(* Most steps are quiet: they move commands along, drop tokens or raise    *)
(* the maximum, but neither queue a commit nor complete a data reset, and  *)
(* QuietPreserves covers them all.  Three are not: a new prepare, a        *)
(* confirmed commit, and the completion of a data reset.                   *)
(***************************************************************************)
EXTENDS DestructiveCommands, FiniteSetTheorems, TLAPS

\* No command that exists is forgotten.
CommandsKept(d, e) == \A c \in Commands : d.cmd[c] # "none" => e.cmd[c] # "none"

\* A step from d to e that queues no commit and completes no reset.
Quiet(d, e) ==
    /\ d \in Rows /\ e \in Rows
    /\ e.gen = d.gen
    /\ e.order = d.order
    /\ \A p \in Prepares : /\ d.token[p] = "gone" => e.token[p] = "gone"
                           /\ d.ready[p] # NotReady => e.ready[p] # NotReady
                           /\ Completed(e, p) <=> Completed(d, p)
    /\ \A p \in Prepares, i \in Copies :
          e.cmd[Commit(p, i)] # "none" => d.cmd[Commit(p, i)] # "none"
    /\ SucceededIsReady(e)

\* Commands are told apart by role, prepare and number.
LEMMA CommandFacts ==
    /\ \A p \in Prepares : Prepare(p) \in Commands
    /\ \A p \in Prepares, i \in Copies : Commit(p, i) \in Commands
    /\ \A p, q \in Prepares, i \in Copies : Prepare(p) # Commit(q, i)
    /\ \A p, q \in Prepares : Prepare(p) = Prepare(q) => p = q
    /\ \A p, q \in Prepares, i, j \in Copies : Commit(p, i) = Commit(q, j) => p = q /\ i = j
    /\ \A p \in Prepares : Prepare(p)[1] = "prepare" /\ Prepare(p)[2] = p
    /\ \A p \in Prepares, i \in Copies : Commit(p, i)[1] = "commit" /\ Commit(p, i)[2] = p
    /\ \A c \in Commands : \/ \E p \in Prepares : c = Prepare(p)
                           \/ \E p \in Prepares, i \in Copies : c = Commit(p, i)
    /\ NoResult \notin Commands
BY DEF Commands, Prepare, Commit, NoResult

\* A quiet step preserves the invariant of the rows.
LEMMA QuietPreserves ==
    ASSUME NEW d, NEW e, DBInv(d), Quiet(d, e)
    PROVE  DBInv(e)
<1>1. CommitsConfirmed(e)
  BY DEF DBInv, Quiet, CommitsConfirmed, Rows
<1>2. ResetsCounted(e)
  <2>1. e.gen = d.gen /\ e.order = d.order /\ \A p \in Prepares : Completed(e, p) <=> Completed(d, p)
    BY DEF Quiet
  <2>2. QED
    BY <2>1 DEF DBInv, ResetsCounted
<1>3. QED
  BY <1>1, <1>2 DEF DBInv, Quiet

\* A step that only moves commands and drops tokens is quiet when no command
\* succeeds and no commit is queued by it.
LEMMA MovesAreQuiet ==
    ASSUME NEW d, NEW e, DBInv(d), e \in Rows,
           e.gen = d.gen, e.order = d.order, e.ready = d.ready,
           \A p \in Prepares : d.token[p] = "gone" => e.token[p] = "gone",
           \A c \in Commands :
              /\ d.cmd[c] # "none" => e.cmd[c] # "none"
              /\ e.cmd[c] = "succeeded" => d.cmd[c] = "succeeded",
           \A p \in Prepares, i \in Copies :
              /\ e.cmd[Commit(p, i)] # "none" => d.cmd[Commit(p, i)] # "none"
              /\ d.cmd[Commit(p, i)] = "succeeded" => e.cmd[Commit(p, i)] = "succeeded"
    PROVE  Quiet(d, e) /\ CommandsKept(d, e)
<1>1. SucceededIsReady(e)
  BY CommandFacts DEF DBInv, SucceededIsReady
<1>2. \A p \in Prepares : Completed(e, p) <=> Completed(d, p)
  BY CommandFacts DEF Completed
<1>3. QED
  BY <1>1, <1>2, CommandFacts DEF Quiet, CommandsKept, DBInv

\* deliver_commands, its expiry pass: quiet.
LEMMA ExpireCommandsQuiet ==
    ASSUME NEW d, DBInv(d), NEW over
    PROVE  DBInv(ExpireCommands(d, over)) /\ CommandsKept(d, ExpireCommands(d, over))
<1> DEFINE e == ExpireCommands(d, over)
           S == {c \in Commands : c[2] \in over /\ d.cmd[c] \in {"queued", "delivered"}}
<1>1. d \in Rows
  BY DEF DBInv
<1>2. /\ e.cmd = [c \in Commands |-> IF c \in S THEN "expired" ELSE d.cmd[c]]
      /\ e.gen = d.gen /\ e.order = d.order /\ e.ready = d.ready
      /\ e \in Rows
      /\ \A p \in Prepares : d.token[p] = "gone" => e.token[p] = "gone"
  BY <1>1 DEF ExpireCommands, Redact, Rows, CommandStates, TERMINAL_STATES
<1>3. \A c \in S : d.cmd[c] # "none" /\ d.cmd[c] # "succeeded"
  OBVIOUS
<1> HIDE DEF e, S
<1>4. Quiet(d, e) /\ CommandsKept(d, e)
  BY <1>2, <1>3, CommandFacts, MovesAreQuiet
<1>5. QED
  BY <1>4, QuietPreserves DEF e

\* deliver_commands, its delivery loop: quiet.
LEMMA DeliverCommandsQuiet ==
    ASSUME NEW d, DBInv(d), NEW over, NEW failed \in SUBSET Deliverable(d, over),
           NEW sent \in SUBSET Deliverable(d, over)
    PROVE  DBInv(DeliverCommands(d, failed, sent)) /\ CommandsKept(d, DeliverCommands(d, failed, sent))
<1> DEFINE e == DeliverCommands(d, failed, sent)
<1>1. d \in Rows
  BY DEF DBInv
<1>2. /\ e.cmd = [c \in Commands |-> IF c \in failed THEN "failed"
                                     ELSE IF c \in sent THEN "delivered" ELSE d.cmd[c]]
      /\ e.gen = d.gen /\ e.order = d.order /\ e.ready = d.ready /\ e.token = d.token
      /\ e \in Rows
  BY <1>1 DEF DeliverCommands, Rows, CommandStates, TERMINAL_STATES
<1>3. \A c \in failed \cup sent : d.cmd[c] # "none" /\ d.cmd[c] # "succeeded"
  BY DEF Deliverable
<1> HIDE DEF e
<1>4. Quiet(d, e) /\ CommandsKept(d, e)
  BY <1>2, <1>3, CommandFacts, MovesAreQuiet
<1>5. QED
  BY <1>4, QuietPreserves DEF e

\* expire_prepare_tokens: quiet.
LEMMA ExpirePrepareTokensQuiet ==
    ASSUME NEW d, DBInv(d), NEW over \in SUBSET Prepares
    PROVE  DBInv(ExpirePrepareTokens(d, over)) /\ CommandsKept(d, ExpirePrepareTokens(d, over))
<1> DEFINE e == ExpirePrepareTokens(d, over)
           S == {p \in over : d.token[p] = "live"}
<1>1. d \in Rows
  BY DEF DBInv
<1>2. /\ e.cmd = [c \in Commands |->
                     IF (\E p \in S : c = Prepare(p)) /\ d.cmd[c] \notin TERMINAL_STATES
                     THEN "expired" ELSE d.cmd[c]]
      /\ e.gen = d.gen /\ e.order = d.order /\ e.ready = d.ready
      /\ e \in Rows
      /\ \A p \in Prepares : d.token[p] = "gone" => e.token[p] = "gone"
  BY <1>1 DEF ExpirePrepareTokens, Redact, Rows, CommandStates, TERMINAL_STATES
<1> HIDE DEF e, S
<1>3. Quiet(d, e) /\ CommandsKept(d, e)
  <2>1. \A c \in Commands : /\ d.cmd[c] # "none" => e.cmd[c] # "none"
                            /\ e.cmd[c] = "succeeded" => d.cmd[c] = "succeeded"
    BY <1>2
  <2>2. \A p \in Prepares, i \in Copies : e.cmd[Commit(p, i)] = d.cmd[Commit(p, i)]
    BY <1>2, CommandFacts DEF S
  <2>3. QED
    BY <1>2, <2>1, <2>2, MovesAreQuiet
<1>4. QED
  BY <1>3, QuietPreserves DEF e

\* A prepare that ends: the repeated request, and the cancel route.
LEMMA PrepareEndsQuiet ==
    ASSUME NEW d, DBInv(d), NEW p \in Prepares, NEW state \in {"expired", "cancelled"}
    PROVE  LET e == SetCommand(Redact(d, {p}), Prepare(p), state)
           IN  DBInv(e) /\ CommandsKept(d, e)
<1> DEFINE e == SetCommand(Redact(d, {p}), Prepare(p), state)
<1>1. d \in Rows
  BY DEF DBInv
<1>2. /\ e.cmd = [d.cmd EXCEPT ![Prepare(p)] = state]
      /\ e.gen = d.gen /\ e.order = d.order /\ e.ready = d.ready
      /\ e \in Rows
      /\ \A q \in Prepares : d.token[q] = "gone" => e.token[q] = "gone"
  BY <1>1, CommandFacts DEF SetCommand, Redact, Rows, CommandStates, TERMINAL_STATES
<1> HIDE DEF e
<1>3. \A c \in Commands : e.cmd[c] = IF c = Prepare(p) THEN state ELSE d.cmd[c]
  BY <1>1, <1>2, CommandFacts DEF Rows
<1>4. Quiet(d, e) /\ CommandsKept(d, e)
  <2>1. \A c \in Commands : /\ d.cmd[c] # "none" => e.cmd[c] # "none"
                            /\ e.cmd[c] = "succeeded" => d.cmd[c] = "succeeded"
    BY <1>3
  <2>2. \A q \in Prepares, i \in Copies : e.cmd[Commit(q, i)] = d.cmd[Commit(q, i)]
    BY <1>3, CommandFacts
  <2>3. /\ e \in Rows /\ e.gen = d.gen /\ e.order = d.order /\ e.ready = d.ready
        /\ \A q \in Prepares : d.token[q] = "gone" => e.token[q] = "gone"
    BY <1>2
  <2>4. QED
    BY <2>1, <2>2, <2>3, MovesAreQuiet
<1>5. QED
  BY <1>4, QuietPreserves DEF e

\* apply_command_results: an accepted result of a command that exists.
LEMMA ApplyResultPreserves ==
    ASSUME NEW d, DBInv(d), NEW c \in Commands \cup {NoResult},
           NEW result \in ResultStates \cup {"none"}, NEW floor \in 0 .. MaxSeq,
           c \in Commands => d.cmd[c] # "none" /\ result # "none",
           ResultAccepted(d, c, result, floor)
    PROVE  LET e == ApplyResult(d, c, result, floor)
           IN  DBInv(e) /\ CommandsKept(d, e) /\ e.max >= d.max
<1> DEFINE e == ApplyResult(d, c, result, floor)
           s == SetCommand(d, c, result)
<1>1. d \in Rows /\ CommitsConfirmed(d) /\ SucceededIsReady(d) /\ ResetsCounted(d)
  BY DEF DBInv
<1>2. d.max \in Int
  BY <1>1 DEF Rows
<1>3. CASE c = NoResult \/ d.cmd[c] \in TERMINAL_STATES
  BY <1>2, <1>3 DEF ApplyResult, CommandsKept
<1>4. CASE c # NoResult /\ d.cmd[c] \notin TERMINAL_STATES
  <2> USE <1>4
  <2>1. c \in Commands /\ result \in ResultStates /\ d.cmd[c] # "none"
    BY <1>4
  <2>2. /\ s \in Rows
        /\ s.cmd = [d.cmd EXCEPT ![c] = result]
        /\ s.token = d.token /\ s.order = d.order /\ s.ready = d.ready
        /\ s.gen = d.gen /\ s.max = d.max
    BY <1>1, <2>1 DEF SetCommand, Rows, ResultStates, CommandStates, TERMINAL_STATES
  <2> HIDE DEF s
  <2>3. \A x \in Commands : s.cmd[x] = IF x = c THEN result ELSE d.cmd[x]
    BY <1>1, <2>2 DEF Rows
  <2>4. CASE \E p \in Prepares : c = Prepare(p)
    <3> PICK p \in Prepares : c = Prepare(p)
      BY <2>4
    <3>1. c[1] = "prepare" /\ c[2] = p
      BY CommandFacts
    <3>2. CASE result = "succeeded"
      <4>1. e = [s EXCEPT !.ready = [d.ready EXCEPT ![p] = floor]]
        BY <3>1, <3>2 DEF ApplyResult, s
      <4>2. /\ e \in Rows
            /\ e.cmd = s.cmd /\ e.token = d.token /\ e.order = d.order
            /\ e.gen = d.gen /\ e.max = d.max
            /\ \A q \in Prepares : e.ready[q] = IF q = p THEN floor ELSE d.ready[q]
            /\ floor # NotReady
        BY <4>1, <2>2, <1>1 DEF Rows, NotReady
      <4> HIDE DEF e
      <4>3. \A q \in Prepares, i \in Copies : e.cmd[Commit(q, i)] = d.cmd[Commit(q, i)]
        BY <4>2, <2>3, CommandFacts
      <4>4. SucceededIsReady(e)
        BY <4>2, <2>3, <1>1, CommandFacts DEF SucceededIsReady
      <4>5. \A q \in Prepares : Completed(e, q) <=> Completed(d, q)
        BY <4>2, <4>3 DEF Completed
      <4>6. Quiet(d, e)
        BY <1>1, <4>2, <4>3, <4>4, <4>5 DEF Quiet
      <4>7. CommandsKept(d, e)
        BY <4>2, <2>3, <3>2 DEF CommandsKept
      <4>8. QED
        BY <4>2, <4>6, <4>7, <1>2, QuietPreserves DEF e
    <3>3. CASE result # "succeeded"
      <4>1. e = IF result = "failed" THEN Redact(s, {p}) ELSE s
        BY <3>1, <3>3 DEF ApplyResult, s, ResultStates
      <4>2. /\ e \in Rows
            /\ e.cmd = s.cmd /\ e.ready = d.ready /\ e.order = d.order
            /\ e.gen = d.gen /\ e.max = d.max
            /\ \A q \in Prepares : d.token[q] = "gone" => e.token[q] = "gone"
        BY <4>1, <2>2, <1>1 DEF Redact, Rows
      <4> HIDE DEF e
      <4>3. Quiet(d, e) /\ CommandsKept(d, e)
        BY <4>2, <2>1, <2>3, <3>3, CommandFacts, MovesAreQuiet DEF ResultStates
      <4>4. QED
        BY <4>2, <4>3, <1>2, QuietPreserves DEF e
    <3>4. QED
      BY <3>2, <3>3
  <2>5. CASE \E p \in Prepares, i \in Copies : c = Commit(p, i)
    <3> PICK p \in Prepares, i \in Copies : c = Commit(p, i)
      BY <2>5
    <3>1. c[1] = "commit" /\ c[2] = p
      BY CommandFacts
    <3>2. d.token[p] = "gone" /\ d.ready[p] # NotReady
      BY <1>1, <2>1 DEF CommitsConfirmed
    <3>3. \A q \in Prepares : s.cmd[Prepare(q)] = d.cmd[Prepare(q)]
      BY <2>3, CommandFacts
    <3>4. CASE result = "succeeded" /\ d.order[p].kind = "reset"
      <4>1. e = [s EXCEPT !.gen = d.order[p].gen, !.max = d.ready[p]]
        BY <3>1, <3>4, <2>2 DEF ApplyResult, ResetTo, s
      <4>2. d.order[p].gen = d.gen + 1 /\ d.ready[p] >= d.max
        BY <3>1, <3>4 DEF ResultAccepted, CompletionAccepted
      <4>3. d.gen \in Nat /\ d.ready[p] \in 0 .. MaxSeq
        BY <1>1, <3>2, ConstantsAssumption DEF Rows, NotReady
      <4>4. /\ e \in Rows
            /\ e.cmd = s.cmd /\ e.token = d.token /\ e.order = d.order /\ e.ready = d.ready
            /\ e.gen = d.gen + 1 /\ e.max = d.ready[p]
        <5>1. d.order[p].gen \in Nat /\ d.ready[p] \in 0 .. MaxSeq
          BY <4>2, <4>3
        <5>2. [s EXCEPT !.gen = d.order[p].gen, !.max = d.ready[p]] \in Rows
          BY <5>1, <2>2 DEF Rows
        <5> HIDE DEF e
        <5>3. /\ e.cmd = s.cmd /\ e.token = s.token /\ e.order = s.order /\ e.ready = s.ready
              /\ e.gen = d.order[p].gen /\ e.max = d.ready[p]
          BY <4>1, <2>2 DEF Rows
        <5>4. QED
          BY <5>2, <5>3, <4>1, <4>2, <2>2
      <4> HIDE DEF e
      <4>5. \A q \in Prepares : Completed(e, q) <=> Completed(d, q) \/ q = p
        BY <4>4, <2>3, <3>4, CommandFacts DEF Completed
      <4>6. ResetsCounted(e)
        <5>1. \A q \in Prepares : Completed(d, q) => d.order[q].gen \in 1 .. d.gen
          BY <1>1 DEF ResetsCounted
        <5>2. \A q \in Prepares : Completed(e, q) => e.order[q].gen \in 1 .. e.gen
          BY <5>1, <4>2, <4>3, <4>4, <4>5
        <5>3. ASSUME NEW q \in Prepares, NEW r \in Prepares, Completed(e, q), Completed(e, r),
                     e.order[q].gen = e.order[r].gen
              PROVE  q = r
          <6>1. CASE Completed(d, q) /\ Completed(d, r)
            BY <5>3, <6>1, <4>4, <1>1 DEF ResetsCounted
          <6>2. CASE ~ Completed(d, q) \/ ~ Completed(d, r)
            BY <5>3, <6>2, <5>1, <4>2, <4>3, <4>4, <4>5
          <6>3. QED
            BY <6>1, <6>2
        <5>4. ASSUME NEW g \in 1 .. e.gen
              PROVE  \E q \in Prepares : Completed(e, q) /\ e.order[q].gen = g
          <6>1. CASE g = d.gen + 1
            BY <6>1, <4>2, <4>4, <4>5
          <6>2. CASE g # d.gen + 1
            <7>1. g \in 1 .. d.gen
              BY <6>2, <4>3, <4>4
            <7>2. QED
              BY <7>1, <4>4, <4>5, <1>1 DEF ResetsCounted
          <6>3. QED
            BY <6>1, <6>2
        <5>5. QED
          BY <5>2, <5>3, <5>4 DEF ResetsCounted
      <4>7. CommitsConfirmed(e)
        <5>1. \A q \in Prepares, j \in Copies :
                 e.cmd[Commit(q, j)] # "none" => d.cmd[Commit(q, j)] # "none"
          BY <4>4, <2>1, <2>3, CommandFacts
        <5>2. QED
          BY <5>1, <4>4, <1>1 DEF CommitsConfirmed
      <4>8. SucceededIsReady(e)
        BY <4>4, <3>3, <1>1 DEF SucceededIsReady
      <4>9. CommandsKept(d, e)
        BY <4>4, <2>3, <3>4 DEF CommandsKept
      <4>10. QED
        BY <4>2, <4>4, <4>6, <4>7, <4>8, <4>9 DEF DBInv, e
    <3>5. CASE ~ (result = "succeeded" /\ d.order[p].kind = "reset")
      <4>1. e = s
        BY <3>1, <3>5 DEF ApplyResult, s
      <4> HIDE DEF e
      <4>2. \A q \in Prepares, j \in Copies :
               e.cmd[Commit(q, j)] # "none" => d.cmd[Commit(q, j)] # "none"
        BY <4>1, <2>1, <2>3, CommandFacts
      <4>3. \A q \in Prepares : Completed(e, q) <=> Completed(d, q)
        BY <4>1, <2>2, <2>3, <3>5, CommandFacts DEF Completed, TERMINAL_STATES
      <4>4. SucceededIsReady(e)
        BY <4>1, <2>2, <3>3, <1>1 DEF SucceededIsReady
      <4>5. Quiet(d, e)
        BY <1>1, <2>2, <4>1, <4>2, <4>3, <4>4 DEF Quiet
      <4>6. CommandsKept(d, e)
        BY <4>1, <2>1, <2>3 DEF CommandsKept, ResultStates
      <4>7. QED
        BY <4>1, <4>5, <4>6, <2>2, <1>2, QuietPreserves DEF e
    <3>6. QED
      BY <3>4, <3>5
  <2>6. QED
    BY <2>1, <2>4, <2>5, CommandFacts
<1>5. QED
  BY <1>3, <1>4

\* A new prepare: no commit refers to it yet.
LEMMA QueuePreparePreserves ==
    ASSUME IndInv, NEW p \in Prepares, QueuePrepare(p)
    PROVE  DBInv(db') /\ CommandsKept(db, db') /\ db'.max = db.max
<1>1. /\ db \in Rows /\ form \in Forms
      /\ CommitsConfirmed(db) /\ SucceededIsReady(db) /\ ResetsCounted(db)
  BY DEF IndInv, DBInv, TypeOK
<1>2. db.token[p] = "none"
  BY DEF QueuePrepare
<1>3. /\ db' \in Rows
      /\ db'.cmd = [db.cmd EXCEPT ![Prepare(p)] = "queued"]
      /\ db'.token = [db.token EXCEPT ![p] = "live"]
      /\ db'.order = [db.order EXCEPT ![p] = form]
      /\ db'.ready = db.ready /\ db'.gen = db.gen /\ db'.max = db.max
  BY <1>1, CommandFacts DEF QueuePrepare, SetCommand, Rows, CommandStates
<1>4. /\ \A c \in Commands : db'.cmd[c] = IF c = Prepare(p) THEN "queued" ELSE db.cmd[c]
      /\ \A q \in Prepares : db'.token[q] = IF q = p THEN "live" ELSE db.token[q]
      /\ \A q \in Prepares : q # p => db'.order[q] = db.order[q]
  BY <1>1, <1>3 DEF Rows
<1>5. \A q \in Prepares, i \in Copies : db'.cmd[Commit(q, i)] = db.cmd[Commit(q, i)]
  BY <1>4, CommandFacts
<1>6. \A i \in Copies : db.cmd[Commit(p, i)] = "none"
  BY <1>1, <1>2 DEF CommitsConfirmed
<1>7. \A q \in Prepares : /\ Completed(db', q) <=> Completed(db, q)
                          /\ Completed(db, q) => db'.order[q] = db.order[q]
  <2>1. ~ Completed(db, p) /\ ~ Completed(db', p)
    BY <1>5, <1>6 DEF Completed
  <2>2. \A q \in Prepares : q # p => (Completed(db', q) <=> Completed(db, q))
    BY <1>4, <1>5 DEF Completed
  <2>3. QED
    BY <1>4, <2>1, <2>2
<1>8. CommitsConfirmed(db')
  BY <1>1, <1>3, <1>4, <1>5, <1>6 DEF CommitsConfirmed
<1>9. SucceededIsReady(db')
  BY <1>1, <1>3, <1>4, CommandFacts DEF SucceededIsReady
<1>10. ResetsCounted(db')
  <2>1. \A q \in Prepares : Completed(db', q) => db'.order[q].gen \in 1 .. db'.gen
    BY <1>1, <1>3, <1>7 DEF ResetsCounted
  <2>2. \A q, r \in Prepares : Completed(db', q) /\ Completed(db', r)
                                  /\ db'.order[q].gen = db'.order[r].gen => q = r
    BY <1>1, <1>7 DEF ResetsCounted
  <2>3. \A g \in 1 .. db'.gen : \E q \in Prepares : Completed(db', q) /\ db'.order[q].gen = g
    <3>1. db'.gen = db.gen
      BY <1>3
    <3>2. QED
      BY <1>1, <1>7, <3>1 DEF ResetsCounted
  <2>4. QED
    BY <2>1, <2>2, <2>3 DEF ResetsCounted
<1>11. QED
  BY <1>3, <1>4, <1>8, <1>9, <1>10 DEF DBInv, CommandsKept

\* A confirmed commit: its token was live, so it is the first of its prepare.
LEMMA QueueCommitPreserves ==
    ASSUME IndInv, NEW p \in Prepares, NEW i \in Copies, QueueCommit(p, i)
    PROVE  DBInv(db') /\ CommandsKept(db, db') /\ db'.max = db.max
<1>1. db \in Rows /\ CommitsConfirmed(db) /\ SucceededIsReady(db) /\ ResetsCounted(db)
  BY DEF IndInv, DBInv
<1>2. db.token[p] = "live" /\ db.cmd[Prepare(p)] = "succeeded" /\ db.cmd[Commit(p, i)] = "none"
  BY DEF QueueCommit, TokenValid, IsNext
<1>3. /\ db' \in Rows
      /\ db'.cmd = [db.cmd EXCEPT ![Commit(p, i)] = "queued"]
      /\ db'.token = [db.token EXCEPT ![p] = "gone"]
      /\ db'.order = db.order /\ db'.ready = db.ready /\ db'.gen = db.gen /\ db'.max = db.max
  BY <1>1, CommandFacts DEF QueueCommit, TokenConsumed, SetCommand, Rows, CommandStates
<1>4. /\ \A c \in Commands : db'.cmd[c] = IF c = Commit(p, i) THEN "queued" ELSE db.cmd[c]
      /\ \A q \in Prepares : db'.token[q] = IF q = p THEN "gone" ELSE db.token[q]
  BY <1>1, <1>3 DEF Rows
<1>5. \A j \in Copies : db.cmd[Commit(p, j)] = "none"
  BY <1>1, <1>2 DEF CommitsConfirmed
<1>6. \A q \in Prepares, j \in Copies : q # p \/ j # i =>
         db'.cmd[Commit(q, j)] = db.cmd[Commit(q, j)]
  BY <1>4, CommandFacts
<1>7. db.ready[p] # NotReady
  BY <1>1, <1>2 DEF SucceededIsReady
<1>8. CommitsConfirmed(db')
  BY <1>1, <1>3, <1>4, <1>5, <1>6, <1>7 DEF CommitsConfirmed
<1>9. SucceededIsReady(db')
  BY <1>1, <1>3, <1>4, CommandFacts DEF SucceededIsReady
<1>10. \A q \in Prepares : Completed(db', q) <=> Completed(db, q)
  BY <1>3, <1>4, <1>5, CommandFacts DEF Completed
<1>11. ResetsCounted(db')
  BY <1>1, <1>3, <1>10 DEF ResetsCounted
<1>12. QED
  BY <1>3, <1>4, <1>8, <1>9, <1>11 DEF DBInv, CommandsKept

\* A heartbeat: the result, expiry and delivery, one after the other.
LEMMA HeartbeatPreserves ==
    ASSUME IndInv, NEW c \in Commands \cup {NoResult},
           NEW result \in ResultStates \cup {"none"}, NEW floor \in 0 .. MaxSeq,
           Heartbeat(c, result, floor)
    PROVE  IndInv' /\ db'.max >= db.max
<1> DEFINE a == ApplyResult(db, c, result, floor)
           e == ExpireCommands(a, elapsed)
<1>1. DBInv(db) /\ seen \subseteq Commands /\ \A x \in seen : db.cmd[x] # "none"
  BY DEF IndInv, TypeOK
<1>2. c \in seen \cup {NoResult} /\ ResultAccepted(db, c, result, floor)
  BY DEF Heartbeat
<1>3. c \in Commands => db.cmd[c] # "none" /\ result # "none"
  BY <1>1, <1>2, CommandFacts DEF Heartbeat, ResultStates
<1>4. DBInv(a) /\ CommandsKept(db, a) /\ a.max >= db.max
  BY <1>1, <1>2, <1>3, ApplyResultPreserves
<1>5. PICK failed \in SUBSET Deliverable(e, elapsed) :
      \E sent \in SUBSET (Deliverable(e, elapsed) \ failed) :
          db' = DeliverCommands(e, failed, sent) /\ seen' \in {seen, seen \cup sent}
  BY DEF Heartbeat
<1>6. PICK sent \in SUBSET (Deliverable(e, elapsed) \ failed) :
          db' = DeliverCommands(e, failed, sent) /\ seen' \in {seen, seen \cup sent}
  BY <1>5
<1> HIDE DEF a
<1>7. DBInv(e) /\ CommandsKept(a, e)
  BY <1>4, ExpireCommandsQuiet
<1>8. e.max = a.max
  BY <1>4 DEF ExpireCommands, Redact, DBInv, Rows
<1>9. \A x \in sent : x \in Commands /\ e.cmd[x] # "none"
  BY <1>6 DEF Deliverable
<1> HIDE DEF e
<1>10. DBInv(db') /\ CommandsKept(e, db')
  BY <1>6, <1>7, DeliverCommandsQuiet
<1>11. db'.max = e.max
  BY <1>6, <1>7 DEF DeliverCommands, DBInv, Rows
<1>12. \A x \in seen' : x \in Commands /\ db'.cmd[x] # "none"
  BY <1>1, <1>4, <1>6, <1>7, <1>9, <1>10 DEF CommandsKept
<1>13. TypeOK'
  BY <1>10, <1>12 DEF Heartbeat, IndInv, TypeOK, DBInv
<1>14. QED
  BY <1>4, <1>8, <1>10, <1>11, <1>12, <1>13 DEF IndInv

\* What a device row yields is a payload of a prepare.
LEMMA PayloadTyped ==
    ASSUME NEW d \in Rows, NEW kind \in {"format", "reset"}
    PROVE  PayloadOf(d, kind) \in Forms
BY ConstantsAssumption DEF PayloadOf, Forms, Rows

\* Every step preserves the invariant, and none lowers the maximum.
LEMMA StepPreserves ==
    ASSUME IndInv, [Next]_vars
    PROVE  IndInv' /\ db'.max >= db.max
<1>1. /\ DBInv(db) /\ db \in Rows /\ db.max \in Int /\ form \in Forms
      /\ elapsed \subseteq Prepares
      /\ seen \subseteq Commands /\ \A x \in seen : db.cmd[x] # "none"
  BY DEF IndInv, TypeOK, DBInv, Rows
<1>2. NoForm \in Forms
  BY ConstantsAssumption DEF NoForm, Forms
<1>3. ASSUME DBInv(db'), CommandsKept(db, db'), db'.max >= db.max, form' \in Forms,
             elapsed' \subseteq Prepares, seen' = seen
      PROVE  IndInv' /\ db'.max >= db.max
  BY <1>1, <1>3 DEF IndInv, TypeOK, DBInv, CommandsKept
<1>4. CommandsKept(db, db)
  BY DEF CommandsKept
<1>5. ASSUME NEW kind \in {"format", "reset"}, ReadDevice(kind)
      PROVE  IndInv' /\ db'.max >= db.max
  BY <1>1, <1>3, <1>4, <1>5, PayloadTyped DEF ReadDevice
<1>6. ASSUME NEW p \in Prepares, QueuePrepare(p)
      PROVE  IndInv' /\ db'.max >= db.max
  <2>1. DBInv(db') /\ CommandsKept(db, db') /\ db'.max = db.max
    BY <1>6, QueuePreparePreserves
  <2>2. QED
    BY <1>1, <1>2, <1>3, <1>6, <2>1 DEF QueuePrepare
<1>7. ASSUME NEW p \in Prepares, RepeatPrepare(p)
      PROVE  IndInv' /\ db'.max >= db.max
  <2>1. DBInv(db') /\ CommandsKept(db, db')
    BY <1>1, <1>7, PrepareEndsQuiet DEF RepeatPrepare
  <2>2. db'.max = db.max
    BY <1>1, <1>7 DEF RepeatPrepare, SetCommand, Redact, Rows
  <2>3. QED
    BY <1>1, <1>3, <1>7, <2>1, <2>2 DEF RepeatPrepare
<1>8. ASSUME NEW p \in Prepares, NEW i \in Copies, QueueCommit(p, i)
      PROVE  IndInv' /\ db'.max >= db.max
  <2>1. DBInv(db') /\ CommandsKept(db, db') /\ db'.max = db.max
    BY <1>8, QueueCommitPreserves
  <2>2. QED
    BY <1>1, <1>3, <1>8, <2>1 DEF QueueCommit
<1>9. ASSUME NEW p \in Prepares, QueueCancel(p)
      PROVE  IndInv' /\ db'.max >= db.max
  <2>1. DBInv(db') /\ CommandsKept(db, db')
    BY <1>1, <1>9, PrepareEndsQuiet DEF QueueCancel
  <2>2. db'.max = db.max
    BY <1>1, <1>9 DEF QueueCancel, SetCommand, Redact, Rows
  <2>3. QED
    BY <1>1, <1>3, <1>9, <2>1, <2>2 DEF QueueCancel
<1>10. ASSUME NEW p \in Prepares, ExpiryPasses(p)
       PROVE  IndInv' /\ db'.max >= db.max
  BY <1>1, <1>3, <1>4, <1>10 DEF ExpiryPasses
<1>11. ASSUME WorkerExpiresTokens
       PROVE  IndInv' /\ db'.max >= db.max
  <2>1. DBInv(db') /\ CommandsKept(db, db')
    BY <1>1, <1>11, ExpirePrepareTokensQuiet DEF WorkerExpiresTokens
  <2>2. db'.max = db.max
    BY <1>1, <1>11 DEF WorkerExpiresTokens, ExpirePrepareTokens, Redact, Rows
  <2>3. QED
    BY <1>1, <1>3, <1>11, <2>1, <2>2 DEF WorkerExpiresTokens
<1>12. ASSUME ReadingsArrive
       PROVE  IndInv' /\ db'.max >= db.max
  <2>1. /\ db' \in Rows /\ db'.max = db.max + 1
        /\ db'.cmd = db.cmd /\ db'.token = db.token /\ db'.order = db.order
        /\ db'.ready = db.ready /\ db'.gen = db.gen
    BY <1>1, <1>12, ConstantsAssumption DEF ReadingsArrive, Rows
  <2>2. Quiet(db, db') /\ CommandsKept(db, db')
    BY <1>1, <2>1, MovesAreQuiet
  <2>3. DBInv(db')
    BY <1>1, <2>2, QuietPreserves
  <2>4. QED
    BY <1>1, <1>3, <1>12, <2>1, <2>2, <2>3 DEF ReadingsArrive
<1>13. CASE UNCHANGED vars
  BY <1>1, <1>3, <1>4, <1>13 DEF vars
<1>14. QED
  BY <1>5, <1>6, <1>7, <1>8, <1>9, <1>10, <1>11, <1>12, <1>13, HeartbeatPreserves DEF Next

\* IndInv holds in every reachable state: a prepare has a commit only when its
\* token was consumed and its sensor ready, and completed resets and
\* generations of the device correspond one to one.
THEOREM InductiveInvariant == Spec => []IndInv
<1>1. Init => IndInv
  BY CommandFacts, ConstantsAssumption DEF Init, IndInv, TypeOK, DBInv, Rows, Forms, NoForm,
     CommandStates, NotReady, CommitsConfirmed, SucceededIsReady, ResetsCounted, Completed
<1>2. IndInv /\ [Next]_vars => IndInv'
  BY StepPreserves
<1>3. QED
  BY <1>1, <1>2, PTL DEF Spec

\* Rows, requests and sequences keep their types.
THEOREM TypeCorrect == Spec => []TypeOK
BY InductiveInvariant, PTL DEF IndInv

\* validate_commit_token: a prepare has one commit command at most.
THEOREM UsedOnce == Spec => []ConfirmationUsedOnce
<1>1. IndInv => ConfirmationUsedOnce
  <2> SUFFICES ASSUME IndInv, NEW p \in Prepares
               PROVE  Cardinality(CommitsOf(db, p)) <= 1
    BY DEF ConfirmationUsedOnce
  <2>1. CASE CommitsOf(db, p) = {}
    BY <2>1, FS_EmptySet
  <2>2. CASE CommitsOf(db, p) # {}
    <3>1. PICK i \in Copies : i \in CommitsOf(db, p)
      BY <2>2 DEF CommitsOf
    <3>2. CommitsOf(db, p) = {i}
      BY <3>1 DEF IndInv, DBInv, CommitsConfirmed, CommitsOf
    <3>3. Cardinality({i}) = 1
      BY FS_Singleton
    <3>4. QED
      BY <3>2, <3>3
  <2>3. QED
    BY <2>1, <2>2
<1>2. QED
  BY <1>1, InductiveInvariant, PTL

\* A commit command exists only after the sensor reported the impact.
THEOREM ReadyFirst == Spec => []CommitFollowsReadiness
<1>1. IndInv => CommitFollowsReadiness
  BY DEF IndInv, DBInv, CommitsConfirmed, CommitFollowsReadiness, CommitsOf
<1>2. QED
  BY <1>1, InductiveInvariant, PTL

\* Each generation is the outcome of exactly one confirmed reset.
THEOREM Accounted == Spec => []GenerationsAccounted
<1>1. IndInv => GenerationsAccounted
  <2> SUFFICES ASSUME IndInv, NEW g \in 1 .. db.gen
               PROVE  Cardinality(CompletedTo(db, g)) = 1
    BY DEF GenerationsAccounted
  <2>1. PICK p \in Prepares : Completed(db, p) /\ db.order[p].gen = g
    BY DEF IndInv, DBInv, ResetsCounted
  <2>2. CompletedTo(db, g) = {p}
    BY <2>1 DEF IndInv, DBInv, ResetsCounted, CompletedTo
  <2>3. QED
    BY <2>2, FS_Singleton
<1>2. QED
  BY <1>1, InductiveInvariant, PTL

\* No step lowers maximum_sequence.
THEOREM MaximumKept == Spec => MaximumNeverMovesBack
<1>1. IndInv /\ [Next]_vars => [db'.max >= db.max]_vars
  BY StepPreserves
<1>2. QED
  BY <1>1, InductiveInvariant, PTL DEF Spec, MaximumNeverMovesBack
================================================================================
