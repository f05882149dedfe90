------------------------ MODULE CredentialRotation_proofs ------------------------
(***************************************************************************)
(* Proofs about CredentialRotation, for every number of key versions,      *)
(* every delivery limit and every set of request slots.                    *)
(*                                                                         *)
(* The argument follows a request through its transaction: each operator   *)
(* it applies to the rows (the reported result, the two expiry passes, the *)
(* delivery) is shown to preserve DBInv on its own, and to leave terminal  *)
(* command states and commands that exist alone.                           *)
(***************************************************************************)
EXTENDS CredentialRotation, FiniteSetTheorems, TLAPS

\* What a step on the rows may never do to a command: forget it, or change a
\* terminal state.
CommandsKept(d, e) ==
    \A c \in Commands : /\ d.cmd[c] # "none" => e.cmd[c] # "none"
                        /\ d.cmd[c] \in TERMINAL_STATES => e.cmd[c] = d.cmd[c]

\* Facts about the constant sets that every proof below uses.
LEMMA CommandFacts ==
    /\ \A p \in Phases, k \in Keys : <<p, k>> \in Commands
    /\ \A c \in Commands : c = <<c[1], c[2]>> /\ c[1] \in Phases /\ c[2] \in Keys
    /\ NoResult \notin Commands
BY DEF Commands, Phases, NoResult

\* expire_rotation_credentials preserves the invariant of the rows.
LEMMA ExpireRotationsPreserves ==
    ASSUME NEW d, DBInv(d), NEW over \in SUBSET Keys
    PROVE  /\ DBInv(ExpireRotationCredentials(d, over))
           /\ CommandsKept(d, ExpireRotationCredentials(d, over))
<1> DEFINE S == {k \in over : Open(d, k)}
           e == ExpireRotationCredentials(d, over)
<1>1. /\ e.cred = [k \in Keys |-> IF k \in S THEN "revoked" ELSE d.cred[k]]
      /\ e.revoked = d.revoked \cup S
      /\ e.cmd = [c \in Commands |-> IF c[2] \in S /\ LiveCommand(d, c)
                                     THEN "expired" ELSE d.cmd[c]]
      /\ e.attempt = d.attempt
      /\ e.deviceRevoked = d.deviceRevoked
      /\ e \in Databases
  BY DEF DBInv, Databases, ExpireRotationCredentials, Invalidate, CredentialStates,
         CommandStates, TERMINAL_STATES
<1>2. d \in Databases
  BY DEF DBInv
<1> HIDE DEF e
<1>3. CommandsKept(d, e)
  BY <1>1, <1>2 DEF CommandsKept, LiveCommand, Databases
<1>4. OneActive(e) /\ OneOpen(e)
  BY <1>1, <1>2 DEF DBInv, OneActive, OneOpen, LiveActive, LiveOpen, Open, Databases
<1>5. LockoutCause(e)
  BY <1>1, <1>2, <1>3, CommandFacts, ZenonT(60) DEF DBInv, LockoutCause, LiveActive, Open,
     CancelledCommit, CancelReported, CommandsKept, TERMINAL_STATES, Databases, Phases
<1>6. RevokedRows(e)
  BY <1>1, <1>2 DEF DBInv, RevokedRows, Open, Databases
<1>7. CommandsFollowCandidate(e)
  <2>1. \A p \in Phases, k \in Keys :
           e.cmd[<<p, k>>] = IF k \in S /\ LiveCommand(d, <<p, k>>)
                             THEN "expired" ELSE d.cmd[<<p, k>>]
    BY <1>1, CommandFacts
  <2>2. \A k \in Keys : e.cred[k] = IF k \in S THEN "revoked" ELSE d.cred[k]
    BY <1>1
  <2>3. \A k \in S : d.cred[k] \in {"pending", "prepared"}
    BY DEF Open
  <2>4. CommandsFollowCandidate(d)
    BY DEF DBInv
  <2> HIDE DEF S
  <2>5. ASSUME NEW k \in Keys
        PROVE  CommandsFollow(e, k)
    <3>1. CommandsFollow(d, k)
      BY <2>4 DEF CommandsFollowCandidate
    <3>2. CASE k \in S
      BY <3>1, <3>2, <2>1, <2>2, <2>3 DEF CommandsFollow, LiveCommand, CancelReported,
         TERMINAL_STATES, Phases
    <3>3. CASE k \notin S
      BY <3>1, <3>3, <2>1, <2>2 DEF CommandsFollow, LiveCommand, CancelReported, Phases
    <3>4. QED
      BY <3>2, <3>3
  <2>6. QED
    BY <2>5 DEF CommandsFollowCandidate
<1>8. QED
  BY <1>1, <1>3, <1>4, <1>5, <1>6, <1>7 DEF DBInv, e

\* The expiry of queued and delivered commands preserves the invariant of the rows.
LEMMA ExpireCommandsPreserves ==
    ASSUME NEW d, DBInv(d), NEW over \in SUBSET Keys
    PROVE  /\ DBInv(ExpireCommands(d, over))
           /\ CommandsKept(d, ExpireCommands(d, over))
<1> DEFINE e == ExpireCommands(d, over)
<1>1. /\ e.cred = d.cred
      /\ e.revoked = d.revoked
      /\ e.cmd = [c \in Commands |-> IF c[2] \in over /\ d.cmd[c] \in {"queued", "delivered"}
                                     THEN "expired" ELSE d.cmd[c]]
      /\ e.deviceRevoked = d.deviceRevoked
      /\ e \in Databases
  BY DEF DBInv, Databases, ExpireCommands, CommandStates, TERMINAL_STATES
<1>2. d \in Databases
  BY DEF DBInv
<1> HIDE DEF e
<1>3. CommandsKept(d, e)
  BY <1>1, <1>2 DEF CommandsKept, Databases, TERMINAL_STATES
<1>4. OneActive(e) /\ OneOpen(e) /\ RevokedRows(e)
  BY <1>1 DEF DBInv, OneActive, OneOpen, LiveActive, LiveOpen, Open, RevokedRows
<1>5. LockoutCause(e)
  BY <1>1, <1>2, <1>3, CommandFacts DEF DBInv, LockoutCause, LiveActive,
     CancelledCommit, CancelReported, CommandsKept, TERMINAL_STATES, Databases, Phases
<1>6. ASSUME NEW k \in Keys
      PROVE  CommandsFollow(e, k)
  <2>1. CommandsFollow(d, k)
    BY DEF DBInv, CommandsFollowCandidate
  <2>2. \A p \in Phases :
           e.cmd[<<p, k>>] = IF k \in over /\ d.cmd[<<p, k>>] \in {"queued", "delivered"}
                             THEN "expired" ELSE d.cmd[<<p, k>>]
    BY <1>1, CommandFacts
  <2>3. QED
    BY <2>1, <2>2, <1>1 DEF CommandsFollow, LiveCommand, CancelReported, TERMINAL_STATES, Phases
<1>7. QED
  BY <1>1, <1>3, <1>4, <1>5, <1>6 DEF DBInv, CommandsFollowCandidate, e

\* The delivery loop preserves the invariant of the rows, and what it sends exists.
LEMMA DeliverCommandsPreserves ==
    ASSUME NEW d, DBInv(d), NEW over \in SUBSET Keys, NEW pick \in SUBSET Deliverable(d, over)
    PROVE  /\ DBInv(DeliverCommands(d, pick))
           /\ CommandsKept(d, DeliverCommands(d, pick))
           /\ \A c \in Sent(d, pick) : DeliverCommands(d, pick).cmd[c] # "none"
           /\ Sent(d, pick) \subseteq Commands
<1> DEFINE orphans == {c \in pick : Orphaned(d, c)}
           S == {c[2] : c \in orphans}
           sent == Sent(d, pick)
           e == DeliverCommands(d, pick)
<1>1. /\ d \in Databases
      /\ pick \subseteq Commands
      /\ \A c \in pick : d.cmd[c] \in {"queued", "delivered"}
      /\ S \subseteq Keys
      /\ sent \subseteq pick
      /\ sent \cap orphans = {}
  BY CommandFacts DEF DBInv, Deliverable, Sent
<1>2. \A c \in sent : d.attempt[c] + 1 \in 0 .. MaxAttempt
  BY <1>1, ConstantsAssumption DEF Sent, Exhausted, Databases
<1> HIDE DEF sent, orphans
<1>3. e = [Invalidate(d, S) EXCEPT
            !.cmd = [c \in Commands |->
                CASE c \in orphans       -> "expired"
                  [] c \in sent -> "delivered"
                  [] c \in (pick \ orphans) \ sent -> "failed"
                  [] OTHER               -> d.cmd[c]],
            !.attempt = [c \in Commands |->
                IF c \in sent THEN d.attempt[c] + 1 ELSE d.attempt[c]]]
  BY DEF DeliverCommands, sent, orphans
<1>4. /\ e.cred = [k \in Keys |-> IF k \in S THEN "revoked" ELSE d.cred[k]]
      /\ e.revoked = d.revoked \cup S
      /\ e.cmd = [c \in Commands |->
                CASE c \in orphans       -> "expired"
                  [] c \in sent -> "delivered"
                  [] c \in (pick \ orphans) \ sent -> "failed"
                  [] OTHER               -> d.cmd[c]]
      /\ e.attempt = [c \in Commands |->
                IF c \in sent THEN d.attempt[c] + 1 ELSE d.attempt[c]]
      /\ e.deviceRevoked = d.deviceRevoked
      /\ e \in [cred : {e.cred}, revoked : {e.revoked}, cmd : {e.cmd},
                 attempt : {e.attempt}, deviceRevoked : {e.deviceRevoked}]
  BY <1>1, <1>3 DEF Databases, Invalidate
<1> HIDE DEF e, S
<1>5. e \in Databases
  <2>1. e.cmd \in [Commands -> CommandStates]
    BY <1>1, <1>4 DEF Databases, CommandStates, TERMINAL_STATES
  <2>2. e.attempt \in [Commands -> 0 .. MaxAttempt]
    BY <1>1, <1>2, <1>4 DEF Databases
  <2>3. e.cred \in [Keys -> CredentialStates] /\ e.revoked \in SUBSET Keys
    BY <1>1, <1>4 DEF Databases, CredentialStates
  <2>4. QED
    BY <2>1, <2>2, <2>3, <1>1, <1>4 DEF Databases
<1>6. /\ \A c \in Commands : c \notin pick => e.cmd[c] = d.cmd[c]
      /\ \A c \in pick : e.cmd[c] \in {"expired", "delivered", "failed"}
      /\ \A c \in sent : e.cmd[c] = "delivered"
      /\ \A c \in orphans : e.cmd[c] = "expired"
      /\ orphans \subseteq pick
  BY <1>1, <1>4 DEF orphans
<1>7. CommandsKept(d, e) /\ (\A c \in sent : e.cmd[c] # "none")
  BY <1>1, <1>6 DEF CommandsKept, TERMINAL_STATES
<1>8. \A k \in S : /\ d.cred[k] \notin {"none", "active", "prepared", "pending"}
                    /\ <<"prepare", k>> \in pick
  <2>1. ASSUME NEW c \in orphans
        PROVE  d.cred[c[2]] \notin {"none", "active", "prepared", "pending"} /\ c = <<"prepare", c[2]>>
    <3>1. /\ c \in Commands /\ c[2] \in Keys /\ c = <<"prepare", c[2]>>
          /\ d.cred[c[2]] # "pending" /\ d.cmd[c] \in {"queued", "delivered"}
      BY <1>1, CommandFacts DEF orphans, Orphaned
    <3>2. CommandsFollow(d, c[2])
      BY <3>1 DEF DBInv, CommandsFollowCandidate
    <3>3. QED
      BY <3>1, <3>2 DEF CommandsFollow, Phases
  <2>2. QED
    BY <2>1, <1>6 DEF S
<1>9. OneActive(e) /\ OneOpen(e) /\ RevokedRows(e)
  BY <1>1, <1>4, <1>8 DEF DBInv, OneActive, OneOpen, LiveActive, LiveOpen, Open, RevokedRows
<1>10. LockoutCause(e)
  BY <1>1, <1>4, <1>7, <1>8, CommandFacts, ZenonT(60) DEF DBInv, LockoutCause, LiveActive,
     CancelledCommit, CancelReported, CommandsKept, TERMINAL_STATES, Databases, Phases
<1>11. ASSUME NEW k \in Keys
       PROVE  CommandsFollow(e, k)
  <2>1. CommandsFollow(d, k)
    BY DEF DBInv, CommandsFollowCandidate
  <2>2. /\ e.cred[k] = IF k \in S THEN "revoked" ELSE d.cred[k]
        /\ \A p \in Phases :
              \/ e.cmd[<<p, k>>] = d.cmd[<<p, k>>]
              \/ /\ d.cmd[<<p, k>>] \in {"queued", "delivered"}
                 /\ e.cmd[<<p, k>>] \in {"expired", "delivered", "failed"}
    BY <1>1, <1>4, <1>6, CommandFacts
  <2>3. QED
    BY <2>1, <2>2, <1>8 DEF CommandsFollow, LiveCommand, CancelReported, TERMINAL_STATES, Phases
<1>12. QED
  BY <1>1, <1>5, <1>7, <1>9, <1>10, <1>11 DEF DBInv, CommandsFollowCandidate, e, sent

--------------------------------------------------------------------------------
(* The reported result *)

\* Revoking the candidate of a rotation (its cancellation succeeded, or a phase
\* of it failed) preserves the invariant of the rows: an activated candidate
\* has only its cancel command left, and that one is recorded as the cause.
LEMMA DropPreserves ==
    ASSUME NEW d, DBInv(d), NEW p \in Phases, NEW k \in Keys,
           LiveCommand(d, <<p, k>>),
           NEW result \in {"succeeded", "failed"},
           result = "succeeded" => p = "cancel"
    PROVE  DBInv(SetCommand(CandidateDropped(d, k), <<p, k>>, result))
<1> DEFINE e == SetCommand(CandidateDropped(d, k), <<p, k>>, result)
<1>1. d \in Databases /\ <<p, k>> \in Commands /\ result \in CommandStates
  BY CommandFacts DEF DBInv, CommandStates, TERMINAL_STATES
<1>2. /\ e.cred = [j \in Keys |-> IF j = k THEN "revoked" ELSE d.cred[j]]
      /\ e.revoked = d.revoked \cup {k}
      /\ e.cmd = [d.cmd EXCEPT ![<<p, k>>] = result]
      /\ e.deviceRevoked = d.deviceRevoked
      /\ e \in Databases
  BY <1>1 DEF SetCommand, CandidateDropped, Invalidate, Databases, CredentialStates
<1> HIDE DEF e
<1>3. OneActive(e) /\ OneOpen(e) /\ RevokedRows(e)
  BY <1>2 DEF DBInv, OneActive, OneOpen, LiveActive, LiveOpen, Open, RevokedRows
<1>4. /\ \A q \in Phases, j \in Keys :
            e.cmd[<<q, j>>] = IF q = p /\ j = k THEN result ELSE d.cmd[<<q, j>>]
  BY <1>1, <1>2, CommandFacts DEF Databases
<1>5. LockoutCause(e)
  <2>1. CASE d.cred[k] = "active"
    <3>1. CommandsFollow(d, k)
      BY DEF DBInv, CommandsFollowCandidate
    <3>2. d.cmd[<<"commit", k>>] = "succeeded" /\ d.cmd[<<"prepare", k>>] = "succeeded"
      BY <3>1, <2>1 DEF CommandsFollow, LiveCommand, Phases
    <3>3. p = "cancel"
      BY <3>2 DEF LiveCommand, TERMINAL_STATES, Phases
    <3>4. CancelledCommit(e, k)
      BY <3>2, <3>3, <1>4 DEF CancelledCommit, CancelReported, Phases
    <3>5. QED
      BY <3>4 DEF LockoutCause
  <2>2. CASE d.cred[k] # "active"
    <3>1. CASE d.deviceRevoked
      BY <3>1, <1>2 DEF LockoutCause
    <3>2. CASE \E j \in Keys : LiveActive(d, j)
      BY <3>2, <2>2, <1>2 DEF LockoutCause, LiveActive
    <3>3. CASE \E j \in Keys : CancelledCommit(d, j)
      BY <3>3, <1>4 DEF LockoutCause, CancelledCommit, CancelReported, LiveCommand,
         TERMINAL_STATES, Phases
    <3>4. QED
      BY <3>1, <3>2, <3>3 DEF DBInv, LockoutCause
  <2>3. QED
    BY <2>1, <2>2
<1>6. ASSUME NEW j \in Keys
      PROVE  CommandsFollow(e, j)
  <2>1. CommandsFollow(d, j)
    BY DEF DBInv, CommandsFollowCandidate
  <2>2. e.cred[j] = IF j = k THEN "revoked" ELSE d.cred[j]
    BY <1>2
  <2>3. CASE j # k
    BY <2>1, <2>2, <2>3, <1>4 DEF CommandsFollow, LiveCommand, CancelReported, Phases
  <2>4. CASE j = k
    <3>1. e.cred[k] = "revoked"
      BY <2>2, <2>4
    <3>2. CASE p = "prepare"
      BY <2>1, <2>4, <3>1, <3>2, <1>4 DEF CommandsFollow, LiveCommand, CancelReported,
         TERMINAL_STATES, Phases
    <3>3. CASE p = "commit"
      BY <2>1, <2>4, <3>1, <3>3, <1>4 DEF CommandsFollow, LiveCommand, CancelReported,
         TERMINAL_STATES, Phases
    <3>4. CASE p = "cancel"
      BY <2>1, <2>4, <3>1, <3>4, <1>4 DEF CommandsFollow, LiveCommand, CancelReported,
         TERMINAL_STATES, Phases
    <3>5. QED
      BY <3>2, <3>3, <3>4 DEF Phases
  <2>5. QED
    BY <2>3, <2>4
<1>7. QED
  BY <1>2, <1>3, <1>5, <1>6 DEF DBInv, CommandsFollowCandidate, e

\* A successful prepare preserves the invariant of the rows.
LEMMA PreparePreserves ==
    ASSUME NEW d, DBInv(d), NEW k \in Keys,
           LiveCommand(d, <<"prepare", k>>), d.cred[k] = "pending"
    PROVE  /\ DBInv(SetCommand(PrepareSucceeded(d, k), <<"prepare", k>>, "succeeded"))
           /\ d.cmd[<<"commit", k>>] = "none"
<1> DEFINE e == SetCommand(PrepareSucceeded(d, k), <<"prepare", k>>, "succeeded")
<1>1. /\ d \in Databases
      /\ \A p \in Phases : <<p, k>> \in Commands
      /\ {"succeeded", "queued"} \subseteq CommandStates
      /\ CommandsFollow(d, k)
  BY CommandFacts DEF DBInv, CommandStates, TERMINAL_STATES, CommandsFollowCandidate
<1>2. /\ e.cred = [d.cred EXCEPT ![k] = "prepared"]
      /\ e.revoked = d.revoked
      /\ e.cmd = [[d.cmd EXCEPT ![<<"commit", k>>] = "queued"]
                    EXCEPT ![<<"prepare", k>>] = "succeeded"]
      /\ e.deviceRevoked = d.deviceRevoked
      /\ e \in Databases
  BY <1>1 DEF SetCommand, PrepareSucceeded, Databases, CredentialStates, Phases
<1> HIDE DEF e
<1>3. /\ \A j \in Keys : e.cred[j] = IF j = k THEN "prepared" ELSE d.cred[j]
      /\ \A q \in Phases, j \in Keys :
            e.cmd[<<q, j>>] = IF j # k THEN d.cmd[<<q, j>>]
                              ELSE CASE q = "commit" -> "queued"
                                     [] q = "prepare" -> "succeeded"
                                     [] q = "cancel" -> d.cmd[<<q, j>>]
  BY <1>1, <1>2, CommandFacts DEF Databases, Phases
<1>4. OneActive(e) /\ OneOpen(e) /\ RevokedRows(e)
  BY <1>2, <1>3 DEF DBInv, OneActive, OneOpen, LiveActive, LiveOpen, Open, RevokedRows
<1>5. LockoutCause(e)
  <2>1. d.cmd[<<"commit", k>>] = "none"
    BY <1>1 DEF CommandsFollow
  <2>2. QED
    BY <1>2, <1>3, <2>1 DEF DBInv, LockoutCause, LiveActive, CancelledCommit, CancelReported, Phases
<1>6. ASSUME NEW j \in Keys
      PROVE  CommandsFollow(e, j)
  <2>1. CommandsFollow(d, j)
    BY DEF DBInv, CommandsFollowCandidate
  <2>2. QED
    BY <2>1, <1>3 DEF CommandsFollow, LiveCommand, CancelReported, TERMINAL_STATES, Phases
<1>7. QED
  BY <1>1, <1>2, <1>4, <1>5, <1>6 DEF DBInv, CommandsFollowCandidate, CommandsFollow, e

\* A successful commit preserves the invariant of the rows, even when the
\* session's view of the candidate was stale: then its cancellation was reported.
LEMMA CommitPreserves ==
    ASSUME NEW d, DBInv(d), NEW k \in Keys, LiveCommand(d, <<"commit", k>>)
    PROVE  DBInv(SetCommand(CommitSucceeded(d, k), <<"commit", k>>, "succeeded"))
<1> DEFINE e == SetCommand(CommitSucceeded(d, k), <<"commit", k>>, "succeeded")
           old == {j \in Keys \ {k} : LiveActive(d, j)}
<1>1. /\ d \in Databases
      /\ <<"commit", k>> \in Commands
      /\ "succeeded" \in CommandStates
      /\ CommandsFollow(d, k)
  BY CommandFacts DEF DBInv, CommandStates, TERMINAL_STATES, CommandsFollowCandidate, Phases
<1>2. /\ e.cred = [[j \in Keys |-> IF j \in old THEN "revoked" ELSE d.cred[j]]
                     EXCEPT ![k] = "active"]
      /\ e.revoked = d.revoked \cup old
      /\ e.cmd = [d.cmd EXCEPT ![<<"commit", k>>] = "succeeded"]
      /\ e.deviceRevoked = d.deviceRevoked
      /\ e \in Databases
  BY <1>1 DEF SetCommand, CommitSucceeded, Invalidate, Databases, CredentialStates
<1> HIDE DEF e
<1>3. /\ \A j \in Keys : e.cred[j] = IF j = k THEN "active"
                                      ELSE IF LiveActive(d, j) THEN "revoked" ELSE d.cred[j]
      /\ \A j \in Keys : j \in e.revoked <=> j \in d.revoked \/ (j # k /\ LiveActive(d, j))
      /\ \A q \in Phases, j \in Keys :
            e.cmd[<<q, j>>] = IF q = "commit" /\ j = k THEN "succeeded" ELSE d.cmd[<<q, j>>]
  BY <1>1, <1>2, CommandFacts DEF Databases, Phases
<1>4. OneActive(e) /\ OneOpen(e)
  BY <1>3 DEF DBInv, OneActive, OneOpen, LiveActive, LiveOpen, Open
<1>5. d.cred[k] # "none" /\ (k \in d.revoked => d.deviceRevoked \/ CancelReported(d, k))
  BY <1>1 DEF CommandsFollow, LiveCommand, DBInv, RevokedRows, Open, Phases
<1>6. RevokedRows(e)
  BY <1>2, <1>3, <1>5 DEF DBInv, RevokedRows, Open, LiveActive
<1>7. LockoutCause(e)
  <2>1. CASE k \notin d.revoked
    BY <2>1, <1>3 DEF LockoutCause, LiveActive
  <2>2. CASE d.deviceRevoked
    BY <2>2, <1>2 DEF LockoutCause
  <2>3. CASE CancelReported(d, k)
    BY <2>3, <1>3 DEF LockoutCause, CancelledCommit, CancelReported, Phases
  <2>4. QED
    BY <2>1, <2>2, <2>3, <1>5
<1>8. ASSUME NEW j \in Keys
      PROVE  CommandsFollow(e, j)
  <2>1. CommandsFollow(d, j)
    BY DEF DBInv, CommandsFollowCandidate
  <2>2. CASE j = k
    BY <2>1, <2>2, <1>3 DEF CommandsFollow, LiveCommand, CancelReported, TERMINAL_STATES, Phases
  <2>3. CASE j # k
    BY <2>1, <2>3, <1>3 DEF CommandsFollow, LiveCommand, LiveActive, CancelReported,
       TERMINAL_STATES, Phases
  <2>4. QED
    BY <2>2, <2>3
<1>9. QED
  BY <1>2, <1>4, <1>6, <1>7, <1>8 DEF DBInv, CommandsFollowCandidate, e

\* Any accepted result preserves the invariant of the rows.
LEMMA ApplyResultPreserves ==
    ASSUME NEW d, DBInv(d), NEW r \in Requests, NEW over \in SUBSET Keys,
           r.command # NoResult => d.cmd[r.command] # "none" /\ r.result # "none",
           ResultAccepted(d, r, over)
    PROVE  /\ DBInv(ApplyResult(d, r))
           /\ CommandsKept(d, ApplyResult(d, r))
<1>1. CASE r.command = NoResult \/ d.cmd[r.command] \in TERMINAL_STATES
  BY <1>1 DEF ApplyResult, CommandsKept
<1>2. CASE r.command # NoResult /\ d.cmd[r.command] \notin TERMINAL_STATES
  <2> DEFINE p == r.command[1]
             k == r.command[2]
  <2>1. /\ r.command = <<p, k>> /\ p \in Phases /\ k \in Keys /\ r.command \in Commands
        /\ r.result \in {"running", "succeeded", "failed"}
        /\ LiveCommand(d, <<p, k>>)
        /\ d \in Databases
    BY <1>2, CommandFacts DEF Requests, ResultStates, LiveCommand, DBInv
  <2>2. /\ r.result = "succeeded" /\ p = "prepare" => PrepareAccepted(d, r, k, over)
        /\ r.result = "succeeded" /\ p = "commit" => CommitAccepted(d, r, k)
    BY <1>2, <2>1 DEF ResultAccepted
  <2> HIDE DEF p, k
  <2>3. CASE r.result = "succeeded" /\ p = "prepare"
    <3>1. ApplyResult(d, r) = SetCommand(PrepareSucceeded(d, k), <<"prepare", k>>, "succeeded")
      BY <1>2, <2>1, <2>3 DEF ApplyResult, p, k
    <3>2. d.cred[k] = "pending"
      BY <2>1, <2>2, <2>3 DEF PrepareAccepted, SessionState, Requests
    <3>3. DBInv(ApplyResult(d, r)) /\ d.cmd[<<"commit", k>>] = "none"
      BY <2>1, <2>3, <3>1, <3>2, PreparePreserves
    <3>4. ApplyResult(d, r).cmd = [[d.cmd EXCEPT ![<<"commit", k>>] = "queued"]
                                    EXCEPT ![<<"prepare", k>>] = "succeeded"]
      BY <2>1, <3>1 DEF SetCommand, PrepareSucceeded, Databases
    <3>5. d.cmd[<<"prepare", k>>] \notin TERMINAL_STATES
      BY <2>1, <2>3 DEF LiveCommand
    <3>6. CommandsKept(d, ApplyResult(d, r))
      BY <2>1, <3>3, <3>4, <3>5 DEF CommandsKept, Databases, TERMINAL_STATES
    <3>7. QED
      BY <3>3, <3>6
  <2>4. CASE r.result = "succeeded" /\ p = "commit"
    <3>1. ApplyResult(d, r) = SetCommand(CommitSucceeded(d, k), <<"commit", k>>, "succeeded")
      BY <1>2, <2>1, <2>4 DEF ApplyResult, p, k
    <3>2. DBInv(ApplyResult(d, r))
      BY <2>1, <2>4, <3>1, CommitPreserves
    <3>3. ApplyResult(d, r).cmd = [d.cmd EXCEPT ![<<"commit", k>>] = "succeeded"]
      BY <2>1, <3>1 DEF SetCommand, CommitSucceeded, Invalidate, Databases
    <3>4. CommandsKept(d, ApplyResult(d, r))
      BY <2>1, <2>4, <3>3 DEF CommandsKept, Databases, LiveCommand
    <3>5. QED
      BY <3>2, <3>4
  <2>5. CASE r.result = "failed" \/ (r.result = "succeeded" /\ p = "cancel")
    <3>1. ApplyResult(d, r) = SetCommand(CandidateDropped(d, k), <<p, k>>, r.result)
      BY <1>2, <2>1, <2>5 DEF ApplyResult, p, k
    <3>2. DBInv(ApplyResult(d, r))
      BY <2>1, <2>5, <3>1, DropPreserves
    <3>3. ApplyResult(d, r).cmd = [d.cmd EXCEPT ![<<p, k>>] = r.result]
      BY <2>1, <3>1 DEF SetCommand, CandidateDropped, Invalidate, Databases
    <3>4. CommandsKept(d, ApplyResult(d, r))
      BY <2>1, <2>5, <3>3 DEF CommandsKept, Databases, LiveCommand
    <3>5. QED
      BY <3>2, <3>4
  <2>6. CASE r.result = "running"
    <3> DEFINE e == ApplyResult(d, r)
    <3>1. e = [d EXCEPT !.cmd = [d.cmd EXCEPT ![<<p, k>>] = "running"]]
      BY <1>2, <2>1, <2>6 DEF ApplyResult, SetCommand
    <3>2. /\ e.cred = d.cred /\ e.revoked = d.revoked /\ e.deviceRevoked = d.deviceRevoked
          /\ e.cmd = [d.cmd EXCEPT ![<<p, k>>] = "running"]
          /\ e \in Databases
      BY <2>1, <3>1 DEF Databases, CommandStates, ResultStates
    <3> HIDE DEF e
    <3>3. CommandsKept(d, e)
      BY <2>1, <3>2 DEF CommandsKept, Databases, LiveCommand
    <3>4. OneActive(e) /\ OneOpen(e) /\ RevokedRows(e)
      BY <3>2 DEF DBInv, OneActive, OneOpen, LiveActive, LiveOpen, Open, RevokedRows
    <3>5. LockoutCause(e)
      BY <2>1, <3>2, <3>3, CommandFacts DEF DBInv, LockoutCause, LiveActive,
         CancelledCommit, CancelReported, CommandsKept, TERMINAL_STATES, Databases, Phases
    <3>6. ASSUME NEW j \in Keys
          PROVE  CommandsFollow(e, j)
      <4>1. CommandsFollow(d, j)
        BY DEF DBInv, CommandsFollowCandidate
      <4>2. \A q \in Phases :
               e.cmd[<<q, j>>] = IF q = p /\ j = k THEN "running" ELSE d.cmd[<<q, j>>]
        BY <2>1, <3>2, CommandFacts DEF Databases
      <4>3. CASE j # k
        BY <4>1, <4>2, <4>3, <3>2 DEF CommandsFollow, LiveCommand, CancelReported, Phases
      <4>4. CASE j = k
        BY <2>1, <4>1, <4>2, <4>4, <3>2 DEF CommandsFollow, LiveCommand, CancelReported,
           TERMINAL_STATES, Phases
      <4>5. QED
        BY <4>3, <4>4
    <3>7. QED
      BY <3>2, <3>3, <3>4, <3>5, <3>6 DEF DBInv, CommandsFollowCandidate, e
  <2>7. QED
    BY <2>1, <2>3, <2>4, <2>5, <2>6 DEF Phases
<1>3. QED
  BY <1>1, <1>2

--------------------------------------------------------------------------------
(* The invariant is inductive *)

\* Everything a request does between authentication and commit.
LEMMA HandleRequestPreserves ==
    ASSUME IndInv, NEW s \in Slots, HandleRequest(s)
    PROVE  IndInv' /\ CommandsKept(db, db')
<1> DEFINE r == req[s]
           a == ApplyResult(db, r)
           x == ExpireRotationCredentials(a, elapsed)
           e == ExpireCommands(x, elapsed)
<1>1. PICK pick \in SUBSET Deliverable(e, elapsed) :
         /\ db' = DeliverCommands(e, pick)
         /\ seen' \in {seen, seen \cup Sent(e, pick)}
  BY DEF HandleRequest
<1>2. /\ ResultAccepted(db, r, elapsed)
      /\ req' = [req EXCEPT ![s] = Idle]
      /\ elapsed' = elapsed
      /\ r \in Requests
      /\ elapsed \in SUBSET Keys
      /\ r.command # NoResult => db.cmd[r.command] # "none" /\ r.result # "none"
  BY DEF HandleRequest, IndInv, TypeOK, SeenCommandsExist
<1>3. DBInv(a) /\ CommandsKept(db, a)
  BY <1>2, ApplyResultPreserves DEF IndInv
<1> HIDE DEF a
<1>4. DBInv(x) /\ CommandsKept(a, x)
  BY <1>2, <1>3, ExpireRotationsPreserves
<1> HIDE DEF x
<1>5. DBInv(e) /\ CommandsKept(x, e)
  BY <1>2, <1>4, ExpireCommandsPreserves
<1> HIDE DEF e
<1>6. /\ DBInv(db') /\ CommandsKept(e, db')
      /\ \A c \in Sent(e, pick) : db'.cmd[c] # "none"
      /\ Sent(e, pick) \subseteq Commands
  BY <1>1, <1>2, <1>5, DeliverCommandsPreserves
<1>7. CommandsKept(db, db')
  BY <1>3, <1>4, <1>5, <1>6 DEF CommandsKept
<1>8. Idle \in Requests /\ Idle.command = NoResult
  BY DEF Idle, Requests, NoResult
<1>9. TypeOK'
  BY <1>1, <1>2, <1>6, <1>8 DEF IndInv, TypeOK, DBInv
<1>10. SeenCommandsExist'
  BY <1>1, <1>2, <1>6, <1>7, <1>8 DEF IndInv, TypeOK, SeenCommandsExist, CommandsKept
<1>11. QED
  BY <1>6, <1>7, <1>9, <1>10 DEF IndInv

\* The initial state, after enrolment.
LEMMA InitEstablishes == Init => IndInv
<1> SUFFICES ASSUME Init PROVE IndInv
  OBVIOUS
<1>1. /\ db.cred = [k \in Keys |-> IF k = 1 THEN "active" ELSE "none"]
      /\ db.revoked = {} /\ db.deviceRevoked = FALSE
      /\ db.cmd = [c \in Commands |-> "none"]
      /\ db \in Databases
  BY ConstantsAssumption DEF Init, Databases, CredentialStates, CommandStates
<1>2. 1 \in Keys
  BY ConstantsAssumption DEF Keys
<1>3. TypeOK
  BY <1>1 DEF Init, TypeOK, Idle, Requests, NoResult
<1>4. OneActive(db) /\ OneOpen(db) /\ RevokedRows(db) /\ LockoutCause(db)
  BY <1>1, <1>2 DEF OneActive, OneOpen, RevokedRows, LockoutCause, LiveActive, LiveOpen, Open
<1>5. \A p \in Phases, k \in Keys : db.cmd[<<p, k>>] = "none"
  BY <1>1, CommandFacts
<1>6. CommandsFollowCandidate(db)
  BY <1>1, <1>5 DEF CommandsFollowCandidate, CommandsFollow, LiveCommand, Phases
<1>7. SeenCommandsExist
  BY DEF Init, SeenCommandsExist, Idle
<1>8. QED
  BY <1>1, <1>3, <1>4, <1>6, <1>7 DEF IndInv, DBInv

\* rotate_device_credential starts a rotation on rows that have none open.
LEMMA RotatePreserves ==
    ASSUME IndInv, NEW k \in Keys, RotateDeviceCredential(k)
    PROVE  IndInv' /\ CommandsKept(db, db')
<1>1. /\ db \in Databases
      /\ \A p \in Phases : <<p, k>> \in Commands
      /\ CommandsFollow(db, k)
      /\ db.cred[k] = "none"
  BY CommandFacts DEF IndInv, DBInv, CommandsFollowCandidate, RotateDeviceCredential
<1>2. /\ db'.cred = [db.cred EXCEPT ![k] = "pending"]
      /\ db'.revoked = db.revoked
      /\ db'.cmd = [db.cmd EXCEPT ![<<"prepare", k>>] = "queued"]
      /\ db'.deviceRevoked = db.deviceRevoked
      /\ db' \in Databases
  BY <1>1 DEF RotateDeviceCredential, SetCommand, Databases, CredentialStates, CommandStates
<1>3. /\ \A j \in Keys : db'.cred[j] = IF j = k THEN "pending" ELSE db.cred[j]
      /\ \A q \in Phases, j \in Keys :
            db'.cmd[<<q, j>>] = IF q = "prepare" /\ j = k THEN "queued" ELSE db.cmd[<<q, j>>]
  BY <1>1, <1>2, CommandFacts DEF Databases, Phases
<1>4. ~db.deviceRevoked
  BY DEF RotateDeviceCredential, LiveActive, IndInv, DBInv, RevokedRows
<1>5. OneActive(db') /\ OneOpen(db')
  BY <1>2, <1>3 DEF IndInv, DBInv, RotateDeviceCredential, OneActive, OneOpen,
     LiveActive, LiveOpen, Open
<1>6. RevokedRows(db')
  BY <1>1, <1>2, <1>3, <1>4 DEF IndInv, DBInv, RevokedRows, Open
<1>7. LockoutCause(db')
  BY <1>1, <1>2, <1>3 DEF RotateDeviceCredential, LockoutCause, LiveActive
<1>8. ASSUME NEW j \in Keys
      PROVE  CommandsFollow(db', j)
  <2>1. CommandsFollow(db, j)
    BY DEF IndInv, DBInv, CommandsFollowCandidate
  <2>2. QED
    BY <1>1, <1>3, <2>1 DEF CommandsFollow, LiveCommand, CancelReported, Phases
<1>9. CommandsKept(db, db')
  BY <1>1, <1>2 DEF CommandsKept, CommandsFollow, Databases, TERMINAL_STATES, Phases
<1>10. QED
  BY <1>2, <1>5, <1>6, <1>7, <1>8, <1>9 DEF IndInv, DBInv, TypeOK, SeenCommandsExist,
     CommandsFollowCandidate, CommandsKept, RotateDeviceCredential

\* cancel_device_credential_rotation supersedes only a commit never delivered.
LEMMA CancelPreserves ==
    ASSUME IndInv, NEW k \in Keys, CancelRotation(k)
    PROVE  IndInv' /\ CommandsKept(db, db')
<1>1. /\ db \in Databases
      /\ \A p \in Phases : <<p, k>> \in Commands
      /\ CommandsFollow(db, k)
      /\ Open(db, k)
      /\ db.cmd[<<"cancel", k>>] = "none"
      /\ db.cmd[<<"commit", k>>] \in {"none", "queued"}
  BY CommandFacts DEF IndInv, DBInv, CommandsFollowCandidate, CancelRotation
<1>2. /\ db'.cred = db.cred
      /\ db'.revoked = db.revoked
      /\ db'.cmd = [[db.cmd EXCEPT ![<<"commit", k>>] =
                        IF db.cmd[<<"commit", k>>] = "queued"
                        THEN "superseded" ELSE db.cmd[<<"commit", k>>]]
                      EXCEPT ![<<"cancel", k>>] = "queued"]
      /\ db'.deviceRevoked = db.deviceRevoked
      /\ db' \in Databases
  BY <1>1 DEF CancelRotation, Databases, CommandStates, TERMINAL_STATES, Phases
<1>3. /\ \A q \in Phases, j \in Keys : j # k => db'.cmd[<<q, j>>] = db.cmd[<<q, j>>]
      /\ db'.cmd[<<"cancel", k>>] = "queued"
      /\ db'.cmd[<<"prepare", k>>] = db.cmd[<<"prepare", k>>]
      /\ db'.cmd[<<"commit", k>>] = IF db.cmd[<<"commit", k>>] = "queued"
                                    THEN "superseded" ELSE "none"
  BY <1>1, <1>2, CommandFacts DEF Databases, Phases
<1>4. OneActive(db') /\ OneOpen(db') /\ RevokedRows(db')
  BY <1>2 DEF IndInv, DBInv, OneActive, OneOpen, RevokedRows, LiveActive, LiveOpen, Open
<1>5. LockoutCause(db')
  BY <1>1, <1>2, <1>3 DEF IndInv, DBInv, LockoutCause, LiveActive, CancelledCommit,
     CancelReported, Phases
<1>6. ASSUME NEW j \in Keys
      PROVE  CommandsFollow(db', j)
  <2>1. CommandsFollow(db, j)
    BY DEF IndInv, DBInv, CommandsFollowCandidate
  <2>2. CASE j # k
    BY <1>2, <1>3, <2>1, <2>2 DEF CommandsFollow, LiveCommand, CancelReported, Phases
  <2>3. CASE j = k
    BY <1>1, <1>2, <1>3, <2>3 DEF CommandsFollow, LiveCommand, Open, TERMINAL_STATES, Phases
  <2>4. QED
    BY <2>2, <2>3
<1>7. CommandsKept(db, db')
  BY <1>1, <1>2 DEF CommandsKept, Databases, TERMINAL_STATES, Phases
<1>8. QED
  BY <1>2, <1>4, <1>5, <1>6, <1>7 DEF IndInv, DBInv, TypeOK, SeenCommandsExist,
     CommandsFollowCandidate, CommandsKept, CancelRotation

\* revoke_device.
LEMMA RevokePreserves ==
    ASSUME IndInv, RevokeDevice
    PROVE  IndInv' /\ CommandsKept(db, db')
<1>1. /\ db'.cred = db.cred
      /\ db'.revoked = db.revoked \cup {k \in Keys : db.cred[k] # "none"}
      /\ db'.cmd = db.cmd
      /\ db'.deviceRevoked = TRUE
      /\ db' \in Databases
  BY DEF RevokeDevice, RevokedWithDevice, IndInv, DBInv, Databases
<1>2. OneActive(db') /\ OneOpen(db') /\ RevokedRows(db') /\ LockoutCause(db')
  BY <1>1 DEF IndInv, DBInv, OneActive, OneOpen, RevokedRows, LockoutCause,
     LiveActive, LiveOpen, Open
<1>3. ASSUME NEW k \in Keys
      PROVE  CommandsFollow(db', k)
  <2>1. CommandsFollow(db, k)
    BY DEF IndInv, DBInv, CommandsFollowCandidate
  <2>2. QED
    BY <1>1, <2>1 DEF CommandsFollow, LiveCommand, CancelReported
<1>4. QED
  BY <1>1, <1>2, <1>3 DEF CommandsFollowCandidate, IndInv, DBInv, TypeOK, SeenCommandsExist, CommandsKept, RevokeDevice, RevokedWithDevice

\* Authentication records a request that reports on a command it saw.
LEMMA AuthenticatePreserves ==
    ASSUME IndInv, NEW s \in Slots, NEW key \in Keys, NEW c \in Commands \cup {NoResult},
           NEW result \in ResultStates \cup {"none"}, AuthenticateRequest(s, key, c, result)
    PROVE  IndInv' /\ CommandsKept(db, db')
<1> DEFINE l == [k \in Keys |-> IF k \in Loaded(db) THEN db.cred[k] ELSE "none"]
           n == [key |-> key, loaded |-> l, command |-> c, result |-> result]
<1>1. l \in [Keys -> {"none", "active", "prepared"}]
  BY DEF Loaded
<1>2. /\ req' = [req EXCEPT ![s] = n]
      /\ UNCHANGED <<db, elapsed, seen>>
      /\ c # NoResult => c \in seen /\ result # "none"
  BY DEF AuthenticateRequest, ResultStates
<1> HIDE DEF l
<1>3. n \in Requests /\ n.command = c /\ n.result = result
  BY <1>1 DEF Requests
<1> HIDE DEF n
<1>4. TypeOK' /\ SeenCommandsExist'
  BY <1>2, <1>3 DEF IndInv, TypeOK, SeenCommandsExist
<1>5. DBInv(db') /\ CommandsKept(db, db')
  BY <1>2 DEF IndInv, CommandsKept
<1>6. QED
  BY <1>4, <1>5 DEF IndInv

\* Every step preserves the inductive invariant and keeps the commands.
LEMMA NextPreserves ==
    ASSUME IndInv, [Next]_vars
    PROVE  IndInv' /\ CommandsKept(db, db')
<1>1. ASSUME NEW k \in Keys, RotateDeviceCredential(k)
      PROVE  IndInv' /\ CommandsKept(db, db')
  BY <1>1, RotatePreserves
<1>2. ASSUME NEW k \in Keys, CancelRotation(k)
      PROVE  IndInv' /\ CommandsKept(db, db')
  BY <1>2, CancelPreserves
<1>3. CASE RevokeDevice
  BY <1>3, RevokePreserves
<1>4. ASSUME NEW k \in Keys, OverlapElapses(k)
      PROVE  IndInv' /\ CommandsKept(db, db')
  BY <1>4 DEF OverlapElapses, IndInv, TypeOK, SeenCommandsExist, CommandsKept
<1>5. CASE OtherDeviceDelivery
  <2>1. DBInv(db') /\ CommandsKept(db, db')
    BY <1>5, ExpireRotationsPreserves DEF OtherDeviceDelivery, IndInv, TypeOK
  <2>2. QED
    BY <1>5, <2>1 DEF OtherDeviceDelivery, IndInv, TypeOK, DBInv, SeenCommandsExist, CommandsKept
<1>6. ASSUME NEW s \in Slots, NEW key \in Keys, NEW c \in Commands \cup {NoResult},
             NEW result \in ResultStates \cup {"none"}, AuthenticateRequest(s, key, c, result)
      PROVE  IndInv' /\ CommandsKept(db, db')
  BY <1>6, AuthenticatePreserves
<1>7. ASSUME NEW s \in Slots, HandleRequest(s)
      PROVE  IndInv' /\ CommandsKept(db, db')
  BY <1>7, HandleRequestPreserves
<1>8. ASSUME NEW s \in Slots, AbandonRequest(s)
      PROVE  IndInv' /\ CommandsKept(db, db')
  <2>1. Idle \in Requests /\ Idle.command = NoResult
    BY DEF Idle, Requests, NoResult
  <2>2. QED
    BY <1>8, <2>1 DEF AbandonRequest, IndInv, TypeOK, SeenCommandsExist, CommandsKept
<1>9. CASE UNCHANGED vars
  BY <1>9 DEF vars, IndInv, TypeOK, SeenCommandsExist, CommandsKept
<1>10. QED
  BY <1>1, <1>2, <1>3, <1>4, <1>5, <1>6, <1>7, <1>8, <1>9 DEF Next

\* The inductive invariant holds in every reachable state.
THEOREM InductiveInvariant == Spec => []IndInv
<1>1. IndInv /\ [Next]_vars => IndInv'
  BY NextPreserves
<1>2. QED
  BY <1>1, InitEstablishes, PTL DEF Spec

\* Type correctness.
THEOREM TypeCorrect == Spec => []TypeOK
<1>1. IndInv => TypeOK
  BY DEF IndInv
<1>2. QED
  BY <1>1, InductiveInvariant, PTL

\* One live active credential at most, one live candidate at most, and never
\* more than the two usable credentials authenticate_device_request allows.
THEOREM OverlapBounded == Spec => []BoundedOverlap
<1>1. IndInv => BoundedOverlap
  <2> SUFFICES ASSUME IndInv PROVE BoundedOverlap
    OBVIOUS
  <2>1. OneActive(db) /\ OneOpen(db)
    BY DEF IndInv, DBInv
  <2>2. \E a, b : Accepted(db, elapsed) \subseteq {a, b}
    <3>1. \A k \in Accepted(db, elapsed) : k \in Keys /\ (LiveActive(db, k) \/ LiveOpen(db, k))
      BY DEF Accepted, Loaded, LiveActive, LiveOpen, Open
    <3>2. QED
      BY <2>1, <3>1 DEF OneActive, OneOpen
  <2>3. PICK a, b : Accepted(db, elapsed) \subseteq {a, b}
    BY <2>2
  <2>4. IsFiniteSet({a, b}) /\ Cardinality({a, b}) <= 2
    <3>1. IsFiniteSet({b}) /\ Cardinality({b}) = 1
      BY FS_Singleton
    <3>2. QED
      BY <3>1, FS_AddElement
  <2>5. Cardinality(Accepted(db, elapsed)) <= 2
    <3>1. Cardinality(Accepted(db, elapsed)) <= Cardinality({a, b})
      BY <2>3, <2>4, FS_Subset
    <3>2. Cardinality(Accepted(db, elapsed)) \in Nat /\ Cardinality({a, b}) \in Nat
      BY <2>3, <2>4, FS_Subset, FS_CardinalityType
    <3>3. QED
      BY <2>4, <3>1, <3>2
  <2>6. QED
    BY <2>1, <2>5 DEF BoundedOverlap
<1>2. QED
  BY <1>1, InductiveInvariant, PTL

\* The last active credential is lost only to a cancellation reported for a
\* rotation that was committed as well.
THEOREM LockoutCharacterised == Spec => []LockoutOnlyByCancelledCommit
<1>1. IndInv => LockoutOnlyByCancelledCommit
  BY DEF IndInv, DBInv, LockoutCause, LockoutOnlyByCancelledCommit, SensorNotLockedOut
<1>2. QED
  BY <1>1, InductiveInvariant, PTL

\* Revocation of the device is immediate and final.
THEOREM RevocationFinal == Spec => []RevocationImmediate
<1>1. IndInv => RevocationImmediate
  BY DEF IndInv, DBInv, RevokedRows, RevocationImmediate, Accepted, Loaded
<1>2. QED
  BY <1>1, InductiveInvariant, PTL

\* The outcome of a rotation command never changes.
THEOREM OutcomesFinal == Spec => CommandOutcomeFinal
<1>1. IndInv /\ [Next]_vars =>
        [\A c \in Commands : db.cmd[c] \in TERMINAL_STATES => db'.cmd[c] = db.cmd[c]]_vars
  BY NextPreserves DEF CommandsKept
<1>2. QED
  BY <1>1, InductiveInvariant, PTL DEF Spec, CommandOutcomeFinal

\* No key is a live active one in e that was not one in d.
NoneActivated(d, e) == \A k \in Keys : LiveActive(e, k) => LiveActive(d, k)

\* Expiry and delivery activate no key: they only revoke.
LEMMA HousekeepingActivatesNone ==
    ASSUME NEW d \in Databases, NEW over \in SUBSET Keys
    PROVE  /\ NoneActivated(d, ExpireRotationCredentials(d, over))
           /\ NoneActivated(d, ExpireCommands(d, over))
           /\ \A pick : NoneActivated(d, DeliverCommands(d, pick))
<1>1. \A S : NoneActivated(d, Invalidate(d, S))
  BY DEF NoneActivated, LiveActive, Invalidate, Databases
<1>2. ASSUME NEW e, NEW S, e.cred = Invalidate(d, S).cred, e.revoked = Invalidate(d, S).revoked
      PROVE  NoneActivated(d, e)
  BY <1>1, <1>2 DEF NoneActivated, LiveActive
<1>3. NoneActivated(d, ExpireRotationCredentials(d, over))
  <2> DEFINE S == {k \in over : Open(d, k)}
             e == ExpireRotationCredentials(d, over)
  <2>1. e.cred = Invalidate(d, S).cred /\ e.revoked = Invalidate(d, S).revoked
    BY DEF ExpireRotationCredentials, Invalidate, Databases
  <2> HIDE DEF S, e
  <2>2. NoneActivated(d, e)
    BY <1>2, <2>1
  <2>3. QED
    BY <2>2 DEF e
<1>4. NoneActivated(d, ExpireCommands(d, over))
  BY DEF NoneActivated, LiveActive, ExpireCommands, Databases
<1>5. ASSUME NEW pick
      PROVE  NoneActivated(d, DeliverCommands(d, pick))
  <2> DEFINE S == {c[2] : c \in {c \in pick : Orphaned(d, c)}}
             e == DeliverCommands(d, pick)
  <2>1. e.cred = Invalidate(d, S).cred /\ e.revoked = Invalidate(d, S).revoked
    BY DEF DeliverCommands, Invalidate, Databases
  <2> HIDE DEF S, e
  <2>2. NoneActivated(d, e)
    BY <1>2, <2>1
  <2>3. QED
    BY <2>2 DEF e
<1>6. QED
  BY <1>3, <1>4, <1>5

\* A reported result activates no key but the one that signed the report: only
\* a commit activates a candidate, and the candidate must have signed it.
LEMMA ResultActivatesSigner ==
    ASSUME NEW d, DBInv(d), NEW over, NEW r \in Requests, ResultAccepted(d, r, over),
           NEW k \in Keys, LiveActive(ApplyResult(d, r), k), ~LiveActive(d, k)
    PROVE  r.key = k
<1> DEFINE j == r.command[2]
<1>1. d \in Databases
  BY DEF DBInv
<1>2. r.command # NoResult /\ d.cmd[r.command] \notin TERMINAL_STATES
  BY DEF ApplyResult
<1>3. r.command \in Commands /\ j \in Keys /\ r.command[1] \in Phases
  BY <1>2, CommandFacts DEF Requests
<1>4. \A e, c, state :
         e \in Databases /\ LiveActive(SetCommand(e, c, state), k) => LiveActive(e, k)
  BY DEF SetCommand, LiveActive, Databases
<1>5. ~LiveActive(Invalidate(d, {j}), k) /\ Invalidate(d, {j}) \in Databases
  BY <1>1, <1>3 DEF Invalidate, LiveActive, Databases, CredentialStates
<1>6. CASE r.result = "succeeded" /\ r.command[1] = "commit"
  <2> DEFINE old == {i \in Keys \ {j} : LiveActive(d, i)}
             e == SetCommand(CommitSucceeded(d, j), r.command, r.result)
  <2>1. ApplyResult(d, r) = e
    BY <1>2, <1>6 DEF ApplyResult
  <2>2. /\ e.cred = [[i \in Keys |-> IF i \in old THEN "revoked" ELSE d.cred[i]]
                      EXCEPT ![j] = "active"]
        /\ e.revoked = d.revoked \cup old
    BY <1>1 DEF CommitSucceeded, Invalidate, SetCommand, Databases
  <2> HIDE DEF e, old
  <2>3. k = j
    BY <1>3, <2>1, <2>2 DEF LiveActive
  <2>4. r.key = j
    BY <1>2, <1>6 DEF ResultAccepted, CommitAccepted
  <2>5. QED
    BY <2>3, <2>4
<1>7. CASE r.result = "succeeded" /\ r.command[1] = "prepare"
  <2>1. ApplyResult(d, r) = SetCommand(PrepareSucceeded(d, j), r.command, r.result)
    BY <1>2, <1>7 DEF ApplyResult
  <2>2. LET e == SetCommand(PrepareSucceeded(d, j), r.command, r.result)
        IN  e.cred = [d.cred EXCEPT ![j] = "prepared"] /\ e.revoked = d.revoked
    BY <1>1, <1>3 DEF PrepareSucceeded, SetCommand, Databases
  <2>3. QED
    BY <1>1, <1>3, <2>1, <2>2 DEF LiveActive, Databases
<1>8. CASE r.result = "failed" \/ (r.result = "succeeded" /\ r.command[1] = "cancel")
  <2>1. ApplyResult(d, r) = SetCommand(Invalidate(d, {j}), r.command, r.result)
    BY <1>2, <1>8 DEF ApplyResult, CandidateDropped
  <2>2. QED
    BY <1>4, <1>5, <2>1
<1>9. CASE r.result \notin {"succeeded", "failed"}
  <2>1. ApplyResult(d, r) = SetCommand(d, r.command, r.result)
    BY <1>2, <1>9 DEF ApplyResult
  <2>2. QED
    BY <1>1, <1>4, <2>1
<1>10. QED
  BY <1>3, <1>6, <1>7, <1>8, <1>9 DEF Phases

\* A key becomes the live active one only by a request that it signed itself.
THEOREM TakeoversAuthenticated == Spec => TakeoverIsAuthenticated
<1>1. ASSUME IndInv, [Next]_vars, NEW k \in Keys, ~LiveActive(db, k), LiveActive(db', k)
      PROVE  \E s \in Slots : req[s].key = k /\ req'[s] = Idle
  <2>1. DBInv(db) /\ db \in Databases /\ elapsed \in SUBSET Keys /\ req \in [Slots -> Requests]
    BY <1>1 DEF IndInv, TypeOK, DBInv
  <2>2. ASSUME NEW j \in Keys, RotateDeviceCredential(j) PROVE FALSE
    BY <1>1, <2>1, <2>2 DEF RotateDeviceCredential, SetCommand, LiveActive, Databases
  <2>3. ASSUME NEW j \in Keys, CancelRotation(j) PROVE FALSE
    BY <1>1, <2>1, <2>3 DEF CancelRotation, LiveActive, Databases
  <2>4. ~RevokeDevice
    BY <1>1, <2>1 DEF RevokeDevice, LiveActive, Databases
  <2>5. ~OtherDeviceDelivery
    BY <1>1, <2>1, HousekeepingActivatesNone DEF OtherDeviceDelivery, NoneActivated
  <2>6. db' # db
    BY <1>1
  <2>7. ASSUME NEW s \in Slots, HandleRequest(s)
        PROVE  req[s].key = k /\ req'[s] = Idle
    <3> DEFINE r == req[s]
               a == ApplyResult(db, r)
               x == ExpireRotationCredentials(a, elapsed)
               e == ExpireCommands(x, elapsed)
    <3>1. PICK pick \in SUBSET Deliverable(e, elapsed) : db' = DeliverCommands(e, pick)
      BY <2>7 DEF HandleRequest
    <3>2. ResultAccepted(db, r, elapsed) /\ r \in Requests /\ req'[s] = Idle
      BY <2>1, <2>7 DEF HandleRequest
    <3>3. DBInv(a)
      BY <1>1, <2>1, <2>7, <3>2, ApplyResultPreserves DEF HandleRequest, IndInv, SeenCommandsExist
    <3> HIDE DEF a
    <3>4. DBInv(x)
      BY <2>1, <3>3, ExpireRotationsPreserves
    <3>5. NoneActivated(a, x)
      BY <2>1, <3>3, HousekeepingActivatesNone DEF DBInv
    <3> HIDE DEF x
    <3>6. DBInv(e)
      BY <2>1, <3>4, ExpireCommandsPreserves
    <3>7. NoneActivated(x, e)
      BY <2>1, <3>4, HousekeepingActivatesNone DEF DBInv
    <3> HIDE DEF e
    <3>8. NoneActivated(e, db')
      BY <2>1, <3>1, <3>6, HousekeepingActivatesNone DEF DBInv
    <3>9. LiveActive(a, k)
      BY <1>1, <3>5, <3>7, <3>8 DEF NoneActivated
    <3>10. r.key = k
      BY <1>1, <2>1, <3>2, <3>9, ResultActivatesSigner DEF a
    <3>11. QED
      BY <3>2, <3>10
  <2>8. QED
    BY <1>1, <2>2, <2>3, <2>4, <2>5, <2>6, <2>7
       DEF Next, OverlapElapses, AuthenticateRequest, AbandonRequest, vars
<1>2. IndInv /\ [Next]_vars =>
        [\A k \in Keys : ~LiveActive(db, k) /\ LiveActive(db', k) =>
            \E s \in Slots : req[s].key = k /\ req'[s] = Idle]_vars
  BY <1>1
<1>3. QED
  BY <1>2, InductiveInvariant, PTL DEF Spec, TakeoverIsAuthenticated
================================================================================
