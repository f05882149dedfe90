---------------------------- MODULE LoginThrottle ----------------------------
(***************************************************************************)
(* The database-backed login throttle.  An attempt takes its time from the *)
(* start of its transaction, locks the row of its source, then the row of  *)
(* its principal, verifies the credential, and writes both rows with its   *)
(* commit; attempts that share a row wait for one another, so the time an  *)
(* attempt judges by may be older than the row it judges.                  *)
(* (security/auth.py: verify_login_attempt and its helpers)                *)
(*                                                                         *)
(* Time is counted in units that divide the window and the lockout.        *)
(***************************************************************************)
EXTENDS Integers, Sequences

CONSTANTS
    Sources,          \* directly connected peers
    Principals,       \* normalised emails
    Attempts,         \* login requests that may be in flight together
    Limit,            \* failures allowed: [{"source", "principal"} -> Nat]
    Window,           \* login_failure_window_minutes
    Lockout,          \* login_lockout_minutes
    MaxWait,          \* bound: how long a transaction may wait for locks
    MaxTime           \* bound: end of the explored time

VARIABLES
    clock,     \* the database clock
    throttle,  \* login_throttles, a row per source and per principal
    attempt,   \* the attempts in flight
    guesses    \* history: when a principal's failures were committed, since
               \* its last success

throttleVars == <<clock, throttle, attempt, guesses>>

Times == 0 .. MaxTime
ThrottleKeys == Sources \cup Principals
Scope(k) == IF k \in Sources THEN "source" ELSE "principal"
NotLocked == 0

ASSUME ThrottleAssumption ==
    /\ Sources \cap Principals = {}
    /\ Limit \in [{"source", "principal"} -> Nat \ {0, 1}]
    /\ Limit["source"] >= Limit["principal"]
    /\ Window \in Nat \ {0} /\ Lockout \in Nat \ {0}
    /\ MaxWait \in Nat /\ MaxTime \in Nat

\* lockedUntil = 0 is a row that is not locked: a deadline is later than 0.
FreshRow(now) == [failures |-> 0, started |-> now, lockedUntil |-> NotLocked]
NoAttempt == [phase |-> "none"]

ThrottleInit ==
    /\ clock = 0
    /\ throttle = [k \in ThrottleKeys |-> FreshRow(0)]
    /\ attempt = [a \in Attempts |-> NoAttempt]
    /\ guesses = [p \in Principals |-> <<>>]

RowLocked(k) ==
    \E a \in Attempts : \/ attempt[a].phase \in {"source", "both"} /\ attempt[a].source = k
                        \/ attempt[a].phase = "both" /\ attempt[a].principal = k

\* Mutant: the window of a row slides with every reading of it.
ExpiredEarly(row, now) == row.lockedUntil <= now /\ row.started + Window <= now + 1

Expired(row, now) ==
    IF row.lockedUntil # NotLocked THEN row.lockedUntil <= now
    ELSE row.started + Window <= now

\* _prepare_login_throttle
Prepared(row, now) == IF Expired(row, now) THEN FreshRow(now) ELSE row

\* _login_throttle_is_locked
IsLocked(row, now) == row.lockedUntil # NotLocked /\ row.lockedUntil > now

\* _record_login_failure on one row
WithFailure(row, now, scope) ==
    [failures    |-> row.failures + 1,
     started     |-> IF row.failures = 0 THEN now ELSE row.started,
     lockedUntil |-> IF row.failures + 1 >= Limit[scope] THEN now + Lockout
                     ELSE row.lockedUntil]

Tick ==
    /\ clock < MaxTime
    /\ \A a \in Attempts : attempt[a].phase # "none" => clock - attempt[a].now < MaxWait
    /\ clock' = clock + 1
    /\ UNCHANGED <<throttle, attempt, guesses>>

\* current_timestamp is fixed when the transaction begins.
BeginAttempt(a, s, p) ==
    /\ attempt[a].phase = "none"
    /\ attempt' = [attempt EXCEPT ![a] =
            [phase |-> "waiting", now |-> clock, source |-> s, principal |-> p]]
    /\ UNCHANGED <<clock, throttle, guesses>>

\* The source row is locked first; when it is in a lockout the attempt ends
\* without touching its principal.  A prepared row is written either way.
LockSource(a) ==
    LET s == attempt[a].source
        row == Prepared(throttle[s], attempt[a].now)
    IN  /\ attempt[a].phase = "waiting"
        /\ ~RowLocked(s)
        /\ IF IsLocked(row, attempt[a].now)
           THEN /\ attempt' = [attempt EXCEPT ![a] = NoAttempt]
                /\ throttle' = [throttle EXCEPT ![s] = row]
           ELSE /\ attempt' = [attempt EXCEPT ![a].phase = "source"]
                /\ UNCHANGED throttle
        /\ UNCHANGED <<clock, guesses>>

LockPrincipal(a) ==
    LET p == attempt[a].principal
        s == attempt[a].source
        row == Prepared(throttle[p], attempt[a].now)
    IN  /\ attempt[a].phase = "source"
        /\ ~RowLocked(p)
        /\ IF IsLocked(row, attempt[a].now)
           THEN /\ attempt' = [attempt EXCEPT ![a] = NoAttempt]
                /\ throttle' = [throttle EXCEPT ![s] = Prepared(@, attempt[a].now),
                                                ![p] = row]
           ELSE /\ attempt' = [attempt EXCEPT ![a].phase = "both"]
                /\ UNCHANGED throttle
        /\ UNCHANGED <<clock, guesses>>

\* verify_login refuses: both rows count the failure.
FailLogin(a) ==
    LET p == attempt[a].principal
        s == attempt[a].source
        now == attempt[a].now
    IN  /\ attempt[a].phase = "both"
        /\ throttle' = [throttle EXCEPT
                ![s] = WithFailure(Prepared(@, now), now, "source"),
                ![p] = WithFailure(Prepared(@, now), now, "principal")]
        /\ guesses' = [guesses EXCEPT ![p] = Append(@, clock)]
        /\ attempt' = [attempt EXCEPT ![a] = NoAttempt]
        /\ UNCHANGED clock

\* Only the principal's failures are cleared by a success.
PassLogin(a) ==
    LET p == attempt[a].principal
        s == attempt[a].source
        now == attempt[a].now
    IN  /\ attempt[a].phase = "both"
        /\ throttle' = [throttle EXCEPT ![s] = Prepared(@, now), ![p] = FreshRow(now)]
        /\ guesses' = [guesses EXCEPT ![p] = <<>>]
        /\ attempt' = [attempt EXCEPT ![a] = NoAttempt]
        /\ UNCHANGED clock

\* A storage or locking failure aborts the login and writes nothing.
AbortAttempt(a) ==
    /\ attempt[a].phase # "none"
    /\ attempt' = [attempt EXCEPT ![a] = NoAttempt]
    /\ UNCHANGED <<clock, throttle, guesses>>

ThrottleNext ==
    \/ Tick
    \/ \E a \in Attempts :
          \/ \E s \in Sources, p \in Principals : BeginAttempt(a, s, p)
          \/ LockSource(a)
          \/ LockPrincipal(a)
          \/ FailLogin(a)
          \/ PassLogin(a)
          \/ AbortAttempt(a)

ThrottleSpec == ThrottleInit /\ [][ThrottleNext]_throttleVars

-----------------------------------------------------------------------------
ThrottleTypeOK ==
    /\ clock \in Times
    /\ \A k \in ThrottleKeys : /\ throttle[k].failures \in 0 .. Limit[Scope(k)]
                       /\ throttle[k].started \in Times
                       /\ throttle[k].lockedUntil \in 0 .. MaxTime + Lockout
    /\ \A a \in Attempts : attempt[a].phase \in {"none", "waiting", "source", "both"}
    /\ \A p \in Principals : guesses[p] \in Seq(Times)

\* Reaching a limit locks the row, and only that does: concurrent attempts
\* neither pass the limit nor leave a full row open.  (_record_login_failure)
FullRowsAreLocked ==
    \A k \in ThrottleKeys : (throttle[k].failures = Limit[Scope(k)]) <=> (throttle[k].lockedUntil # NotLocked)

\* Between two successes, one principal is guessed at most 2 * Limit - 2 times
\* in any span as long as the window or the lockout, whichever is shorter, less
\* the time a transaction may wait: one guess more takes at least that long.
\* Although the windows are fixed, start with a failure and are judged by a time
\* older than the clock.  (_prepare_login_throttle, _record_login_failure)
Span == IF Lockout < Window THEN Lockout ELSE Window
GuessesBounded ==
    LET n == 2 * Limit["principal"] - 2
    IN  \A p \in Principals : \A i \in 1 .. Len(guesses[p]) - n :
            guesses[p][i] + Span <= guesses[p][i + n] + MaxWait

\* The throttle's rows are exact, and they bound the guesses at a password.
ThrottleSound ==
    /\ ThrottleTypeOK
    /\ FullRowsAreLocked
    /\ GuessesBounded
=============================================================================
