-------------------------- MODULE Authentication_proofs --------------------------
(***************************************************************************)
(* Proofs about who is let in.                                             *)
(*                                                                         *)
(* Users: for any number of accounts and of requests in flight, the home   *)
(* keeps an enabled owner, and an open session belongs to an enabled       *)
(* account and to its present credential, logins that overlapped a change  *)
(* of the password aside.  The invariant adds what the row locks protect:  *)
(* who holds the home's row leaves another owner, who does not hold it     *)
(* takes none away, and a change of the password in flight has all         *)
(* sessions in hand but those of overlapping logins.                       *)
(*                                                                         *)
(* Throttle: for any limits, windows and lockouts, a row of the login      *)
(* throttle never counts past its limit and is in a lockout exactly when   *)
(* it has reached it, and the guesses at a password are bounded in every   *)
(* span.  The invariant keeps, of the guesses since the last success,      *)
(* which ones the row counts, that the first of them came soon after the   *)
(* window started, and that the window started long after all but          *)
(* Limit - 2 of the guesses before it (GuessesFit).                        *)
(***************************************************************************)
EXTENDS UserAccess, LoginThrottle, FiniteSetTheorems, TLAPS

--------------------------------------------------------------------------------
(* Users and sessions *)

AccountRows == [role : Roles \cup {"none"}, enabled : BOOLEAN,
                deleted : BOOLEAN, credential : Credentials]
Authenticated == [phase : {"authenticated"}, actor : Users, permissions : SUBSET AllPermissions]
Held == [phase : {"target", "decided"}, target : Users, op : Operations, home : BOOLEAN]
ChangesPassword == [phase : {"changing"}, actor : Users, revoking : SUBSET Session]

AccessTyped ==
    /\ account \in [Users -> AccountRows]
    /\ sessions \in [Users -> SUBSET Session]
    /\ request \in [AdminRequests -> {NoRequest} \cup Authenticated \cup Held \cup ChangesPassword]
    /\ login \subseteq Users

HoldsRow(r) == request[r].phase \in {"target", "decided"}
HoldsHome(r) == request[r].phase = "decided" /\ request[r].home

\* The row of a user is held by one request or login at a time, the row of the
\* home by one request.
LocksHeldOnce ==
    /\ \A q, r \in AdminRequests : HoldsRow(q) /\ HoldsRow(r) /\ q # r =>
                                       request[q].target # request[r].target
    /\ \A r \in AdminRequests : HoldsRow(r) => request[r].target \notin login
    /\ \A q, r \in AdminRequests : HoldsHome(q) /\ HoldsHome(r) => q = r

\* A request of someone with an account; one that is to take an owner leaves
\* another one and holds the home, one that does not hold it takes none.
RequestFits(r) ==
    /\ request[r].phase \in {"authenticated", "changing"} => account[request[r].actor].role # "none"
    /\ HoldsRow(r) => account[request[r].target].role # "none"
    /\ HoldsHome(r) => ActiveOwners \ {request[r].target} # {}
    /\ request[r].phase = "decided" /\ ~request[r].home => ~TakesOwner(request[r].target, request[r].op)
    /\ request[r].phase = "changing" =>
          \A s \in sessions[request[r].actor] \ request[r].revoking : s.overlapped

AccessInv ==
    /\ AccessTyped
    /\ LocksHeldOnce
    /\ \A r \in AdminRequests : RequestFits(r)
    /\ \A u \in login : ActiveUser(u)
    /\ HomeKeepsOwner
    /\ SessionsMatchCredentials

\* Logins, logouts and the bootstrap.
LEMMA LoginSteps ==
    ASSUME AccessInv, NEW u \in Users,
           \/ bootstrap_owner(u) \/ verify_login(u) \/ CommitLogin(u) \/ AbortLogin(u)
           \/ \E s \in sessions[u] : revoke_session(u, s)
    PROVE  AccessInv'
<1> USE DEF AccessInv, AccessTyped, LocksHeldOnce, HoldsRow, HoldsHome, RequestFits, ActiveUser,
            ActiveOwners, TakesOwner, HomeKeepsOwner, SessionsMatchCredentials, NoRequest,
            Authenticated, Held, ChangesPassword
<1>1. CASE bootstrap_owner(u)
  <2>1. 0 \in Credentials /\ \A r \in AdminRequests : request[r].phase = "none"
    BY <1>1, AccessAssumption DEF bootstrap_owner, Credentials
  <2>2. QED
    BY <1>1, <2>1 DEF bootstrap_owner, AccountRows, NewAccount, Roles, Session
<1>2. CASE verify_login(u)
  BY <1>2 DEF verify_login, RowHeld
<1>3. CASE CommitLogin(u)
  BY <1>3 DEF CommitLogin, LoginOverlaps, Changing, Session, AccountRows
<1>4. CASE AbortLogin(u)
  BY <1>4 DEF AbortLogin
<1>5. ASSUME NEW s \in sessions[u], revoke_session(u, s) PROVE AccessInv'
  BY <1>5 DEF revoke_session
<1>6. QED
  BY <1>1, <1>2, <1>3, <1>4, <1>5

\* A request that reads, locks or ends, and writes no row: it locks a row that
\* is not held, and the home not at all.
LEMMA RequestMoves ==
    ASSUME AccessInv, NEW r \in AdminRequests, NEW q,
           request' = [request EXCEPT ![r] = q], UNCHANGED <<account, sessions, login>>,
           q \in {NoRequest} \cup Authenticated \cup Held \cup ChangesPassword,
           q.phase \in {"target", "decided"} => ~q.home /\ ~RowHeld(q.target),
           RequestFits(r)'
    PROVE  AccessInv'
<1>1. /\ request'[r] = q /\ \A x \in AdminRequests \ {r} : request'[x] = request[x]
      /\ AccessTyped'
  BY DEF AccessInv, AccessTyped
<1>2. LocksHeldOnce'
  <2>1. \A x \in AdminRequests \ {r} :
            HoldsRow(x)' = HoldsRow(x) /\ HoldsHome(x)' = HoldsHome(x)
    BY <1>1 DEF HoldsRow, HoldsHome
  <2>2. ~HoldsHome(r)'
    BY <1>1 DEF HoldsHome
  <2>3. HoldsRow(r)' => /\ q.target \notin login
                        /\ \A x \in AdminRequests : HoldsRow(x) => request[x].target # q.target
    BY <1>1 DEF HoldsRow, RowHeld
  <2>4. LocksHeldOnce
    BY DEF AccessInv
  <2>5. QED
    BY <1>1, <2>1, <2>2, <2>3, <2>4 DEF LocksHeldOnce
<1>3. ASSUME NEW x \in AdminRequests PROVE RequestFits(x)'
  <2>1. CASE x = r
    BY <2>1
  <2>2. CASE x # r
    BY <1>1, <2>2
       DEF AccessInv, RequestFits, HoldsRow, HoldsHome, ActiveOwners, ActiveUser, TakesOwner
  <2>3. QED
    BY <2>1, <2>2
<1>4. QED
  BY <1>1, <1>2, <1>3
     DEF AccessInv, HomeKeepsOwner, ActiveOwners, ActiveUser, SessionsMatchCredentials

\* The commit of change_password: what stays of the sessions overlapped it.
LEMMA ChangeStep ==
    ASSUME AccessInv, NEW r \in AdminRequests, CommitChange(r)
    PROVE  AccessInv'
<1> DEFINE u == request[r].actor
<1>1. /\ AccessTyped /\ LocksHeldOnce /\ RequestFits(r) /\ request[r] \in ChangesPassword
      /\ request[r].phase = "changing" /\ u \in Users
  BY DEF AccessInv, AccessTyped, CommitChange, NoRequest, Authenticated, Held, ChangesPassword
<1>2. /\ account[u].credential < MaxCredential
      /\ account' = [account EXCEPT ![u].credential = @ + 1]
      /\ sessions' = [sessions EXCEPT ![u] = @ \ request[r].revoking]
      /\ request' = [request EXCEPT ![r] = NoRequest]
      /\ UNCHANGED login
  BY DEF CommitChange
<1>3. \A s \in sessions[u] \ request[r].revoking : s.overlapped
  BY <1>1 DEF RequestFits
<1> HIDE DEF u
<1>4. /\ account' \in [Users -> AccountRows]
      /\ \A x \in Users : /\ account'[x].role = account[x].role
                          /\ account'[x].enabled = account[x].enabled
                          /\ account'[x].deleted = account[x].deleted
                          /\ x # u => account'[x] = account[x]
  <2>1. account[u] \in AccountRows /\ account[u].credential + 1 \in Credentials
    BY <1>1, <1>2, AccessAssumption DEF AccessTyped, AccountRows, Credentials
  <2>2. account \in [Users -> AccountRows]
    BY <1>1 DEF AccessTyped
  <2>3. QED
    BY <1>1, <1>2, <2>1, <2>2 DEF AccountRows
<1>5. /\ sessions' \in [Users -> SUBSET Session] /\ sessions'[u] = sessions[u] \ request[r].revoking
      /\ \A x \in Users : sessions'[x] \subseteq sessions[x] /\ (x # u => sessions'[x] = sessions[x])
  BY <1>1, <1>2 DEF AccessTyped
<1>6. /\ request' \in [AdminRequests -> {NoRequest} \cup Authenticated \cup Held \cup ChangesPassword]
      /\ request'[r] = NoRequest /\ \A x \in AdminRequests \ {r} : request'[x] = request[x]
  BY <1>1, <1>2 DEF AccessTyped
<1>7. AccessTyped'
  BY <1>1, <1>2, <1>4, <1>5, <1>6 DEF AccessTyped
<1>8. LocksHeldOnce'
  BY <1>1, <1>2, <1>6 DEF LocksHeldOnce, HoldsRow, HoldsHome, NoRequest
<1>9. ActiveOwners' = ActiveOwners /\ \A x \in Users : ActiveUser(x)' = ActiveUser(x)
  BY <1>4 DEF ActiveOwners, ActiveUser
<1>10. ASSUME NEW x \in AdminRequests PROVE RequestFits(x)'
  <2>1. CASE x = r
    BY <1>6, <2>1 DEF RequestFits, HoldsRow, HoldsHome, NoRequest
  <2>2. CASE x # r
    <3>1. request'[x] = request[x] /\ RequestFits(x)
      BY <1>6, <2>2 DEF AccessInv
    <3>2. /\ HoldsRow(x) => request[x].target \in Users
          /\ request[x].phase \in {"authenticated", "changing"} => request[x].actor \in Users
      BY <1>1 DEF AccessTyped, HoldsRow, NoRequest, Authenticated, Held, ChangesPassword
    <3>3. QED
      BY <1>4, <1>5, <1>9, <3>1, <3>2 DEF RequestFits, HoldsRow, HoldsHome, TakesOwner
  <2>3. QED
    BY <2>1, <2>2
<1>11. SessionsMatchCredentials'
  <2>1. SessionsMatchCredentials
    BY DEF AccessInv
  <2>2. QED
    BY <1>1, <1>3, <1>4, <1>5, <1>9, <2>1 DEF SessionsMatchCredentials
<1>12. HomeKeepsOwner' /\ \A x \in login' : ActiveUser(x)'
  BY <1>1, <1>2, <1>4, <1>9 DEF AccessInv, AccessTyped, HomeKeepsOwner
<1>13. QED
  BY <1>7, <1>8, <1>10, <1>11, <1>12 DEF AccessInv

\* Requests up to the lock of their target, and changes of the own password.
LEMMA RequestSteps ==
    ASSUME AccessInv, NEW r \in AdminRequests,
           \/ \E a \in Users : current_user(r, a)
           \/ \E u \in Users, role \in Roles : create_user(r, u, role)
           \/ \E t \in Users, op \in Operations : LockTarget(r, t, op)
           \/ BeginChange(r) \/ CommitChange(r) \/ Abort(r)
    PROVE  AccessInv'
<1>0. AccessTyped /\ request[r] \in {NoRequest} \cup Authenticated \cup Held \cup ChangesPassword
  BY DEF AccessInv, AccessTyped
<1>1. ASSUME NEW a \in Users, current_user(r, a) PROVE AccessInv'
  <2> DEFINE q == [phase |-> "authenticated", actor |-> a,
                   permissions |-> RolePermissions(account[a].role)]
  <2>1. /\ request' = [request EXCEPT ![r] = q] /\ UNCHANGED <<account, sessions, login>>
        /\ account[a].role # "none"
    BY <1>1 DEF current_user, ActiveUser
  <2>2. q \in Authenticated /\ q.phase = "authenticated" /\ q.actor = a
    BY AccessAssumption DEF Authenticated, RolePermissions, AllPermissions
  <2> HIDE DEF q
  <2>3. RequestFits(r)'
    BY <1>0, <2>1, <2>2 DEF AccessTyped, RequestFits, HoldsRow, HoldsHome
  <2>4. QED
    BY <2>1, <2>2, <2>3, RequestMoves
<1>2. ASSUME NEW u \in Users, NEW role \in Roles, create_user(r, u, role) PROVE AccessInv'
  BY <1>2, AccessAssumption
     DEF create_user, NewAccount, AccountRows, Roles, Credentials, AccessInv, AccessTyped,
         LocksHeldOnce, HoldsRow, HoldsHome, RequestFits, ActiveUser, ActiveOwners, TakesOwner,
         HomeKeepsOwner, SessionsMatchCredentials, NoRequest, Authenticated, Held, ChangesPassword
<1>3. ASSUME NEW t \in Users, NEW op \in Operations, LockTarget(r, t, op) PROVE AccessInv'
  <2> DEFINE q == [phase |-> IF TakesOwner(t, op) THEN "target" ELSE "decided",
                   target |-> t, op |-> op, home |-> FALSE]
  <2>1. /\ request' = [request EXCEPT ![r] = q] /\ UNCHANGED <<account, sessions, login>>
        /\ account[t].role # "none" /\ ~RowHeld(t)
    BY <1>3 DEF LockTarget
  <2>2. /\ q \in Held /\ q.target = t /\ q.op = op /\ ~q.home
        /\ q.phase \in {"target", "decided"} /\ (q.phase = "decided" => ~TakesOwner(t, op))
    BY DEF Held
  <2> HIDE DEF q
  <2>3. RequestFits(r)'
    BY <1>0, <2>1, <2>2 DEF AccessTyped, RequestFits, HoldsRow, HoldsHome, TakesOwner
  <2>4. QED
    BY <2>1, <2>2, <2>3, RequestMoves
<1>4. CASE BeginChange(r)
  <2> DEFINE u == request[r].actor
             q == [phase |-> "changing", actor |-> u, revoking |-> sessions[u]]
  <2>1. /\ request' = [request EXCEPT ![r] = q] /\ UNCHANGED <<account, sessions, login>>
        /\ request[r].phase = "authenticated"
    BY <1>4 DEF BeginChange
  <2>2. u \in Users /\ account[u].role # "none"
    BY <1>0, <2>1 DEF AccessInv, RequestFits, NoRequest, Authenticated, Held, ChangesPassword
  <2>3. q \in ChangesPassword /\ q.phase = "changing" /\ q.actor = u /\ q.revoking = sessions[u]
    BY <1>0, <2>2 DEF AccessTyped, ChangesPassword
  <2> HIDE DEF q, u
  <2>4. RequestFits(r)'
    BY <1>0, <2>1, <2>2, <2>3 DEF AccessTyped, RequestFits, HoldsRow, HoldsHome
  <2>5. QED
    BY <2>1, <2>3, <2>4, RequestMoves
<1>5. CASE CommitChange(r)
  BY <1>5, ChangeStep
<1>6. CASE Abort(r)
  <2>1. request' = [request EXCEPT ![r] = NoRequest] /\ UNCHANGED <<account, sessions, login>>
    BY <1>6 DEF Abort
  <2>2. RequestFits(r)' /\ NoRequest.phase = "none"
    BY <1>0, <2>1 DEF AccessTyped, RequestFits, HoldsRow, HoldsHome, NoRequest
  <2>3. QED
    BY <2>1, <2>2, RequestMoves
<1>7. QED
  BY <1>1, <1>2, <1>3, <1>4, <1>5, <1>6

\* _protect_home_owners: more than one enabled owner is one besides the target.
LEMMA ProtectStep ==
    ASSUME AccessInv, NEW r \in AdminRequests, ProtectHomeOwners(r)
    PROVE  AccessInv'
<1> DEFINE t == request[r].target
<1>1. /\ AccessTyped /\ request[r] \in Held /\ t \in Users /\ request[r].phase = "target"
      /\ ~HomeHeld /\ UNCHANGED <<account, sessions, login>>
  BY DEF AccessInv, AccessTyped, NoRequest, Authenticated, Held, ChangesPassword, ProtectHomeOwners
<1>2. CASE Cardinality(ActiveOwners) <= 1
  <2>1. request' = [request EXCEPT ![r] = NoRequest]
    BY <1>2 DEF ProtectHomeOwners
  <2>2. QED
    BY <1>1, <2>1
       DEF AccessInv, AccessTyped, LocksHeldOnce, HoldsRow, HoldsHome, RequestFits, ActiveUser,
           ActiveOwners, TakesOwner, HomeKeepsOwner, SessionsMatchCredentials, NoRequest
<1>3. CASE ~(Cardinality(ActiveOwners) <= 1)
  <2>1. ActiveOwners \ {t} # {}
    <3> SUFFICES ASSUME ActiveOwners \subseteq {t} PROVE FALSE
      OBVIOUS
    <3>1. ActiveOwners = {} \/ ActiveOwners = {t}
      OBVIOUS
    <3>2. Cardinality({}) = 0 /\ Cardinality({t}) = 1
      BY FS_EmptySet, FS_Singleton
    <3> HIDE DEF t
    <3>3. CASE ActiveOwners = {}
      BY <1>3, <3>2, <3>3
    <3>4. CASE ActiveOwners = {t}
      BY <1>3, <3>2, <3>4
    <3>5. QED
      BY <3>1, <3>3, <3>4
  <2> DEFINE q == [request[r] EXCEPT !.phase = "decided", !.home = TRUE]
  <2>2. request' = [request EXCEPT ![r] = q]
    BY <1>3 DEF ProtectHomeOwners
  <2>3. /\ q \in Held /\ q.phase = "decided" /\ q.home /\ q.target = t
    BY <1>1 DEF Held
  <2> HIDE DEF q
  <2>4. /\ request'[r] = q /\ \A x \in AdminRequests \ {r} : request'[x] = request[x]
        /\ AccessTyped'
    BY <1>1, <2>2, <2>3 DEF AccessTyped
  <2>5. LocksHeldOnce'
    BY <1>1, <2>3, <2>4 DEF AccessInv, LocksHeldOnce, HoldsRow, HoldsHome, HomeHeld
  <2>6. ASSUME NEW x \in AdminRequests PROVE RequestFits(x)'
    <3>1. CASE x = r
      BY <1>1, <2>1, <2>3, <2>4, <3>1
         DEF AccessInv, RequestFits, HoldsRow, HoldsHome, ActiveOwners, ActiveUser
    <3>2. CASE x # r
      BY <1>1, <2>4, <3>2
         DEF AccessInv, RequestFits, HoldsRow, HoldsHome, ActiveOwners, ActiveUser, TakesOwner
    <3>3. QED
      BY <3>1, <3>2
  <2>7. QED
    BY <1>1, <2>4, <2>5, <2>6
       DEF AccessInv, HomeKeepsOwner, ActiveOwners, ActiveUser, SessionsMatchCredentials
<1>4. QED
  BY <1>2, <1>3

\* The row an operation leaves: it exists, is still of an owner unless the
\* operation takes one, and is as enabled and has the same credential unless
\* the sessions are revoked with it.
LEMMA AppliedRow ==
    ASSUME NEW row \in AccountRows, NEW op \in Operations, row.role # "none",
           Renews(op) => row.credential < MaxCredential
    PROVE  LET new == Applied(row, op)
           IN  /\ new \in AccountRows /\ new.role # "none"
               /\ ~RevokesSessions(op) => /\ new.credential = row.credential
                                          /\ row.enabled => new.enabled
                                          /\ ~row.deleted => ~new.deleted
               /\ op.kind # "delete" /\ op.role \in {"keep", "Owner"} /\ op.enabled # "no" =>
                      /\ row.role = "Owner" => new.role = "Owner"
                      /\ row.enabled => new.enabled
                      /\ ~row.deleted => ~new.deleted
<1> DEFINE role == IF op.role = "keep" THEN row.role ELSE op.role
           enabled == CASE op.kind = "delete" \/ op.enabled = "no" -> FALSE
                        [] op.kind = "restore" \/ op.enabled = "yes" -> TRUE
                        [] OTHER -> row.enabled
           deleted == CASE op.kind = "delete" -> TRUE
                        [] op.kind = "restore" -> FALSE
                        [] OTHER -> row.deleted
           credential == IF Renews(op) THEN row.credential + 1 ELSE row.credential
           new == Applied(row, op)
<1>1. op.role \in Roles \cup {"keep"}
  BY AccessAssumption DEF Operations, Update, soft_delete_user, restore_user, reset_password,
                          update_profile, Plain
<1>2. role \in Roles \cup {"none"} /\ role # "none" /\ (op.role \in {"keep", "Owner"} /\ row.role = "Owner" => role = "Owner")
  BY <1>1 DEF AccountRows, Roles
<1>3. credential \in Credentials /\ (~Renews(op) => credential = row.credential)
  BY AccessAssumption DEF AccountRows, Credentials
<1>4. /\ enabled \in BOOLEAN
      /\ op.kind # "delete" /\ op.enabled # "no" /\ row.enabled => enabled
  <2>1. row.enabled \in BOOLEAN
    BY DEF AccountRows
  <2>2. CASE op.kind = "delete" \/ op.enabled = "no"
    BY <2>2
  <2>3. CASE ~(op.kind = "delete" \/ op.enabled = "no") /\ (op.kind = "restore" \/ op.enabled = "yes")
    <3>1. enabled = TRUE
      BY <2>3
    <3>2. QED
      BY <3>1
  <2>4. CASE ~(op.kind = "delete" \/ op.enabled = "no") /\ ~(op.kind = "restore" \/ op.enabled = "yes")
    <3>1. enabled = row.enabled
      BY <2>4
    <3>2. QED
      BY <2>1, <3>1
  <2>5. QED
    BY <2>2, <2>3, <2>4
<1>5. /\ deleted \in BOOLEAN
      /\ op.kind # "delete" /\ ~row.deleted => ~deleted
  <2>1. row.deleted \in BOOLEAN
    BY DEF AccountRows
  <2>2. CASE op.kind = "delete"
    BY <2>2
  <2>3. CASE op.kind = "restore"
    BY <2>3
  <2>4. CASE op.kind # "delete" /\ op.kind # "restore"
    <3>1. deleted = row.deleted
      BY <2>4
    <3>2. QED
      BY <2>1, <3>1
  <2>5. QED
    BY <2>2, <2>3, <2>4
<1>6. new = [role |-> role, enabled |-> enabled, deleted |-> deleted, credential |-> credential]
  BY Zenon DEF Applied
<1> HIDE DEF new, role, enabled, deleted, credential
<1>7. /\ new.role = role /\ new.credential = credential
      /\ new.enabled <=> enabled
      /\ new.deleted <=> deleted
  BY <1>4, <1>5, <1>6
<1>8. new \in AccountRows
  BY <1>2, <1>3, <1>4, <1>5, <1>6 DEF AccountRows
<1>9. QED
  BY <1>2, <1>3, <1>4, <1>5, <1>7, <1>8 DEF new, RevokesSessions

\* The commit of a user mutation: the row lock keeps what was decided true.
LEMMA MutationStep ==
    ASSUME AccessInv, NEW r \in AdminRequests, CommitMutation(r)
    PROVE  AccessInv'
<1> DEFINE t == request[r].target
           op == request[r].op
           new == Applied(account[t], op)
<1>1. /\ AccessTyped /\ request[r] \in Held /\ t \in Users /\ op \in Operations
      /\ request[r].phase = "decided" /\ RequestFits(r) /\ account[t].role # "none"
      /\ account[t] \in AccountRows /\ (Renews(op) => account[t].credential < MaxCredential)
  BY DEF AccessInv, AccessTyped, NoRequest, Authenticated, Held, ChangesPassword, CommitMutation,
         RequestFits, HoldsRow
<1>2. /\ new \in AccountRows /\ new.role # "none"
      /\ ~RevokesSessions(op) => /\ new.credential = account[t].credential
                                 /\ account[t].enabled => new.enabled
                                 /\ ~account[t].deleted => ~new.deleted
      /\ op.kind # "delete" /\ op.role \in {"keep", "Owner"} /\ op.enabled # "no" =>
             /\ account[t].role = "Owner" => new.role = "Owner"
             /\ account[t].enabled => new.enabled
             /\ ~account[t].deleted => ~new.deleted
  BY <1>1, AppliedRow
<1>3. /\ account' = [account EXCEPT ![t] = new]
      /\ sessions' = [sessions EXCEPT ![t] = IF RevokesSessions(op) THEN {} ELSE @]
      /\ request' = [request EXCEPT ![r] = NoRequest]
      /\ UNCHANGED login
  BY DEF CommitMutation
<1> HIDE DEF new
<1>4. /\ account'[t] = new /\ \A u \in Users \ {t} : account'[u] = account[u]
      /\ sessions'[t] = IF RevokesSessions(op) THEN {} ELSE sessions[t]
      /\ \A u \in Users \ {t} : sessions'[u] = sessions[u]
      /\ request'[r] = NoRequest /\ \A q \in AdminRequests \ {r} : request'[q] = request[q]
      /\ AccessTyped'
  BY <1>1, <1>2, <1>3 DEF AccessTyped
<1>5. LocksHeldOnce'
  BY <1>3, <1>4 DEF AccessInv, LocksHeldOnce, HoldsRow, HoldsHome, NoRequest
<1>6. t \notin login /\ \A q \in AdminRequests \ {r} : HoldsRow(q) => request[q].target # t
  BY <1>1 DEF AccessInv, LocksHeldOnce, HoldsRow
<1>7. t \in ActiveOwners /\ ~TakesOwner(t, op) => t \in ActiveOwners'
  BY <1>1, <1>2, <1>4 DEF ActiveOwners, ActiveUser, TakesOwner
<1>8. \A u \in Users \ {t} : u \in ActiveOwners => u \in ActiveOwners'
  BY <1>4 DEF ActiveOwners, ActiveUser
<1>9. ~request[r].home => ActiveOwners \subseteq ActiveOwners'
  <2>1. ActiveOwners \subseteq Users
    BY DEF ActiveOwners
  <2>2. QED
    BY <1>1, <1>7, <1>8, <2>1 DEF RequestFits
<1>10. request[r].home => ActiveOwners' # {}
  <2>1. ActiveOwners \subseteq Users
    BY DEF ActiveOwners
  <2>2. QED
    BY <1>1, <1>8, <2>1 DEF RequestFits, HoldsHome
<1>11. ASSUME NEW q \in AdminRequests PROVE RequestFits(q)'
  <2>1. CASE q = r
    BY <1>4, <2>1 DEF RequestFits, HoldsRow, HoldsHome, NoRequest
  <2>2. CASE q # r
    <3>1. request'[q] = request[q] /\ RequestFits(q)
      BY <1>4, <2>2 DEF AccessInv
    <3>2. HoldsRow(q) => account'[request[q].target] = account[request[q].target]
                         /\ request[q].target \in Users
      BY <1>1, <1>4, <1>6, <2>2
         DEF AccessTyped, HoldsRow, NoRequest, Authenticated, Held, ChangesPassword
    <3>3. HoldsHome(q) => ~request[r].home
      BY <1>1, <2>2 DEF AccessInv, LocksHeldOnce, HoldsHome
    <3>4. HoldsHome(q) => ActiveOwners' \ {request[q].target} # {}
      BY <1>9, <3>1, <3>3 DEF RequestFits
    <3>5. request[q].phase \in {"authenticated", "changing"} =>
              request[q].actor \in Users /\ account'[request[q].actor].role # "none"
      BY <1>1, <1>2, <1>4, <3>1
         DEF AccessTyped, RequestFits, NoRequest, Authenticated, Held, ChangesPassword
    <3>6. request[q].phase = "changing" =>
              \A s \in sessions'[request[q].actor] \ request[q].revoking : s.overlapped
      BY <1>4, <3>1, <3>5 DEF RequestFits
    <3>7. QED
      BY <3>1, <3>2, <3>4, <3>5, <3>6 DEF RequestFits, HoldsRow, HoldsHome, TakesOwner
  <2>3. QED
    BY <2>1, <2>2
<1>12. HomeKeepsOwner'
  BY <1>1, <1>9, <1>10 DEF AccessInv, HomeKeepsOwner
<1>13. SessionsMatchCredentials'
  BY <1>1, <1>2, <1>4 DEF AccessInv, SessionsMatchCredentials, ActiveUser
<1>14. (\A u \in login : ActiveUser(u))'
  BY <1>1, <1>3, <1>4, <1>6 DEF AccessInv, AccessTyped, ActiveUser
<1>15. QED
  BY <1>4, <1>5, <1>11, <1>12, <1>13, <1>14 DEF AccessInv

\* Every step of the accounts and sessions keeps their invariant.
LEMMA AccessStep == AccessInv /\ [AccessNext]_accessVars => AccessInv'
<1> SUFFICES ASSUME AccessInv, [AccessNext]_accessVars PROVE AccessInv'
  OBVIOUS
<1>1. CASE UNCHANGED accessVars
  BY <1>1 DEF accessVars, AccessInv, AccessTyped, LocksHeldOnce, HoldsRow, HoldsHome, RequestFits,
              ActiveUser, ActiveOwners, TakesOwner, HomeKeepsOwner, SessionsMatchCredentials
<1>2. CASE AccessNext
  BY <1>2, LoginSteps, RequestSteps, ProtectStep, MutationStep DEF AccessNext
<1>3. QED
  BY <1>1, <1>2

\* However requests and logins overlap, the home keeps an enabled owner and no
\* session outlives its account or, a login that overlapped a change of the
\* password aside, its credential.
THEOREM AccessCorrect == AccessSpec => []AccessSound
<1>1. AccessInit => AccessInv
  <2> SUFFICES ASSUME AccessInit PROVE AccessInv
    OBVIOUS
  <2>1. NoAccount \in AccountRows
    BY AccessAssumption DEF NoAccount, AccountRows, Credentials
  <2>2. AccessTyped
    BY <2>1 DEF AccessInit, AccessTyped
  <2>3. QED
    BY <2>2 DEF AccessInit, AccessInv, LocksHeldOnce, HoldsRow, HoldsHome, RequestFits, NoRequest,
                NoAccount, HomeKeepsOwner, SessionsMatchCredentials
<1>2. AccessInv => AccessSound
  BY DEF AccessInv, AccessTyped, AccessSound, AccessTypeOK, AccountRows, RequestPhases,
         NoRequest, Authenticated, Held, ChangesPassword
<1>3. QED
  BY <1>1, <1>2, AccessStep, PTL DEF AccessSpec

--------------------------------------------------------------------------------
(* The login throttle *)

ThrottleRows == [failures : Nat, started : Times, lockedUntil : 0 .. MaxTime + Lockout]
InFlight == [phase : {"waiting", "source", "both"}, now : Times,
             source : Sources, principal : Principals]

\* A row of one scope counts up to its limit and is locked when it got there.
RowExact(row, scope) ==
    /\ row \in ThrottleRows
    /\ row.failures <= Limit[scope]
    /\ row.failures = Limit[scope] <=> row.lockedUntil # NotLocked

\* The attempt a has locked the row of k.
HoldsKey(a, k) ==
    \/ attempt[a].phase \in {"source", "both"} /\ attempt[a].source = k
    \/ attempt[a].phase = "both" /\ attempt[a].principal = k

\* An attempt goes on only with rows that are not in a lockout at its time, and
\* they stay as it found them: nobody else writes a locked row.
ThrottleInv ==
    /\ clock \in Times
    /\ attempt \in [Attempts -> {NoAttempt} \cup InFlight]
    /\ guesses \in [Principals -> Seq(Times)]
    /\ DOMAIN throttle = ThrottleKeys
    /\ throttle = [k \in ThrottleKeys |-> throttle[k]]
    /\ \A k \in ThrottleKeys : RowExact(throttle[k], Scope(k))
    /\ \A a, b \in Attempts, k \in ThrottleKeys : HoldsKey(a, k) /\ HoldsKey(b, k) => a = b
    /\ \A a \in Attempts, k \in ThrottleKeys :
          HoldsKey(a, k) => throttle[k].lockedUntil <= attempt[a].now

\* The scopes of the throttle's keys, and its limits.
LEMMA LimitFacts ==
    /\ \A k \in Sources : Scope(k) = "source" /\ k \in ThrottleKeys
    /\ \A k \in Principals : Scope(k) = "principal" /\ k \in ThrottleKeys /\ k \notin Sources
    /\ \A scope \in {"source", "principal"} : Limit[scope] \in Nat /\ Limit[scope] >= 2
    /\ Window \in Nat /\ Lockout \in Nat /\ Lockout >= 1 /\ MaxTime \in Nat
BY ThrottleAssumption DEF Scope, ThrottleKeys

\* A row that starts over counts nothing and is open.
LEMMA FreshRowExact ==
    ASSUME NEW now \in Times, NEW scope \in {"source", "principal"}
    PROVE  RowExact(FreshRow(now), scope) /\ FreshRow(now).lockedUntil = NotLocked
BY LimitFacts DEF RowExact, FreshRow, ThrottleRows, NotLocked, Times

\* _prepare_login_throttle keeps a row exact; one that is not in a lockout is
\* open afterwards and has room for a failure.
LEMMA PreparedExact ==
    ASSUME NEW now \in Times, NEW scope \in {"source", "principal"}, NEW row, RowExact(row, scope)
    PROVE  /\ RowExact(Prepared(row, now), scope)
           /\ Prepared(row, now).lockedUntil <= row.lockedUntil
           /\ ~IsLocked(Prepared(row, now), now) <=> row.lockedUntil <= now
           /\ row.lockedUntil <= now => /\ Prepared(row, now).lockedUntil = NotLocked
                                        /\ Prepared(row, now).failures < Limit[scope]
<1>1. /\ row.lockedUntil \in Nat /\ row.failures \in Nat /\ row.started \in Nat /\ now \in Nat
      /\ Limit[scope] \in Nat /\ Limit[scope] >= 2
  BY LimitFacts DEF RowExact, ThrottleRows, Times
<1>2. CASE Expired(row, now)
  <2>1. Prepared(row, now) = FreshRow(now) /\ row.lockedUntil <= now
    BY <1>1, <1>2 DEF Prepared, Expired, NotLocked
  <2>2. QED
    BY <1>1, <2>1, FreshRowExact DEF IsLocked, FreshRow, NotLocked
<1>3. CASE ~Expired(row, now)
  <2>1. Prepared(row, now) = row
    BY <1>3 DEF Prepared
  <2>2. row.lockedUntil <= now => row.lockedUntil = NotLocked
    BY <1>1, <1>3 DEF Expired
  <2>3. row.lockedUntil = NotLocked => row.failures < Limit[scope]
    BY <1>1 DEF RowExact
  <2>4. QED
    BY <1>1, <2>1, <2>2, <2>3 DEF IsLocked, NotLocked
<1>4. QED
  BY <1>2, <1>3

\* _record_login_failure on a row that is open.
LEMMA FailureExact ==
    ASSUME NEW now \in Times, NEW scope \in {"source", "principal"}, NEW row, RowExact(row, scope),
           row.lockedUntil = NotLocked, row.failures < Limit[scope]
    PROVE  RowExact(WithFailure(row, now, scope), scope)
BY LimitFacts DEF RowExact, WithFailure, ThrottleRows, NotLocked, Times

\* An attempt ends writing the rows W, which no other attempt holds.
EndsWriting(a, W) ==
    /\ attempt' = [attempt EXCEPT ![a] = NoAttempt]
    /\ DOMAIN throttle' = ThrottleKeys
    /\ throttle' = [k \in ThrottleKeys |-> throttle'[k]]
    /\ \A k \in ThrottleKeys \ W : throttle'[k] = throttle[k]
    /\ \A k \in W : RowExact(throttle'[k], Scope(k))
    /\ \A k \in W, b \in Attempts \ {a} : ~HoldsKey(b, k)
    /\ UNCHANGED clock
    /\ guesses' \in [Principals -> Seq(Times)]

\* Such an end keeps the invariant: the others' rows are as they were.
LEMMA EndStep ==
    ASSUME ThrottleInv, NEW a \in Attempts, NEW W \in SUBSET ThrottleKeys, EndsWriting(a, W)
    PROVE  ThrottleInv'
<1>1. attempt' \in [Attempts -> {NoAttempt} \cup InFlight] /\ attempt'[a] = NoAttempt
      /\ \A b \in Attempts \ {a} : attempt'[b] = attempt[b]
  BY DEF ThrottleInv, EndsWriting
<1>2. \A k \in ThrottleKeys : ~HoldsKey(a, k)'
  BY <1>1 DEF HoldsKey, NoAttempt
<1>3. \A b \in Attempts \ {a}, k \in ThrottleKeys : HoldsKey(b, k)' <=> HoldsKey(b, k)
  BY <1>1 DEF HoldsKey
<1>4. \A k \in ThrottleKeys : RowExact(throttle'[k], Scope(k))
  BY DEF ThrottleInv, EndsWriting
<1>5. (\A c, b \in Attempts, k \in ThrottleKeys : HoldsKey(c, k) /\ HoldsKey(b, k) => c = b)'
  BY <1>2, <1>3 DEF ThrottleInv
<1>6. (\A b \in Attempts, k \in ThrottleKeys :
          HoldsKey(b, k) => throttle[k].lockedUntil <= attempt[b].now)'
  BY <1>1, <1>2, <1>3 DEF ThrottleInv, EndsWriting
<1>7. (\A k \in ThrottleKeys : RowExact(throttle[k], Scope(k)))'
  BY <1>4 DEF RowExact, Scope
<1>8. QED
  BY <1>1, <1>5, <1>6, <1>7 DEF ThrottleInv, EndsWriting

\* Every step of the throttle keeps its invariant.
LEMMA ThrottleStep == ThrottleInv /\ [ThrottleNext]_throttleVars => ThrottleInv'
<1> SUFFICES ASSUME ThrottleInv, [ThrottleNext]_throttleVars PROVE ThrottleInv'
  OBVIOUS
<1>1. ASSUME UNCHANGED <<throttle, attempt>>, clock' \in Times, UNCHANGED guesses
      PROVE  ThrottleInv'
  BY <1>1 DEF ThrottleInv, HoldsKey
<1>2. CASE Tick
  BY <1>1, <1>2, LimitFacts DEF Tick, Times, ThrottleInv
<1>3. ASSUME NEW a \in Attempts, NEW s \in Sources, NEW p \in Principals, BeginAttempt(a, s, p)
      PROVE  ThrottleInv'
  BY <1>3 DEF BeginAttempt, ThrottleInv, HoldsKey, InFlight
<1>4. ASSUME NEW a \in Attempts, AbortAttempt(a)
      PROVE  ThrottleInv'
  BY <1>4 DEF AbortAttempt, ThrottleInv, HoldsKey, NoAttempt
<1>6. ASSUME NEW a \in Attempts, LockSource(a) PROVE ThrottleInv'
  <2> DEFINE s == attempt[a].source
             now == attempt[a].now
             row == Prepared(throttle[s], now)
  <2>1. /\ attempt[a] \in InFlight /\ attempt[a].phase = "waiting" /\ s \in Sources
        /\ now \in Times /\ s \in ThrottleKeys /\ Scope(s) = "source"
    BY <1>6, LimitFacts DEF LockSource, ThrottleInv, NoAttempt, InFlight
  <2>2. RowExact(throttle[s], "source")
    BY <2>1 DEF ThrottleInv
  <2>3. \A b \in Attempts : ~HoldsKey(b, s)
    BY <1>6 DEF LockSource, RowLocked, HoldsKey
  <2>4. CASE IsLocked(row, now)
    <3>1. /\ attempt' = [attempt EXCEPT ![a] = NoAttempt]
          /\ throttle' = [throttle EXCEPT ![s] = row]
          /\ UNCHANGED <<clock, guesses>>
      BY <1>6, <2>4 DEF LockSource
    <3>2. RowExact(row, "source")
      BY <2>1, <2>2, PreparedExact
    <3> HIDE DEF row, s, now
    <3>3. /\ DOMAIN throttle' = ThrottleKeys /\ throttle'[s] = row
          /\ throttle' = [k \in ThrottleKeys |-> throttle'[k]]
          /\ \A k \in ThrottleKeys \ {s} : throttle'[k] = throttle[k]
      BY <2>1, <3>1 DEF ThrottleInv
    <3>4. {s} \in SUBSET ThrottleKeys /\ \A k \in {s} : RowExact(throttle'[k], Scope(k))
      BY <2>1, <3>2, <3>3
    <3>5. EndsWriting(a, {s})
      BY <2>3, <3>1, <3>3, <3>4 DEF ThrottleInv, EndsWriting
    <3>6. QED
      BY <3>4, <3>5, EndStep
  <2>5. CASE ~IsLocked(row, now)
    <3>1. /\ attempt' = [attempt EXCEPT ![a].phase = "source"]
          /\ UNCHANGED <<throttle, clock, guesses>>
      BY <1>6, <2>5 DEF LockSource
    <3>2. throttle[s].lockedUntil <= now
      BY <2>1, <2>2, <2>5, PreparedExact
    <3>3. /\ attempt' \in [Attempts -> {NoAttempt} \cup InFlight]
          /\ attempt'[a].phase = "source" /\ attempt'[a].source = s /\ attempt'[a].now = now
          /\ \A b \in Attempts \ {a} : attempt'[b] = attempt[b]
      BY <2>1, <3>1 DEF ThrottleInv, InFlight
    <3>4. /\ \A k \in ThrottleKeys : HoldsKey(a, k)' <=> k = s
          /\ \A b \in Attempts \ {a}, k \in ThrottleKeys : HoldsKey(b, k)' <=> HoldsKey(b, k)
      BY <3>3 DEF HoldsKey
    <3>5. (\A c, b \in Attempts, k \in ThrottleKeys : HoldsKey(c, k) /\ HoldsKey(b, k) => c = b)'
      BY <2>3, <3>4 DEF ThrottleInv
    <3>6. (\A b \in Attempts, k \in ThrottleKeys :
              HoldsKey(b, k) => throttle[k].lockedUntil <= attempt[b].now)'
      BY <2>3, <3>1, <3>2, <3>3, <3>4 DEF ThrottleInv
    <3>7. (\A k \in ThrottleKeys : RowExact(throttle[k], Scope(k)))'
      BY <3>1 DEF ThrottleInv, RowExact, Scope
    <3>8. QED
      BY <3>1, <3>3, <3>5, <3>6, <3>7 DEF ThrottleInv
  <2>6. QED
    BY <2>4, <2>5
<1>7. ASSUME NEW a \in Attempts, LockPrincipal(a) PROVE ThrottleInv'
  <2> DEFINE s == attempt[a].source
             p == attempt[a].principal
             now == attempt[a].now
             row == Prepared(throttle[p], now)
             srow == Prepared(throttle[s], now)
  <2>1. /\ attempt[a] \in InFlight /\ attempt[a].phase = "source"
        /\ s \in Sources /\ p \in Principals /\ now \in Times /\ s # p
        /\ s \in ThrottleKeys /\ Scope(s) = "source" /\ p \in ThrottleKeys /\ Scope(p) = "principal"
    BY <1>7, LimitFacts DEF LockPrincipal, ThrottleInv, NoAttempt, InFlight
  <2>2. RowExact(throttle[s], "source") /\ RowExact(throttle[p], "principal")
    BY <2>1 DEF ThrottleInv
  <2>3. /\ \A b \in Attempts : ~HoldsKey(b, p)
        /\ \A b \in Attempts \ {a} : ~HoldsKey(b, s)
    <3>1. \A b \in Attempts : ~HoldsKey(b, p)
      BY <1>7 DEF LockPrincipal, RowLocked, HoldsKey
    <3>2. HoldsKey(a, s)
      BY <2>1 DEF HoldsKey
    <3>3. QED
      BY <2>1, <3>1, <3>2 DEF ThrottleInv
  <2>4. CASE IsLocked(row, now)
    <3>1. /\ attempt' = [attempt EXCEPT ![a] = NoAttempt]
          /\ throttle' = [throttle EXCEPT ![s] = srow, ![p] = row]
          /\ UNCHANGED <<clock, guesses>>
      BY <1>7, <2>4 DEF LockPrincipal
    <3>2. RowExact(row, "principal") /\ RowExact(srow, "source")
      BY <2>1, <2>2, PreparedExact
    <3> HIDE DEF row, srow, s, p, now
    <3>3. /\ DOMAIN throttle' = ThrottleKeys /\ throttle'[s] = srow /\ throttle'[p] = row
          /\ throttle' = [k \in ThrottleKeys |-> throttle'[k]]
          /\ \A k \in ThrottleKeys \ {s, p} : throttle'[k] = throttle[k]
      BY <2>1, <3>1 DEF ThrottleInv
    <3>4. {s, p} \in SUBSET ThrottleKeys /\ \A k \in {s, p} : RowExact(throttle'[k], Scope(k))
      BY <2>1, <3>2, <3>3
    <3>5. EndsWriting(a, {s, p})
      BY <2>3, <3>1, <3>3, <3>4 DEF ThrottleInv, EndsWriting
    <3>6. QED
      BY <3>4, <3>5, EndStep
  <2>5. CASE ~IsLocked(row, now)
    <3>1. /\ attempt' = [attempt EXCEPT ![a].phase = "both"]
          /\ UNCHANGED <<throttle, clock, guesses>>
      BY <1>7, <2>5 DEF LockPrincipal
    <3>2. throttle[p].lockedUntil <= now /\ throttle[s].lockedUntil <= now
      <4>1. throttle[p].lockedUntil <= now
        BY <2>1, <2>2, <2>5, PreparedExact
      <4>2. QED
        BY <2>1, <4>1 DEF ThrottleInv, HoldsKey
    <3>3. /\ attempt' \in [Attempts -> {NoAttempt} \cup InFlight]
          /\ attempt'[a].phase = "both" /\ attempt'[a].source = s
          /\ attempt'[a].principal = p /\ attempt'[a].now = now
          /\ \A b \in Attempts \ {a} : attempt'[b] = attempt[b]
      BY <2>1, <3>1 DEF ThrottleInv, InFlight
    <3>4. /\ \A k \in ThrottleKeys : HoldsKey(a, k)' <=> k \in {s, p}
          /\ \A b \in Attempts \ {a}, k \in ThrottleKeys : HoldsKey(b, k)' <=> HoldsKey(b, k)
      BY <3>3 DEF HoldsKey
    <3>5. (\A c, b \in Attempts, k \in ThrottleKeys : HoldsKey(c, k) /\ HoldsKey(b, k) => c = b)'
      BY <2>3, <3>4 DEF ThrottleInv
    <3>6. (\A b \in Attempts, k \in ThrottleKeys :
              HoldsKey(b, k) => throttle[k].lockedUntil <= attempt[b].now)'
      BY <2>3, <3>1, <3>2, <3>3, <3>4 DEF ThrottleInv
    <3>7. (\A k \in ThrottleKeys : RowExact(throttle[k], Scope(k)))'
      BY <3>1 DEF ThrottleInv, RowExact, Scope
    <3>8. QED
      BY <3>1, <3>3, <3>5, <3>6, <3>7 DEF ThrottleInv
  <2>6. QED
    BY <2>4, <2>5
<1>8. ASSUME NEW a \in Attempts, FailLogin(a) \/ PassLogin(a) PROVE ThrottleInv'
  <2> DEFINE s == attempt[a].source
             p == attempt[a].principal
             now == attempt[a].now
             srow == Prepared(throttle[s], now)
             prow == Prepared(throttle[p], now)
  <2>1. /\ attempt[a] \in InFlight /\ attempt[a].phase = "both"
        /\ s \in Sources /\ p \in Principals /\ now \in Times /\ s # p
        /\ s \in ThrottleKeys /\ Scope(s) = "source" /\ p \in ThrottleKeys /\ Scope(p) = "principal"
    BY <1>8, LimitFacts DEF FailLogin, PassLogin, ThrottleInv, NoAttempt, InFlight
  <2>2. HoldsKey(a, s) /\ HoldsKey(a, p)
    BY <2>1 DEF HoldsKey
  <2>3. \A b \in Attempts \ {a} : ~HoldsKey(b, s) /\ ~HoldsKey(b, p)
    BY <2>1, <2>2 DEF ThrottleInv
  <2>4. /\ RowExact(throttle[s], "source") /\ throttle[s].lockedUntil <= now
        /\ RowExact(throttle[p], "principal") /\ throttle[p].lockedUntil <= now
    BY <2>1, <2>2 DEF ThrottleInv
  <2>5. /\ RowExact(srow, "source") /\ RowExact(prow, "principal")
        /\ srow.lockedUntil = NotLocked /\ srow.failures < Limit["source"]
        /\ prow.lockedUntil = NotLocked /\ prow.failures < Limit["principal"]
    BY <2>1, <2>4, PreparedExact
  <2>6. /\ attempt' = [attempt EXCEPT ![a] = NoAttempt] /\ UNCHANGED clock
        /\ guesses' \in [Principals -> Seq(Times)]
    <3>1. guesses \in [Principals -> Seq(Times)] /\ clock \in Times
      BY DEF ThrottleInv
    <3>2. CASE FailLogin(a)
      <4>1. guesses' = [guesses EXCEPT ![p] = Append(guesses[p], clock)]
        BY <3>1, <3>2, <2>1 DEF FailLogin
      <4>2. Append(guesses[p], clock) \in Seq(Times)
        BY <2>1, <3>1
      <4>3. QED
        BY <2>1, <3>1, <3>2, <4>1, <4>2 DEF FailLogin
    <3>3. CASE PassLogin(a)
      BY <2>1, <3>1, <3>3 DEF PassLogin
    <3>4. QED
      BY <1>8, <3>2, <3>3
  <2>7. PICK x, y : /\ throttle' = [throttle EXCEPT ![s] = x, ![p] = y]
                    /\ RowExact(x, "source") /\ RowExact(y, "principal")
    <3>1. CASE FailLogin(a)
      <4>1. throttle' = [throttle EXCEPT ![s] = WithFailure(srow, now, "source"),
                                         ![p] = WithFailure(prow, now, "principal")]
        BY <2>1, <3>1 DEF FailLogin, ThrottleInv
      <4>2. /\ RowExact(WithFailure(srow, now, "source"), "source")
            /\ RowExact(WithFailure(prow, now, "principal"), "principal")
        BY <2>1, <2>5, FailureExact
      <4>3. QED
        BY <4>1, <4>2
    <3>2. CASE PassLogin(a)
      <4>1. throttle' = [throttle EXCEPT ![s] = srow, ![p] = FreshRow(now)]
        BY <2>1, <3>2 DEF PassLogin, ThrottleInv
      <4>2. RowExact(FreshRow(now), "principal")
        BY <2>1, FreshRowExact
      <4>3. QED
        BY <2>5, <4>1, <4>2
    <3>3. QED
      BY <1>8, <3>1, <3>2
  <2> HIDE DEF srow, prow, s, p, now
  <2>8. /\ DOMAIN throttle' = ThrottleKeys /\ throttle'[s] = x /\ throttle'[p] = y
        /\ throttle' = [k \in ThrottleKeys |-> throttle'[k]]
        /\ \A k \in ThrottleKeys \ {s, p} : throttle'[k] = throttle[k]
    BY <2>1, <2>7 DEF ThrottleInv
  <2>9. {s, p} \in SUBSET ThrottleKeys /\ \A k \in {s, p} : RowExact(throttle'[k], Scope(k))
    BY <2>1, <2>7, <2>8
  <2>10. EndsWriting(a, {s, p})
    BY <2>3, <2>6, <2>8, <2>9 DEF EndsWriting
  <2>11. QED
    BY <2>9, <2>10, EndStep
<1>9. CASE UNCHANGED throttleVars
  BY <1>1, <1>9 DEF throttleVars, ThrottleInv
<1>10. QED
  BY <1>2, <1>3, <1>4, <1>6, <1>7, <1>8, <1>9 DEF ThrottleNext

--------------------------------------------------------------------------------
(* The guesses at a password *)

\* The m guesses g at a principal, in order, and its row, which counts the last n
\* of them.  The first of those was committed soon after the window started, the
\* one that reached the limit soon before the lockout began; and all but Limit - 2
\* of the guesses before the window came long before it.
GuessesFit(g, m, n, started, until, time) ==
    /\ n <= m /\ (n = 0 => m = 0)
    /\ \A i, j \in 1 .. m : i <= j => g[i] <= g[j]
    /\ \A i \in 1 .. m : g[i] \in Nat /\ g[i] <= time
    /\ n > 0 => g[m - n + 1] <= started + MaxWait
    /\ until # 0 => g[m] + Lockout <= until + MaxWait
    /\ n > 0 => \A i \in 1 .. m - n + 2 - Limit["principal"] :
                    g[i] + Span <= g[m - n + 1] + MaxWait
    /\ \A i \in 1 .. m - (2 * Limit["principal"] - 2) :
          g[i] + Span <= g[i + (2 * Limit["principal"] - 2)] + MaxWait

\* The same of a row of the table.
RowGuessed(row, g, time) ==
    g \in Seq(Times) /\ GuessesFit(g, Len(g), row.failures, row.started, row.lockedUntil, time)

\* One more guess in a window that goes on, or in a new one: what is needed is that
\* the window began long after all but Limit - 2 of the guesses before it.
LEMMA GuessCounted ==
    ASSUME NEW g, NEW h, NEW m \in Nat, NEW n \in Nat, NEW k \in Nat, NEW start, NEW end,
           NEW started \in Nat, NEW until \in Nat, NEW time \in Nat, NEW L \in Nat,
           L = Limit["principal"], L >= 2, MaxWait \in Nat, Span \in Nat, Lockout \in Nat,
           GuessesFit(g, m, n, started, until, time),
           h[m + 1] = time, \A i \in 1 .. m : h[i] = g[i],
           k \in 1 .. L, k <= m + 1,
           h[m - k + 2] <= start + MaxWait,
           end # 0 => time + Lockout <= end + MaxWait,
           \A i \in 1 .. m - k + 3 - L : h[i] + Span <= h[m - k + 2] + MaxWait
    PROVE  GuessesFit(h, m + 1, k, start, end, time)
<1>1. /\ \A i, j \in 1 .. m : i <= j => g[i] <= g[j]
      /\ \A i \in 1 .. m : g[i] \in Nat /\ g[i] <= time
      /\ \A i \in 1 .. m - (2 * L - 2) : g[i] + Span <= g[i + (2 * L - 2)] + MaxWait
  BY DEF GuessesFit
<1>2. \A i \in 1 .. m + 1 : i \in 1 .. m \/ i = m + 1
  OBVIOUS
<1>3. \A i \in 1 .. m + 1 : h[i] \in Nat /\ h[i] <= time
  BY <1>1, <1>2
<1>4. ASSUME NEW i \in 1 .. m + 1, NEW j \in 1 .. m + 1, i <= j
      PROVE  h[i] <= h[j]
  <2>1. CASE j = m + 1
    BY <1>3, <2>1
  <2>2. CASE j \in 1 .. m
    <3>1. i \in 1 .. m
      BY <1>4, <2>2
    <3>2. QED
      BY <1>1, <1>4, <2>2, <3>1
  <2>3. QED
    BY <1>2, <2>1, <2>2
<1>5. ASSUME NEW i \in 1 .. m + 1 - (2 * L - 2)
      PROVE  h[i] + Span <= h[i + (2 * L - 2)] + MaxWait
  <2>1. CASE i + (2 * L - 2) = m + 1
    <3>1. i \in 1 .. m - k + 3 - L /\ i \in 1 .. m + 1 /\ m - k + 2 \in 1 .. m + 1
      BY <2>1
    <3> DEFINE x == h[i]
               y == h[m - k + 2]
    <3>2. x + Span <= y + MaxWait /\ y <= time /\ y \in Nat /\ x \in Nat
      BY <1>3, <3>1
    <3> HIDE DEF x, y
    <3>3. x + Span <= time + MaxWait
      BY <3>2
    <3>4. QED
      BY <2>1, <3>3 DEF x
  <2>2. CASE i + (2 * L - 2) # m + 1
    <3>1. i \in 1 .. m - (2 * L - 2) /\ i \in 1 .. m /\ i + (2 * L - 2) \in 1 .. m
      BY <2>2
    <3>2. QED
      BY <1>1, <3>1
  <2>3. QED
    BY <2>1, <2>2
<1>6. m + 1 - k + 1 = m - k + 2 /\ m + 1 - k + 2 - L = m - k + 3 - L
  OBVIOUS
<1>7. QED
  BY <1>3, <1>4, <1>5, <1>6 DEF GuessesFit

\* One more guess at the time of its commit, which is not long after the time its
\* attempt judged the row by.
LEMMA GuessAdded ==
    ASSUME NEW row, RowExact(row, "principal"), NEW time \in Times, NEW now \in Times,
           now <= time, time <= now + MaxWait, row.lockedUntil <= now,
           NEW g, RowGuessed(row, g, time)
    PROVE  RowGuessed(WithFailure(Prepared(row, now), now, "principal"), Append(g, time), time)
<1> DEFINE L == Limit["principal"]
           n == row.failures
           m == Len(g)
           h == Append(g, time)
           new == WithFailure(Prepared(row, now), now, "principal")
           started == row.started
           until == row.lockedUntil
<1>1. /\ L \in Nat /\ L >= 2 /\ MaxWait \in Nat /\ Span \in Nat /\ Window \in Nat /\ Lockout \in Nat
      /\ Span <= Window /\ Span <= Lockout /\ Lockout >= 1
      /\ time \in Nat /\ now \in Nat /\ Times \subseteq Nat
  BY ThrottleAssumption DEF Span, Times
<1>2. row \in ThrottleRows /\ n <= L /\ (n = L <=> until # 0)
  BY DEF RowExact, NotLocked
<1>3. n \in Nat /\ started \in Nat /\ until \in Nat /\ until <= now
  <2>1. n \in Nat /\ started \in Times /\ until \in 0 .. MaxTime + Lockout
    BY <1>2 DEF ThrottleRows
  <2>2. until <= now /\ MaxTime \in Nat
    BY LimitFacts
  <2> HIDE DEF n, started, until
  <2>3. until \in Nat
    BY <1>1, <2>1, <2>2
  <2>4. QED
    BY <1>1, <2>1, <2>2, <2>3
<1>4. g \in Seq(Times) /\ GuessesFit(g, m, n, started, until, time)
  BY DEF RowGuessed
<1>5. /\ h \in Seq(Times) /\ Len(h) = m + 1 /\ h[m + 1] = time /\ m \in Nat
      /\ \A i \in 1 .. m : h[i] = g[i]
  BY <1>4
<1>6. /\ Expired(row, now) <=> (IF until # 0 THEN until <= now ELSE started + Window <= now)
      /\ Expired(row, now) => new.failures = 1 /\ new.started = now /\ new.lockedUntil = 0
      /\ ~Expired(row, now) =>
            /\ new.failures = n + 1
            /\ new.started = (IF n = 0 THEN now ELSE started)
            /\ new.lockedUntil = (IF n + 1 >= L THEN now + Lockout ELSE until)
  BY <1>1 DEF Expired, Prepared, FreshRow, WithFailure, NotLocked
<1>7. RowGuessed(new, h, time) <=>
         h \in Seq(Times) /\ GuessesFit(h, Len(h), new.failures, new.started, new.lockedUntil, time)
  BY DEF RowGuessed
<1> HIDE DEF L, n, m, h, new, started, until
<1>8. /\ n <= m /\ (n = 0 => m = 0)
      /\ \A i, j \in 1 .. m : i <= j => g[i] <= g[j]
      /\ \A i \in 1 .. m : g[i] \in Nat /\ g[i] <= time
      /\ n > 0 => g[m - n + 1] <= started + MaxWait
      /\ until # 0 => g[m] + Lockout <= until + MaxWait
      /\ n > 0 => \A i \in 1 .. m - n + 2 - L : g[i] + Span <= g[m - n + 1] + MaxWait
  BY <1>4 DEF GuessesFit, L
<1>9. CASE Expired(row, now)
  <2>1. ASSUME NEW i \in 1 .. m + 2 - L
        PROVE  h[i] + Span <= time + MaxWait
    <3>1. i \in 1 .. m
      BY <1>1, <1>5
    <3> DEFINE x == g[i]
    <3>2. CASE until # 0
      <4> DEFINE y == g[m]
      <4>1. x <= y /\ y + Lockout <= until + MaxWait /\ x \in Nat /\ y \in Nat /\ until <= now
        BY <1>5, <1>6, <1>8, <1>9, <3>1, <3>2
      <4> HIDE DEF x, y
      <4>2. x + Span <= time + MaxWait
        BY <1>1, <1>3, <4>1
      <4>3. QED
        BY <1>5, <3>1, <4>2 DEF x
    <3>3. CASE until = 0
      <4> DEFINE y == g[m - n + 1]
      <4>1. started + Window <= now /\ n < L
        BY <1>1, <1>2, <1>3, <1>6, <1>9, <3>3
      <4>2. n > 0 /\ m - n + 1 \in 1 .. m /\ i <= m - n + 1
        BY <1>1, <1>3, <1>5, <1>8, <3>1, <4>1
      <4>3. x <= y /\ y <= started + MaxWait /\ x \in Nat /\ y \in Nat
        BY <1>8, <3>1, <4>2
      <4> HIDE DEF x, y
      <4>4. x + Span <= time + MaxWait
        BY <1>1, <1>3, <4>1, <4>3
      <4>5. QED
        BY <1>5, <3>1, <4>4 DEF x
    <3>4. QED
      BY <3>2, <3>3
  <2>2. /\ m - 1 + 2 = m + 1 /\ m - 1 + 3 - L = m + 2 - L
        /\ 1 \in 1 .. L /\ 1 <= m + 1
    BY <1>1, <1>5
  <2>3. GuessesFit(h, m + 1, 1, now, 0, time)
    BY <1>1, <1>3, <1>4, <1>5, <2>1, <2>2, GuessCounted DEF L
  <2>4. QED
    BY <1>5, <1>6, <1>7, <1>9, <2>3 DEF h, new
<1>10. CASE ~Expired(row, now)
  <2> DEFINE k == n + 1
             first == m - k + 2
             start == IF n = 0 THEN now ELSE started
             end == IF n + 1 >= L THEN now + Lockout ELSE until
  <2>1. until = 0 /\ n < L
    BY <1>1, <1>2, <1>3, <1>6, <1>10
  <2>2. /\ k \in 1 .. L /\ k <= m + 1 /\ k \in Nat
        /\ first = m - n + 1
        /\ n > 0 => first \in 1 .. m
        /\ n = 0 => m = 0 /\ first = m + 1
    BY <1>1, <1>3, <1>5, <1>8, <2>1
  <2>3. h[first] <= start + MaxWait
    <3>1. CASE n = 0
      BY <1>5, <2>2, <3>1
    <3>2. CASE n > 0
      <4>1. h[first] = g[first] /\ g[first] <= started + MaxWait /\ start = started
        BY <1>5, <1>8, <2>2, <3>2
      <4>2. QED
        BY <4>1
    <3>3. QED
      BY <1>3, <3>1, <3>2
  <2>4. end # 0 => time + Lockout <= end + MaxWait
    BY <1>1, <2>1
  <2>5. ASSUME NEW i \in 1 .. m - k + 3 - L
        PROVE  h[i] + Span <= h[first] + MaxWait
    <3>1. n > 0 /\ i \in 1 .. m /\ i \in 1 .. m - n + 2 - L
      BY <1>1, <1>3, <1>5, <1>8, <2>2
    <3>2. h[i] = g[i] /\ h[first] = g[m - n + 1]
      BY <1>5, <2>2, <3>1
    <3>3. QED
      BY <1>8, <3>1, <3>2
  <2>6. new.failures = k /\ new.started = start /\ new.lockedUntil = end
    BY <1>6, <1>10
  <2>7. /\ h[m - k + 2] <= start + MaxWait
        /\ \A i \in 1 .. m - k + 3 - L : h[i] + Span <= h[m - k + 2] + MaxWait
    BY <2>3, <2>5
  <2>8. k \in Nat /\ k \in 1 .. L /\ k <= m + 1
    BY <2>2
  <2> HIDE DEF k, start, end, first
  <2>9. GuessesFit(h, m + 1, k, start, end, time)
    BY <1>1, <1>3, <1>4, <1>5, <2>4, <2>7, <2>8, GuessCounted DEF L
  <2>10. QED
    BY <1>5, <1>7, <2>6, <2>9 DEF h, new
<1>11. QED
  BY <1>9, <1>10

\* No attempt is older than a transaction may wait.
Punctual ==
    \A a \in Attempts : attempt[a].phase # "none" =>
        attempt[a].now <= clock /\ clock <= attempt[a].now + MaxWait

\* The inductive invariant of the throttle.
GuessInv ==
    /\ ThrottleInv /\ Punctual
    /\ \A p \in Principals : RowGuessed(throttle[p], guesses[p], clock)

\* Attempts stay punctual: time passes only while all of them may wait.
LEMMA PunctualStep == GuessInv /\ [ThrottleNext]_throttleVars => Punctual'
<1> SUFFICES ASSUME GuessInv, [ThrottleNext]_throttleVars PROVE Punctual'
  OBVIOUS
<1>1. /\ clock \in Nat /\ MaxWait \in Nat /\ attempt \in [Attempts -> {NoAttempt} \cup InFlight]
      /\ Punctual /\ NoAttempt.phase = "none"
  BY ThrottleAssumption DEF GuessInv, ThrottleInv, Times, NoAttempt
<1>2. \A a \in Attempts : attempt[a].phase # "none" => attempt[a].now \in Nat
  BY <1>1 DEF InFlight, NoAttempt, Times
<1>3. CASE Tick
  <2> SUFFICES ASSUME NEW a \in Attempts, attempt[a].phase # "none"
               PROVE  attempt[a].now <= clock + 1 /\ clock + 1 <= attempt[a].now + MaxWait
    BY <1>3 DEF Tick, Punctual
  <2> DEFINE t == attempt[a].now
  <2>1. t \in Nat /\ clock - t < MaxWait /\ t <= clock
    BY <1>1, <1>2, <1>3 DEF Tick, Punctual
  <2> HIDE DEF t
  <2>2. t <= clock + 1 /\ clock + 1 <= t + MaxWait
    BY <1>1, <2>1
  <2>3. QED
    BY <2>2 DEF t
<1>4. ASSUME NEW a \in Attempts, UNCHANGED clock, \A b \in Attempts \ {a} : attempt'[b] = attempt[b],
             \/ attempt'[a].phase = "none"
             \/ attempt'[a].now = clock
             \/ attempt[a].phase # "none" /\ attempt'[a].now = attempt[a].now
      PROVE  Punctual'
  BY <1>1, <1>4 DEF Punctual
<1>5. ASSUME NEW a \in Attempts, NEW s \in Sources, NEW p \in Principals, BeginAttempt(a, s, p)
      PROVE  Punctual'
  BY <1>1, <1>4, <1>5 DEF BeginAttempt
<1>6. ASSUME NEW a \in Attempts,
             \/ attempt' = [attempt EXCEPT ![a] = NoAttempt]
             \/ attempt[a].phase # "none" /\ \E ph : attempt' = [attempt EXCEPT ![a].phase = ph],
             UNCHANGED clock
      PROVE  Punctual'
  <2>1. CASE attempt' = [attempt EXCEPT ![a] = NoAttempt]
    BY <1>1, <1>4, <1>6, <2>1
  <2>2. CASE attempt[a].phase # "none" /\ \E ph : attempt' = [attempt EXCEPT ![a].phase = ph]
    <3>1. PICK ph : attempt' = [attempt EXCEPT ![a].phase = ph]
      BY <2>2
    <3>2. attempt[a] \in InFlight
      BY <1>1, <2>2
    <3>3. attempt'[a] = [attempt[a] EXCEPT !.phase = ph] /\ \A b \in Attempts \ {a} : attempt'[b] = attempt[b]
      BY <1>1, <3>1
    <3>4. attempt'[a].now = attempt[a].now
      BY <3>2, <3>3 DEF InFlight
    <3>5. QED
      BY <1>4, <1>6, <2>2, <3>3, <3>4
  <2>3. QED
    BY <1>6, <2>1, <2>2
<1>7. ASSUME NEW a \in Attempts, LockSource(a) PROVE Punctual'
  BY <1>6, <1>7 DEF LockSource
<1>8. ASSUME NEW a \in Attempts, LockPrincipal(a) PROVE Punctual'
  BY <1>6, <1>8 DEF LockPrincipal
<1>9. ASSUME NEW a \in Attempts, FailLogin(a) \/ PassLogin(a) \/ AbortAttempt(a) PROVE Punctual'
  BY <1>6, <1>9 DEF FailLogin, PassLogin, AbortAttempt
<1>10. CASE UNCHANGED throttleVars
  BY <1>1, <1>10 DEF throttleVars, Punctual
<1>11. QED
  BY <1>3, <1>5, <1>7, <1>8, <1>9, <1>10 DEF ThrottleNext

\* Guesses seen later fit as well.
LEMMA GuessesLater ==
    ASSUME NEW row, NEW g, NEW t \in Nat, NEW u \in Nat, t <= u, RowGuessed(row, g, t)
    PROVE  RowGuessed(row, g, u)
BY DEF RowGuessed, GuessesFit

\* Nothing was guessed of a fresh row.
LEMMA NothingGuessed ==
    ASSUME NEW now, NEW time
    PROVE  RowGuessed(FreshRow(now), <<>>, time)
<1>1. <<>> \in Seq(Times) /\ Len(<<>>) = 0
  OBVIOUS
<1>2. /\ FreshRow(now).failures = 0 /\ FreshRow(now).started = now
      /\ FreshRow(now).lockedUntil = 0
  BY DEF FreshRow, NotLocked
<1>3. GuessesFit(<<>>, 0, 0, now, 0, time)
  <2>1. Limit["principal"] \in Nat /\ Limit["principal"] >= 2
    BY LimitFacts
  <2>2. QED
    BY <2>1 DEF GuessesFit
<1>4. QED
  BY <1>1, <1>2, <1>3 DEF RowGuessed

\* Every step keeps the guesses fitting their rows: only a failure and a success
\* touch them.
LEMMA GuessStep == GuessInv /\ [ThrottleNext]_throttleVars => GuessInv'
<1> SUFFICES ASSUME GuessInv, [ThrottleNext]_throttleVars PROVE GuessInv'
  OBVIOUS
<1> DEFINE Fit == \A p \in Principals : RowGuessed(throttle[p], guesses[p], clock)
<1>1. /\ ThrottleInv /\ Punctual /\ clock \in Nat /\ clock \in Times
      /\ attempt \in [Attempts -> {NoAttempt} \cup InFlight]
      /\ guesses \in [Principals -> Seq(Times)] /\ DOMAIN throttle = ThrottleKeys
      /\ throttle = [k \in ThrottleKeys |-> throttle[k]]
      /\ \A k \in ThrottleKeys : RowExact(throttle[k], Scope(k))
      /\ \A p \in Principals : p \in ThrottleKeys /\ p \notin Sources /\ Scope(p) = "principal"
      /\ Fit
  <2>1. ThrottleInv /\ Punctual /\ Fit
    BY DEF GuessInv
  <2>2. clock \in Times /\ clock \in Nat
    BY <2>1 DEF ThrottleInv, Times
  <2>3. QED
    BY <2>1, <2>2, LimitFacts, Zenon DEF ThrottleInv
<1>2. ThrottleInv' /\ Punctual'
  BY <1>1, ThrottleStep, PunctualStep
<1>3. ASSUME UNCHANGED guesses, clock' \in Nat, clock <= clock',
             \A p \in Principals : throttle'[p] = throttle[p]
      PROVE  Fit'
  BY <1>1, <1>3, GuessesLater
<1>4. ASSUME Tick PROVE Fit'
  <2>1. clock' = clock + 1 /\ UNCHANGED <<throttle, guesses>>
    BY <1>4 DEF Tick
  <2>2. clock' \in Nat /\ clock <= clock'
    BY <1>1, <2>1
  <2>3. QED
    BY <1>3, <2>1, <2>2
<1>5. ASSUME NEW a \in Attempts, AbortAttempt(a) \/ \E s \in Sources, p \in Principals : BeginAttempt(a, s, p)
      PROVE  Fit'
  BY <1>1, <1>3, <1>5 DEF AbortAttempt, BeginAttempt
<1>6. ASSUME NEW a \in Attempts, LockSource(a)
      PROVE  Fit'
  <2>1. attempt[a] \in InFlight /\ attempt[a].source \in Sources
    BY <1>1, <1>6 DEF LockSource, NoAttempt, InFlight
  <2>2. \A p \in Principals : throttle'[p] = throttle[p]
    BY <1>1, <1>6, <2>1 DEF LockSource
  <2>3. QED
    BY <1>1, <1>3, <1>6, <2>2 DEF LockSource
<1>7. ASSUME NEW a \in Attempts, LockPrincipal(a)
      PROVE  Fit'
  <2> DEFINE s == attempt[a].source
             q == attempt[a].principal
             now == attempt[a].now
             row == Prepared(throttle[q], now)
  <2>1. attempt[a] \in InFlight /\ s \in Sources /\ q \in Principals
    BY <1>1, <1>7 DEF LockPrincipal, NoAttempt, InFlight
  <2>2. \A p \in Principals : throttle'[p] = throttle[p]
    <3>1. CASE IsLocked(row, now)
      <4>1. row = throttle[q]
        BY <3>1 DEF Prepared, IsLocked, FreshRow
      <4>2. throttle' = [throttle EXCEPT ![s] = Prepared(throttle[s], now), ![q] = row]
        BY <1>1, <1>7, <2>1, <3>1 DEF LockPrincipal
      <4> HIDE DEF s, q, now, row
      <4>3. QED
        BY <1>1, <2>1, <4>1, <4>2
    <3>2. CASE ~IsLocked(row, now)
      BY <1>7, <3>2 DEF LockPrincipal
    <3>3. QED
      BY <3>1, <3>2
  <2>3. QED
    BY <1>1, <1>3, <1>7, <2>2 DEF LockPrincipal
<1>8. ASSUME NEW a \in Attempts, FailLogin(a) \/ PassLogin(a)
      PROVE  Fit'
  <2> DEFINE s == attempt[a].source
             q == attempt[a].principal
             now == attempt[a].now
             srow == throttle'[s]
  <2>1. /\ attempt[a] \in InFlight /\ s \in Sources /\ q \in Principals
        /\ now \in Times /\ attempt[a].phase = "both" /\ clock' = clock
    BY <1>1, <1>8 DEF FailLogin, PassLogin, NoAttempt, InFlight
  <2>2. now <= clock /\ clock <= now + MaxWait /\ throttle[q].lockedUntil <= now
    BY <1>1, <2>1 DEF Punctual, ThrottleInv, HoldsKey
  <2>3. RowGuessed(throttle'[q], guesses'[q], clock)
    <3>1. CASE FailLogin(a)
      <4>1. /\ guesses'[q] = Append(guesses[q], clock)
            /\ throttle'[q] = WithFailure(Prepared(throttle[q], now), now, "principal")
        BY <1>1, <2>1, <3>1 DEF FailLogin
      <4>2. RowExact(throttle[q], "principal") /\ RowGuessed(throttle[q], guesses[q], clock)
        BY <1>1, <2>1
      <4>3. QED
        BY <1>1, <2>1, <2>2, <4>1, <4>2, GuessAdded
    <3>2. CASE PassLogin(a)
      <4>1. guesses'[q] = <<>> /\ throttle'[q] = FreshRow(now)
        BY <1>1, <2>1, <3>2 DEF PassLogin
      <4>2. QED
        BY <4>1, NothingGuessed
    <3>3. QED
      BY <1>8, <3>1, <3>2
  <2>4. ASSUME NEW p \in Principals, p # q
        PROVE  throttle'[p] = throttle[p] /\ guesses'[p] = guesses[p]
    <3>1. p # s
      BY <1>1, <2>1
    <3>2. CASE FailLogin(a)
      BY <1>1, <2>1, <2>4, <3>1, <3>2 DEF FailLogin
    <3>3. CASE PassLogin(a)
      BY <1>1, <2>1, <2>4, <3>1, <3>3 DEF PassLogin
    <3>4. QED
      BY <1>8, <3>2, <3>3
  <2> HIDE DEF q
  <2>5. \A p \in Principals : RowGuessed(throttle'[p], guesses'[p], clock')
    BY <1>1, <2>1, <2>3, <2>4
  <2>6. QED
    BY <2>5 DEF RowGuessed, GuessesFit, Span
<1>9. ASSUME UNCHANGED throttleVars PROVE Fit'
  BY <1>1, <1>3, <1>9 DEF throttleVars
<1>10. Fit'
  BY <1>4, <1>5, <1>6, <1>7, <1>8, <1>9 DEF ThrottleNext
<1>11. QED
  BY <1>2, <1>10 DEF GuessInv

\* A row of the throttle never passes its limit, and is in a lockout exactly
\* from the failure that reached it to the attempt that finds it expired; and
\* the guesses at a password are bounded in every span, although attempts judge
\* rows by times older than the clock.
THEOREM ThrottleCorrect == ThrottleSpec => []ThrottleSound
<1>1. ThrottleInit => GuessInv
  <2> SUFFICES ASSUME ThrottleInit PROVE GuessInv
    OBVIOUS
  <2>1. 0 \in Times /\ \A k \in ThrottleKeys : Scope(k) \in {"source", "principal"}
    BY LimitFacts DEF Times, Scope
  <2>2. \A k \in ThrottleKeys : RowExact(throttle[k], Scope(k))
    BY <2>1, FreshRowExact DEF ThrottleInit
  <2>3. ThrottleInv
    BY <2>1, <2>2 DEF ThrottleInit, ThrottleInv, HoldsKey, NoAttempt
  <2>4. Punctual
    BY DEF ThrottleInit, Punctual, NoAttempt
  <2>5. \A p \in Principals : RowGuessed(throttle[p], guesses[p], clock)
    BY LimitFacts, NothingGuessed DEF ThrottleInit
  <2>6. QED
    BY <2>3, <2>4, <2>5 DEF GuessInv
<1>2. ThrottleInv => ThrottleTypeOK /\ FullRowsAreLocked
  <2> SUFFICES ASSUME ThrottleInv PROVE ThrottleTypeOK /\ FullRowsAreLocked
    OBVIOUS
  <2>1. \A k \in ThrottleKeys : Limit[Scope(k)] \in Nat
    BY LimitFacts DEF Scope
  <2>2. \A k \in ThrottleKeys : /\ throttle[k].failures \in 0 .. Limit[Scope(k)]
                                /\ throttle[k].started \in Times
                                /\ throttle[k].lockedUntil \in 0 .. MaxTime + Lockout
    BY <2>1 DEF ThrottleInv, RowExact, ThrottleRows
  <2>3. \A a \in Attempts : attempt[a].phase \in {"none", "waiting", "source", "both"}
    BY DEF ThrottleInv, NoAttempt, InFlight
  <2>4. QED
    BY <2>2, <2>3 DEF ThrottleInv, ThrottleTypeOK, FullRowsAreLocked, RowExact
<1>3. GuessInv => ThrottleSound
  <2> SUFFICES ASSUME GuessInv PROVE GuessesBounded
    BY <1>2 DEF GuessInv, ThrottleSound
  <2> SUFFICES ASSUME NEW p \in Principals,
                      NEW i \in 1 .. Len(guesses[p]) - (2 * Limit["principal"] - 2)
               PROVE  guesses[p][i] + Span <= guesses[p][i + (2 * Limit["principal"] - 2)] + MaxWait
    BY DEF GuessesBounded
  <2>1. RowGuessed(throttle[p], guesses[p], clock)
    BY DEF GuessInv
  <2>2. QED
    BY <2>1 DEF RowGuessed, GuessesFit
<1>4. QED
  BY <1>1, <1>3, GuessStep, PTL DEF ThrottleSpec

================================================================================
