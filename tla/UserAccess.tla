----------------------------- MODULE UserAccess -----------------------------
(***************************************************************************)
(* Browser users of one installation: bootstrap of the first owner, login, *)
(* the user-management routes, the account holder's own profile and        *)
(* password routes, and the sessions they revoke.  (routes/users.py,       *)
(* routes/auth.py, security/auth.py)                                       *)
(*                                                                         *)
(* A request is authenticated in a transaction of its own (current_user    *)
(* commits), so the permissions it carries are a snapshot; the route then  *)
(* takes the row lock of its target, perhaps the lock of the home, and     *)
(* commits.  Logins hold the row lock of their user.  change_password      *)
(* takes no row lock: its session UPDATE runs first, its user UPDATE only  *)
(* with the commit (autoflush is off).                                     *)
(*                                                                         *)
(* Abstractions: one home (only the bootstrap creates one); one role per   *)
(* user; password and email together are a credential number; MFA and      *)
(* login throttling are left out (the latter is module LoginThrottle).     *)
(***************************************************************************)
EXTENDS Naturals, FiniteSets

CONSTANTS
    Users,              \* accounts that may come to exist
    AdminRequests,           \* API requests that may be in flight together
    Updates,            \* the PATCH payloads a manager may send
    CustomPermissions,  \* what the one custom role grants
    MaxCredential       \* bound: credential changes of one account

VARIABLES
    account,   \* the users row, with its role
    sessions,  \* the unrevoked, unexpired sessions of each user
    request,   \* the requests in flight
    login      \* users whose row a verified, uncommitted login holds

accessVars == <<account, sessions, request, login>>

Credentials == 0 .. MaxCredential
AllPermissions == {"view", "manage", "other"}
Roles == {"Owner", "Custom", "Viewer"}

\* ROLE_PERMISSION_MAP and the permissions of the custom role.
RolePermissions(role) ==
    CASE role = "Owner"  -> AllPermissions
      [] role = "Custom" -> CustomPermissions
      [] role = "Viewer" -> {"view"}
      [] OTHER           -> {}

NoAccount == [role |-> "none", enabled |-> FALSE, deleted |-> FALSE, credential |-> 0]
NewAccount(role) == [role |-> role, enabled |-> TRUE, deleted |-> FALSE, credential |-> 0]

\* A PATCH payload: "keep" is a field that is absent.
Update == [kind : {"update"}, role : Roles \cup {"keep"},
           enabled : {"keep", "yes", "no"}, email : BOOLEAN]
Plain(kind) == [kind |-> kind, role |-> "keep", enabled |-> "keep", email |-> FALSE]
soft_delete_user == Plain("delete")
restore_user == Plain("restore")
reset_password == Plain("reset")
update_profile == Plain("profile")   \* with a new email
Operations == Updates \cup {soft_delete_user, restore_user, reset_password, update_profile}

ASSUME AccessAssumption ==
    /\ Updates \subseteq Update
    /\ CustomPermissions \subseteq AllPermissions
    /\ MaxCredential \in Nat

NoRequest == [phase |-> "none"]
RequestPhases == {"none", "authenticated", "target", "decided", "changing"}

\* A session remembers the credential it was opened with and whether its
\* login overlapped a change_password of the same user.
Session == [credential : Credentials, overlapped : BOOLEAN]

ActiveUser(u) == account[u].role # "none" /\ account[u].enabled /\ ~account[u].deleted
ActiveOwners == {u \in Users : ActiveUser(u) /\ account[u].role = "Owner"}

Changing(u) == {r \in AdminRequests : request[r].phase = "changing" /\ request[r].actor = u}

\* Session rows a change_password has updated and not committed yet.
Revoking(u) == UNION {request[r].revoking : r \in Changing(u)}

\* The users row of u is held FOR UPDATE until some transaction ends.
RowHeld(u) == \/ u \in login
              \/ \E r \in AdminRequests : /\ request[r].phase \in {"target", "decided"}
                                     /\ request[r].target = u

\* Mutant: owners are counted without the lock of the home.
HomeNeverHeld == FALSE

\* The home row is held by a request that passed _protect_home_owners.
HomeHeld == \E r \in AdminRequests : request[r].phase = "decided" /\ request[r].home

AccessInit ==
    /\ account = [u \in Users |-> NoAccount]
    /\ sessions = [u \in Users |-> {}]
    /\ request = [r \in AdminRequests |-> NoRequest]
    /\ login = {}

\* The advisory lock makes the count and the inserts one step.
bootstrap_owner(u) ==
    /\ \A v \in Users : account[v].role = "none"
    /\ account' = [account EXCEPT ![u] = NewAccount("Owner")]
    /\ sessions' = [sessions EXCEPT ![u] = {[credential |-> 0, overlapped |-> FALSE]}]
    /\ UNCHANGED <<request, login>>

\* verify_login of the right credential; the row stays locked to the commit.
verify_login(u) ==
    /\ ActiveUser(u)
    /\ ~RowHeld(u)
    /\ login' = login \cup {u}
    /\ UNCHANGED <<account, sessions, request>>

LoginOverlaps(u) == Changing(u) # {}

CommitLogin(u) ==
    /\ u \in login
    /\ login' = login \ {u}
    /\ sessions' = [sessions EXCEPT ![u] = @ \cup
            {[credential |-> account[u].credential, overlapped |-> LoginOverlaps(u)]}]
    /\ UNCHANGED <<account, request>>

AbortLogin(u) ==
    /\ u \in login
    /\ login' = login \ {u}
    /\ UNCHANGED <<account, sessions, request>>

\* Logout, revoking one session, the absolute and the idle limit.
revoke_session(u, s) ==
    /\ s \in sessions[u] \ Revoking(u)
    /\ sessions' = [sessions EXCEPT ![u] = @ \ {s}]
    /\ UNCHANGED <<account, request, login>>

\* The touch of the session row waits for a transaction that updated it.
current_user(r, a) ==
    /\ request[r].phase = "none"
    /\ sessions[a] \ Revoking(a) # {}
    /\ ActiveUser(a)
    /\ request' = [request EXCEPT ![r] =
            [phase |-> "authenticated", actor |-> a,
             permissions |-> RolePermissions(account[a].role)]]
    /\ UNCHANGED <<account, sessions, login>>

Manages(r) == "manage" \in request[r].permissions

\* _role_ids: nobody grants what they do not have.
Grantable(r, role) == RolePermissions(role) \subseteq request[r].permissions

create_user(r, u, role) ==
    /\ request[r].phase = "authenticated"
    /\ Manages(r)
    /\ Grantable(r, role)
    /\ account[u].role = "none"
    /\ account' = [account EXCEPT ![u] = NewAccount(role)]
    /\ request' = [request EXCEPT ![r] = NoRequest]
    /\ UNCHANGED <<sessions, login>>

\* The profile route is for the actor's own row, the others for a row whose
\* permissions the actor has too.
MayMutate(r, t, op) ==
    IF op.kind = "profile" THEN t = request[r].actor
    ELSE /\ Manages(r)
         /\ RolePermissions(account[t].role) \subseteq request[r].permissions
         /\ op.role # "keep" => Grantable(r, op.role)

\* The changes that may leave the home without an enabled owner.
TakesOwner(t, op) ==
    /\ account[t].role = "Owner"
    /\ \/ op.kind = "delete"
       \/ op.role \notin {"keep", "Owner"}
       \/ op.enabled = "no"

\* _scoped_mutation_target: the target row is locked and checked.
LockTarget(r, t, op) ==
    /\ request[r].phase = "authenticated"
    /\ account[t].role # "none"
    /\ ~RowHeld(t)
    /\ MayMutate(r, t, op)
    /\ request' = [request EXCEPT ![r] =
            [phase |-> IF TakesOwner(t, op) THEN "target" ELSE "decided",
             target |-> t, op |-> op, home |-> FALSE]]
    /\ UNCHANGED <<account, sessions, login>>

\* _protect_home_owners waits for the home row and counts under its lock.
ProtectHomeOwners(r) ==
    /\ request[r].phase = "target"
    /\ ~HomeHeld
    /\ request' = [request EXCEPT ![r] =
            IF Cardinality(ActiveOwners) <= 1 THEN NoRequest
            ELSE [@ EXCEPT !.phase = "decided", !.home = TRUE]]
    /\ UNCHANGED <<account, sessions, login>>

Renews(op) == op.kind \in {"reset", "profile"} \/ op.email

\* The row a committed operation leaves.
Applied(row, op) ==
    [role       |-> IF op.role = "keep" THEN row.role ELSE op.role,
     enabled    |-> CASE op.kind = "delete" \/ op.enabled = "no" -> FALSE
                      [] op.kind = "restore" \/ op.enabled = "yes" -> TRUE
                      [] OTHER -> row.enabled,
     deleted    |-> CASE op.kind = "delete" -> TRUE
                      [] op.kind = "restore" -> FALSE
                      [] OTHER -> row.deleted,
     credential |-> IF Renews(op) THEN row.credential + 1 ELSE row.credential]

RevokesSessions(op) == op.kind = "delete" \/ op.enabled = "no" \/ Renews(op)

\* The route's updates and its commit; the session UPDATE waits for rows a
\* change_password holds.
CommitMutation(r) ==
    LET t == request[r].target
        op == request[r].op
    IN  /\ request[r].phase = "decided"
        /\ Renews(op) => account[t].credential < MaxCredential
        /\ RevokesSessions(op) => Revoking(t) \cap sessions[t] = {}
        /\ account' = [account EXCEPT ![t] = Applied(@, op)]
        /\ sessions' = [sessions EXCEPT ![t] = IF RevokesSessions(op) THEN {} ELSE @]
        /\ request' = [request EXCEPT ![r] = NoRequest]
        /\ UNCHANGED login

\* change_password up to its session UPDATE, which sees committed rows.
BeginChange(r) ==
    LET u == request[r].actor
    IN  /\ request[r].phase = "authenticated"
        /\ Revoking(u) \cap sessions[u] = {}
        /\ request' = [request EXCEPT ![r] =
                [phase |-> "changing", actor |-> u, revoking |-> sessions[u]]]
        /\ UNCHANGED <<account, sessions, login>>

\* The user UPDATE of the commit waits for the row lock.
CommitChange(r) ==
    LET u == request[r].actor
    IN  /\ request[r].phase = "changing"
        /\ ~RowHeld(u)
        /\ account[u].credential < MaxCredential
        /\ account' = [account EXCEPT ![u].credential = @ + 1]
        /\ sessions' = [sessions EXCEPT ![u] = @ \ request[r].revoking]
        /\ request' = [request EXCEPT ![r] = NoRequest]
        /\ UNCHANGED login

\* A refused request, a lost connection, or the victim of a database deadlock.
Abort(r) ==
    /\ request[r].phase # "none"
    /\ request' = [request EXCEPT ![r] = NoRequest]
    /\ UNCHANGED <<account, sessions, login>>

AccessNext ==
    \/ \E u \in Users : \/ bootstrap_owner(u)
                        \/ verify_login(u)
                        \/ CommitLogin(u)
                        \/ AbortLogin(u)
                        \/ \E s \in sessions[u] : revoke_session(u, s)
    \/ \E r \in AdminRequests :
          \/ \E a \in Users : current_user(r, a)
          \/ \E u \in Users, role \in Roles : create_user(r, u, role)
          \/ \E t \in Users, op \in Operations : LockTarget(r, t, op)
          \/ ProtectHomeOwners(r)
          \/ CommitMutation(r)
          \/ BeginChange(r)
          \/ CommitChange(r)
          \/ Abort(r)

AccessSpec == AccessInit /\ [][AccessNext]_accessVars

-----------------------------------------------------------------------------
AccessTypeOK ==
    /\ account \in [Users -> [role : Roles \cup {"none"}, enabled : BOOLEAN,
                              deleted : BOOLEAN, credential : Credentials]]
    /\ sessions \in [Users -> SUBSET Session]
    /\ \A r \in AdminRequests : request[r].phase \in RequestPhases
    /\ login \subseteq Users

\* "The last enabled owner cannot be disabled, demoted, or removed", however
\* the requests that try it overlap: from the bootstrap on, an enabled owner
\* exists.  (_protect_home_owners)
HomeKeepsOwner ==
    (\E u \in Users : account[u].role # "none") => ActiveOwners # {}

\* An open session belongs to an enabled account and was opened with its
\* present credential, whatever disable, delete, reset, profile and password
\* change overlapped its login.  The one exception the code leaves is a
\* session whose login overlapped a change_password, which takes no row lock.
SessionsMatchCredentials ==
    \A u \in Users : \A s \in sessions[u] :
        /\ ActiveUser(u)
        /\ s.credential = account[u].credential \/ s.overlapped

\* Overlapping user administration leaves the home an owner and no session that
\* outlives its account or its password.
AccessSound ==
    /\ AccessTypeOK
    /\ HomeKeepsOwner
    /\ SessionsMatchCredentials
=============================================================================
