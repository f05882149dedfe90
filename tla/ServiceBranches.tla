--------------------------- MODULE ServiceBranches ---------------------------
(***************************************************************************)
(* Which sensors the bill of one home is summed from: service branches     *)
(* (circuits), the home-total branch that is the billing source, the       *)
(* measurement scope of each sensor and the cost scope of the account.     *)
(* (routes/settings.py)                                                    *)
(*                                                                         *)
(* Every route is one READ COMMITTED transaction.  It locks some rows FOR  *)
(* UPDATE, reads others without a lock, and writes at its commit; a        *)
(* request of the model is such a transaction between its statements.      *)
(*                                                                         *)
(* Abstractions: names and texts are left out; is_home_total,              *)
(* is_billing_source and purpose are set together and are one value; every *)
(* route creates its branch as a confirmed verified_sum; the allocated     *)
(* scope is left out (it takes the paths of the full one).                 *)
(***************************************************************************)
EXTENDS Naturals, FiniteSets

CONSTANTS
    Devices,    \* the sensors enrolled in the home
    Branches,   \* service branches that may come to exist
    Editors,    \* settings requests that may be in flight together
    MaxEdits    \* bound: settings requests


VARIABLES
    branch,     \* "none", "section" or "total": the circuits rows
    member,     \* the devices rows
    costScope,  \* the cost scope of the utility account
    edit,       \* the transactions in flight
    edits       \* how many requests there have been

branchVars == <<branch, member, costScope, edit, edits>>

Scopes == {"energy_only", "full_account"}
NoBranch == "unassigned"

ASSUME BranchesAssumption == MaxEdits \in Nat /\ NoBranch \notin Branches \cup Devices

NoEdit == [phase |-> "none"]

Enrolled == [circuit |-> NoBranch, included |-> TRUE, scope |-> "energy_only", revoked |-> FALSE]

BranchesInit ==
    /\ branch = [b \in Branches |-> "none"]
    /\ member = [d \in Devices |-> Enrolled]
    /\ costScope = "energy_only"
    /\ edit = [e \in Editors |-> NoEdit]
    /\ edits = 0

Editing(e) == edit[e].phase # "none"
Others(e) == {f \in Editors \ {e} : Editing(f)}

\* Row locks another transaction holds.
BranchFree(e, b) == \A f \in Others(e) : b \notin edit[f].branches
SensorsFree(e, ds) == \A f \in Others(e) : edit[f].sensors \cap ds = {}
AccountFree(e) == \A f \in Others(e) : ~edit[f].account

Active == {d \in Devices : ~member[d].revoked}

\* The members a branch lists, and the bill is summed from.
Members(b) == {d \in Devices : member[d].circuit = b /\ member[d].included}
Assigned(b) == {d \in Devices : member[d].circuit = b}

\* A transaction: what it was asked to do, the rows it holds, and what it has
\* read.  sources: the branches its sensors come from, found unprotected;
\* listed: the members its branch had when it was read; dropped: the sensors it
\* takes out of its branch; promoted, demoted: those whose scope it writes.
Edit == [phase : {"locked", "ready", "selecting", "selected", "scope", "checked", "account"},
         target : Branches \cup {NoBranch}, ids : SUBSET Devices, moves : BOOLEAN,
         includes : BOOLEAN, select : BOOLEAN,
         branches : SUBSET Branches, sensors : SUBSET Devices, account : BOOLEAN,
         sources : SUBSET Branches, listed : SUBSET Devices, dropped : SUBSET Devices,
         promoted : SUBSET Devices, demoted : SUBSET Devices, scope : Scopes, cost : Scopes]

Blank == [phase |-> "locked", target |-> NoBranch, ids |-> {}, moves |-> FALSE,
          includes |-> TRUE, select |-> FALSE, branches |-> {},
          sensors |-> {}, account |-> FALSE, sources |-> {}, listed |-> {}, dropped |-> {},
          promoted |-> {}, demoted |-> {}, scope |-> "energy_only", cost |-> "energy_only"]

Put(e, t) == edit' = [edit EXCEPT ![e] = t] /\ UNCHANGED edits

Arrives == edits < MaxEdits /\ edits' = edits + 1
Begin(e, t) == edit[e] = NoEdit /\ edit' = [edit EXCEPT ![e] = t] /\ Arrives

-----------------------------------------------------------------------------
(* create_service_branch and create_verified_aggregate: the sensors are    *)
(* locked, must be active and belong to no branch.                         *)

CreateBranch(e, b, ds, total, aggregate) ==
    /\ branch[b] = "none" /\ BranchFree(e, b)
    /\ ds # {} /\ (aggregate => Cardinality(ds) >= 2 /\ ~total)
    /\ SensorsFree(e, ds)
    /\ \A d \in ds : ~member[d].revoked /\ member[d].circuit = NoBranch
    /\ Begin(e, [Blank EXCEPT !.phase = "ready", !.target = b, !.ids = ds, !.moves = TRUE,
                            !.includes = ~aggregate, !.select = total,
                            !.branches = {b}, !.sensors = ds])
    /\ UNCHANGED <<branch, member, costScope>>

\* update_service_branch locks its branch and lists its members; while it is
\* the home total, no listed member may be dropped.
BeginUpdate(e, b, ds, moves, total) ==
    /\ branch[b] # "none" /\ BranchFree(e, b)
    /\ ~moves => ds = {} /\ total
    /\ (moves /\ branch[b] = "total") => Members(b) \subseteq ds
    /\ Begin(e, [Blank EXCEPT !.phase = IF moves THEN "locked" ELSE "ready", !.target = b,
                            !.ids = ds, !.moves = moves, !.select = total \/ branch[b] = "total",
                            !.branches = {b}, !.listed = Members(b)])
    /\ UNCHANGED <<branch, member, costScope>>

\* Mutant: a member of the home total may be moved to another branch.
AnySource(b) == TRUE

\* The unlocked read of _branch_devices: a source that is not the home total.
Unprotected(b) == branch[b] # "total"

\* _branch_devices and the lock of the existing members, taken together.
LockMembers(e) ==
    LET t == edit[e]
        sources == {member[d].circuit : d \in t.ids} \ {t.target, NoBranch}
    IN  /\ t.phase = "locked"
        /\ SensorsFree(e, t.ids \cup Assigned(t.target))
        /\ t.ids \subseteq Active
        /\ \A b \in sources : Unprotected(b)
        /\ Put(e, [t EXCEPT !.phase = "ready", !.sensors = t.ids \cup Assigned(t.target),
                            !.dropped = Assigned(t.target) \ t.ids,
                            !.sources = {b \in sources : branch[b] # "total"}])
        /\ UNCHANGED <<branch, member, costScope>>

\* Membership as the transaction sees it, its own moves included.
Placed(t) ==
    [d \in Devices |->
        IF t.moves /\ d \in t.ids
          THEN [member[d] EXCEPT !.circuit = t.target, !.included = t.includes \/ @]
        ELSE IF d \in t.dropped
          THEN [member[d] EXCEPT !.circuit = NoBranch, !.included = FALSE]
        ELSE member[d]]

EnoughMembers(ds) == Cardinality(ds) >= 2

\* _select_home_total: the active members are counted without a lock, the
\* previous home total is locked and its members demoted (flushed).  The
\* promotions are written with the commit.
SelectHomeTotal(e) ==
    LET t == edit[e]
        seen == Placed(t)
        members == {d \in Active : seen[d].circuit = t.target /\ seen[d].included}
        previous == {b \in Branches \ {t.target} : branch[b] = "total"}
        demoted == {d \in Devices : seen[d].circuit \in previous /\ seen[d].scope # "energy_only"}
    IN  /\ t.phase = "ready" /\ t.select
        /\ EnoughMembers(members)
        /\ \A b \in previous : BranchFree(e, b)
        /\ SensorsFree(e, demoted)
        /\ Put(e, [t EXCEPT !.phase = "selecting",
                            !.branches = @ \cup previous, !.sensors = @ \cup demoted,
                            !.demoted = demoted,
                            !.promoted = {d \in members : member[d].scope # "full_account"}])
        /\ UNCHANGED <<branch, member, costScope>>

\* The account is locked last: a concurrent designation may commit meanwhile.
LockAccount(e) ==
    /\ edit[e].phase = "selecting"
    /\ AccountFree(e)
    /\ Put(e, [edit[e] EXCEPT !.phase = "selected", !.account = TRUE])
    /\ UNCHANGED <<branch, member, costScope>>

\* Mutant: no index keeps the home total unique.
AlwaysOnly(e) == TRUE

\* uq_circuits_one_home_total: a designation that lost the race is refused.
OnlyHomeTotal(e) ==
    \A b \in Branches : branch[b] = "total" => b \in edit[e].branches

\* The commit of a create or update.
CommitBranch(e) ==
    LET t == edit[e]
    IN  /\ t.phase \in {"ready", "selected"}
        /\ t.select => t.phase = "selected" /\ OnlyHomeTotal(e) /\ SensorsFree(e, t.promoted)
        /\ branch' = [b \in Branches |->
                        IF b = t.target THEN IF t.select THEN "total" ELSE "section"
                        ELSE IF b \in t.branches THEN "section" ELSE branch[b]]
        /\ member' = [d \in Devices |->
                        [Placed(t)[d] EXCEPT !.scope =
                            IF d \in t.promoted THEN "full_account"
                            ELSE IF d \in t.demoted THEN "energy_only" ELSE @]]
        /\ costScope' = IF t.select THEN "full_account" ELSE costScope
        /\ Put(e, NoEdit)

\* delete_service_branch, with its branch locked throughout.
DeleteBranch(b) ==
    /\ branch[b] = "section"
    /\ \A e \in Editors : Editing(e) => b \notin edit[e].branches
    /\ Assigned(b) = {}
    /\ branch' = [branch EXCEPT ![b] = "none"]
    /\ Arrives /\ UNCHANGED <<member, costScope, edit>>

-----------------------------------------------------------------------------
(* Sensors and account.                                                    *)

\* update_device of include_in_aggregate alone.
UpdateInclusion(d) ==
    /\ ~member[d].revoked
    /\ \A e \in Editors : Editing(e) => d \notin edit[e].sensors
    /\ member' = [member EXCEPT ![d].included = ~@]
    /\ Arrives /\ UNCHANGED <<branch, costScope, edit>>

RevokeSensor(d) ==
    /\ ~member[d].revoked
    /\ \A e \in Editors : Editing(e) => d \notin edit[e].sensors
    /\ member' = [member EXCEPT ![d].revoked = TRUE]
    /\ Arrives /\ UNCHANGED <<branch, costScope, edit>>

\* _validate_account_measurement_scope, with the scope of one sensor replaced.
Validates(scope, d, own) ==
    LET matching == {x \in Active : (IF x = d THEN own ELSE member[x].scope) = scope}
    IN  \/ scope = "energy_only"
        \/ Cardinality(matching) = 1
        \/ \E b \in Branches : /\ branch[b] = "total"
                               /\ matching # {}
                               /\ \A x \in matching : member[x].circuit = b

\* update_device of measurement_scope: its own row is locked first, ...
BeginScope(e, d, scope) ==
    /\ ~member[d].revoked /\ SensorsFree(e, {d})
    /\ member[d].scope # scope
    /\ Begin(e, [Blank EXCEPT !.phase = "scope", !.ids = {d}, !.scope = scope, !.sensors = {d}])
    /\ UNCHANGED <<branch, member, costScope>>

Overridden(t) == CHOOSE d \in t.ids : TRUE

\* ... the requested scope is validated under the locks of all active
\* sensors, the cost scope is read without a lock, ...
CheckScope(e) ==
    LET t == edit[e]
        held == IF t.scope = "energy_only" THEN t.sensors ELSE Active
    IN  /\ t.phase = "scope"
        /\ SensorsFree(e, held)
        /\ Validates(t.scope, Overridden(t), t.scope)
        /\ Put(e, [t EXCEPT !.phase = "checked", !.sensors = held, !.cost = costScope])
        /\ UNCHANGED <<branch, member, costScope>>

\* Mutant: the cost scope of the account is not validated again.
NotRevalidated(e) == TRUE

CostScopeStillBacked(e) ==
    LET t == edit[e]
    IN  t.cost # "energy_only" => SensorsFree(e, Active) /\ Validates(t.cost, Overridden(t), t.scope)

\* ... and what the account needs is validated before the commit.
CommitScope(e) ==
    LET t == edit[e]
    IN  /\ t.phase = "checked"
        /\ CostScopeStillBacked(e)
        /\ member' = [member EXCEPT ![Overridden(t)].scope = t.scope]
        /\ Put(e, NoEdit)
        /\ UNCHANGED <<branch, costScope>>

\* update_home_utility of cost_scope: the account is locked, then the sensors.
BeginUtility(e, scope) ==
    /\ AccountFree(e)
    /\ scope # costScope
    /\ Begin(e, [Blank EXCEPT !.phase = "account", !.scope = scope, !.account = TRUE])
    /\ UNCHANGED <<branch, member, costScope>>

CommitUtility(e) ==
    LET t == edit[e]
    IN  /\ t.phase = "account"
        /\ t.scope # "energy_only" => SensorsFree(e, Active)
        /\ Validates(t.scope, NoBranch, t.scope)
        /\ costScope' = t.scope
        /\ Put(e, NoEdit)
        /\ UNCHANGED <<branch, member>>

\* A conflict, a database deadlock, the unique index or a lost connection.
RollBack(e) ==
    /\ Editing(e)
    /\ Put(e, NoEdit)
    /\ UNCHANGED <<branch, member, costScope>>

\* Requests that may begin, within the bound.
Waiting == {e \in Editors : edit[e] = NoEdit /\ edits < MaxEdits}

BranchesNext ==
    \/ \E e \in Waiting, b \in Branches, ds \in SUBSET Devices, total, aggregate \in BOOLEAN :
          CreateBranch(e, b, ds, total, aggregate)
    \/ \E e \in Waiting, b \in Branches, ds \in SUBSET Devices, moves, total \in BOOLEAN :
          BeginUpdate(e, b, ds, moves, total)
    \/ \E e \in Editors : LockMembers(e)
    \/ \E e \in Editors : SelectHomeTotal(e)
    \/ \E e \in Editors : LockAccount(e)
    \/ \E e \in Editors : CommitBranch(e)
    \/ \E b \in Branches : DeleteBranch(b)
    \/ \E d \in Devices : UpdateInclusion(d)
    \/ \E d \in Devices : RevokeSensor(d)
    \/ \E e \in Waiting, d \in Devices, scope \in Scopes : BeginScope(e, d, scope)
    \/ \E e \in Editors : CheckScope(e)
    \/ \E e \in Editors : CommitScope(e)
    \/ \E e \in Waiting, scope \in Scopes : BeginUtility(e, scope)
    \/ \E e \in Editors : CommitUtility(e)
    \/ \E e \in Editors : RollBack(e)

BranchesSpec == BranchesInit /\ [][BranchesNext]_branchVars

-----------------------------------------------------------------------------
(* Properties.                                                             *)

\* Rows and transactions have their types.
BranchesTypeOK ==
    /\ branch \in [Branches -> {"none", "section", "total"}]
    /\ \A d \in Devices :
          member[d] \in [circuit : Branches \cup {NoBranch}, included : BOOLEAN,
                         scope : Scopes, revoked : BOOLEAN]
    /\ costScope \in Scopes
    /\ \A e \in Editors : edit[e] \in Edit \cup {NoEdit}

\* A sensor is never assigned to a branch that does not exist: deletion and
\* assignment of one branch exclude each other by its row lock.
SensorsInExistingBranches ==
    \A d \in Devices : member[d].circuit # NoBranch => branch[member[d].circuit] # "none"

\* The home has one home total, whatever designations overlap.
OneHomeTotal == Cardinality({b \in Branches : branch[b] = "total"}) <= 1

CostScopeBacked ==
    costScope # "energy_only" => \E d \in Devices : member[d].scope = costScope

\* The bill's cost scope keeps a sensor of that scope to rest on (perhaps one
\* revoked since): scope and cost-scope requests that overlap cannot take the
\* last one away between them.  Only a designation can, which reads the scopes
\* of its members without a lock and changes the cost scope under a scope
\* request that has read it.
CostScopeStaysBacked ==
    [][CostScopeBacked =>
          \/ CostScopeBacked'
          \/ \E e \in Editors : edit[e].phase = "selected" /\ edit'[e] = NoEdit
          \/ \E e \in Editors : edit[e].phase = "checked" /\ edit[e].cost # costScope]_branchVars

\* While a branch stays the home total, a sensor leaves it only by a move
\* that checked its source before the designation, or by an update that
\* listed the members before the sensor was included again: both reads are
\* unlocked.
HomeTotalKeepsMembers ==
    [][\A d \in Devices, b \in Branches :
          (branch[b] = "total" /\ branch'[b] = "total" /\ d \in Members(b) /\ member'[d].circuit # b)
          => \E e \in {f \in Editors : Editing(f)} :
                \/ b \in edit[e].sources
                \/ edit[e].target = b /\ d \notin edit[e].listed
      ]_branchVars

\* Branches, sensors and the home total stay consistent under overlapping edits.
BranchesSound ==
    /\ BranchesTypeOK
    /\ SensorsInExistingBranches
    /\ OneHomeTotal
==============================================================================
