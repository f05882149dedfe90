------------------------- MODULE ServiceBranches_proofs -------------------------
(***************************************************************************)
(* Proofs about the branches of a home, for any sensors, branches and      *)
(* settings requests in flight together: the home total stays unique and   *)
(* sensors stay in existing branches; a sensor leaves the home total, and  *)
(* the cost scope loses its last sensor, only through the unlocked reads   *)
(* that the two action properties name.                                    *)
(*                                                                         *)
(* The invariant behind them is about row locks: requests in flight hold   *)
(* disjoint rows, and what a request has read of rows it holds still is    *)
(* so when it commits.                                                     *)
(***************************************************************************)
EXTENDS ServiceBranches, FiniteSetTheorems, TLAPS

MemberRows == [circuit : Branches \cup {NoBranch}, included : BOOLEAN,
               scope : Scopes, revoked : BOOLEAN]

BranchesTyped ==
    /\ branch \in [Branches -> {"none", "section", "total"}]
    /\ member \in [Devices -> MemberRows]
    /\ costScope \in Scopes
    /\ edit \in [Editors -> Edit \cup {NoEdit}]

\* Two requests in flight hold no row of a branch or a sensor together.
LocksExclusive ==
    \A e, f \in Editors : e # f /\ Editing(e) /\ Editing(f) =>
        /\ edit[e].branches \cap edit[f].branches = {}
        /\ edit[e].sensors \cap edit[f].sensors = {}

\* A request that edits a branch.
EditsBranch(t) == t.phase \in {"locked", "ready", "selecting", "selected"}

\* What a request has read of the rows it holds: it holds its branch, and a
\* home total's listed members are among the requested ones; once it holds its
\* sensors, they come from its sources, its own branch or none, and those it
\* drops are in its branch.  Scopes are written by a designation only.
EditFits(e) ==
    LET t == edit[e] IN
    EditsBranch(t) =>
        /\ t.target \in t.branches
        /\ t.moves /\ branch[t.target] = "total" => t.listed \subseteq t.ids
        /\ t.phase # "locked" /\ t.moves =>
              /\ t.ids \subseteq t.sensors
              /\ \A d \in t.ids : member[d].circuit \in t.sources \cup {t.target, NoBranch}
        /\ t.dropped \subseteq t.sensors \ t.ids
        /\ \A d \in t.dropped : member[d].circuit = t.target
        /\ t.phase = "locked" \/ t.dropped # {} => t.moves
        /\ t.phase \in {"locked", "ready"} => t.promoted = {} /\ t.demoted = {}

OneTotal == \A a, b \in Branches : branch[a] = "total" /\ branch[b] = "total" => a = b

BranchesInv ==
    /\ BranchesTyped
    /\ LocksExclusive
    /\ \A e \in Editors : EditFits(e)
    /\ SensorsInExistingBranches
    /\ OneTotal

\* A request that asks for nothing yet.
LEMMA BlankFields ==
    /\ Blank \in Edit /\ Blank.sources = {} /\ Blank.dropped = {} /\ Blank.listed = {}
    /\ Blank.promoted = {} /\ Blank.demoted = {} /\ Blank.branches = {} /\ Blank.sensors = {}
    /\ Blank.ids = {}
BY DEF Blank, Edit, Scopes

\* A request that ends or has not begun holds nothing.
LEMMA Phases ==
    ASSUME BranchesTyped, NEW e \in Editors
    PROVE  /\ edit[e].phase # "none" => edit[e] \in Edit
           /\ edit[e] \in Edit => edit[e].phase # "none"
           /\ edit[e] = NoEdit => edit[e].phase = "none"
           /\ edit[e].phase = "none" => edit[e] = NoEdit
BY DEF BranchesTyped, Edit, NoEdit

\* Only the request of e moves; the rows stay as they are.
LEMMA EditMoves ==
    ASSUME BranchesInv, NEW e \in Editors,
           edit' \in [Editors -> Edit \cup {NoEdit}],
           \A f \in Editors \ {e} : edit'[f] = edit[f],
           UNCHANGED <<branch, member, costScope>>,
           edit'[e].phase # "none" => \A f \in Others(e) :
               /\ edit'[e].branches \cap edit[f].branches = {}
               /\ edit'[e].sensors \cap edit[f].sensors = {},
           EditFits(e)'
    PROVE  BranchesInv'
<1>1. BranchesTyped' /\ SensorsInExistingBranches' /\ OneTotal'
  BY DEF BranchesInv, BranchesTyped, SensorsInExistingBranches, OneTotal
<1>2. LocksExclusive'
  BY DEF BranchesInv, LocksExclusive, Editing, Others
<1>3. ASSUME NEW f \in Editors \ {e} PROVE EditFits(f)'
  BY <1>3 DEF BranchesInv, EditFits, EditsBranch
<1>4. QED
  BY <1>1, <1>2, <1>3 DEF BranchesInv

\* A creation locks its members, none of which is in a branch.
LEMMA CreateStep ==
    ASSUME BranchesInv, NEW e \in Editors, NEW b \in Branches, NEW ds \in SUBSET Devices,
           NEW total \in BOOLEAN, NEW aggregate \in BOOLEAN,
           CreateBranch(e, b, ds, total, aggregate)
    PROVE  BranchesInv'
<1> DEFINE u == [Blank EXCEPT !.phase = "ready", !.target = b, !.ids = ds, !.moves = TRUE,
                            !.includes = ~aggregate, !.select = total,
                            !.branches = {b}, !.sensors = ds]
<1>1. u \in Edit
  BY BlankFields, ZenonT(90) DEF Edit
<1>2. /\ u.phase = "ready" /\ u.target = b /\ u.ids = ds /\ u.branches = {b} /\ u.sensors = ds
      /\ u.listed = {} /\ u.dropped = {} /\ u.promoted = {} /\ u.demoted = {}
  BY BlankFields DEF Edit
<1>3. /\ edit' \in [Editors -> Edit \cup {NoEdit}] /\ edit'[e] = u
      /\ \A f \in Editors \ {e} : edit'[f] = edit[f]
      /\ UNCHANGED <<branch, member, costScope>>
      /\ BranchFree(e, b) /\ SensorsFree(e, ds)
      /\ \A d \in ds : member[d].circuit = NoBranch
  BY <1>1 DEF BranchesInv, BranchesTyped, CreateBranch, Begin
<1> HIDE DEF u
<1>4. EditFits(e)'
  BY <1>2, <1>3 DEF EditFits, EditsBranch
<1>5. \A f \in Others(e) : /\ edit'[e].branches \cap edit[f].branches = {}
                           /\ edit'[e].sensors \cap edit[f].sensors = {}
  BY <1>2, <1>3 DEF BranchFree, SensorsFree
<1>6. QED
  BY <1>3, <1>4, <1>5, EditMoves

\* An update locks its branch, and the rows it read are still true of it.
LEMMA UpdateStep ==
    ASSUME BranchesInv, NEW e \in Editors, NEW b \in Branches, NEW ds \in SUBSET Devices,
           NEW moves \in BOOLEAN, NEW total \in BOOLEAN,
           BeginUpdate(e, b, ds, moves, total)
    PROVE  BranchesInv'
<1> DEFINE sel == total \/ branch[b] = "total"
           ph == IF moves THEN "locked" ELSE "ready"
           u == [Blank EXCEPT !.phase = ph, !.target = b, !.ids = ds, !.moves = moves,
                              !.select = sel, !.branches = {b}, !.listed = Members(b)]
<1>1. Members(b) \in SUBSET Devices /\ ph \in {"locked", "ready"} /\ (ph = "ready" <=> ~moves)
  BY DEF Members
<1> HIDE DEF ph
<1>2. u \in Edit
  BY <1>1, BlankFields, ZenonT(90) DEF Edit
<1>3. /\ u.phase = ph /\ u.target = b /\ u.ids = ds /\ u.branches = {b} /\ u.sensors = {}
      /\ u.listed = Members(b) /\ u.dropped = {} /\ u.promoted = {} /\ u.demoted = {}
      /\ u.moves <=> moves
  BY BlankFields DEF Edit
<1>4. /\ edit' \in [Editors -> Edit \cup {NoEdit}] /\ edit'[e] = u
      /\ \A f \in Editors \ {e} : edit'[f] = edit[f]
      /\ UNCHANGED <<branch, member, costScope>>
      /\ BranchFree(e, b)
      /\ moves /\ branch[b] = "total" => Members(b) \subseteq ds
  BY <1>2 DEF BranchesInv, BranchesTyped, BeginUpdate, Begin, ph
<1> HIDE DEF u
<1>5. EditFits(e)'
  BY <1>1, <1>3, <1>4 DEF EditFits, EditsBranch
<1>6. \A f \in Others(e) : /\ edit'[e].branches \cap edit[f].branches = {}
                           /\ edit'[e].sensors \cap edit[f].sensors = {}
  BY <1>3, <1>4 DEF BranchFree
<1>7. QED
  BY <1>4, <1>5, <1>6, EditMoves

\* The members of an update are locked and compared.
LEMMA LockMembersStep ==
    ASSUME BranchesInv, NEW e \in Editors, LockMembers(e)
    PROVE  BranchesInv'
<1> DEFINE t == edit[e]
           sources == {member[d].circuit : d \in t.ids} \ {t.target, NoBranch}
           found == {b \in sources : branch[b] # "total"}
           held == t.ids \cup Assigned(t.target)
           gone == Assigned(t.target) \ t.ids
           u == [t EXCEPT !.phase = "ready", !.sensors = held, !.dropped = gone, !.sources = found]
<1>1. t \in Edit /\ t.phase = "locked" /\ EditFits(e) /\ BranchesTyped
  BY Phases DEF BranchesInv, LockMembers
<1>2. held \in SUBSET Devices /\ gone \in SUBSET Devices /\ found \in SUBSET Branches
  <2>1. t.ids \in SUBSET Devices
    BY <1>1 DEF Edit
  <2>2. \A d \in t.ids : member[d].circuit \in Branches \cup {NoBranch}
    BY <1>1, <2>1 DEF BranchesTyped, MemberRows
  <2>3. QED
    BY <2>1, <2>2 DEF Assigned
<1>3. /\ \A d \in t.ids : member[d].circuit \in found \cup {t.target, NoBranch}
      /\ \A d \in gone : member[d].circuit = t.target
      /\ gone \subseteq held \ t.ids /\ t.ids \subseteq held
  BY DEF LockMembers, Unprotected, Assigned
<1>4. /\ edit' = [edit EXCEPT ![e] = u] /\ UNCHANGED <<branch, member, costScope>>
      /\ SensorsFree(e, held)
  BY DEF LockMembers, Put
<1> HIDE DEF held, gone, found
<1>5. u \in Edit
  BY <1>1, <1>2 DEF Edit
<1>6. /\ u.phase = "ready" /\ u.target = t.target /\ u.ids = t.ids /\ u.branches = t.branches
      /\ u.sensors = held /\ u.dropped = gone /\ u.sources = found /\ u.listed = t.listed
      /\ u.promoted = t.promoted /\ u.demoted = t.demoted /\ u.moves = t.moves
  BY <1>1 DEF Edit
<1>7. /\ edit' \in [Editors -> Edit \cup {NoEdit}] /\ edit'[e] = u
      /\ \A f \in Editors \ {e} : edit'[f] = edit[f]
  BY <1>1, <1>4, <1>5 DEF BranchesTyped
<1> HIDE DEF u
<1>8. EditFits(e)'
  BY <1>1, <1>3, <1>4, <1>6, <1>7 DEF EditFits, EditsBranch
<1>9. \A f \in Others(e) : /\ edit'[e].branches \cap edit[f].branches = {}
                           /\ edit'[e].sensors \cap edit[f].sensors = {}
  BY <1>1, <1>4, <1>6, <1>7 DEF BranchesInv, LocksExclusive, SensorsFree, Others, Editing
<1>10. QED
  BY <1>4, <1>7, <1>8, <1>9, EditMoves

\* The designation of a home total, with the demotion of the sensors before it.
LEMMA SelectStep ==
    ASSUME BranchesInv, NEW e \in Editors, SelectHomeTotal(e)
    PROVE  BranchesInv'
<1> DEFINE t == edit[e]
<1>1. t \in Edit /\ t.phase = "ready" /\ EditFits(e) /\ BranchesTyped
  BY Phases DEF BranchesInv, SelectHomeTotal
<1>2. PICK previous \in SUBSET Branches, demoted \in SUBSET Devices, promoted \in SUBSET Devices :
        /\ \A b \in previous : BranchFree(e, b)
        /\ SensorsFree(e, demoted)
        /\ edit' = [edit EXCEPT ![e] =
             [t EXCEPT !.phase = "selecting", !.branches = @ \cup previous,
                       !.sensors = @ \cup demoted, !.demoted = demoted, !.promoted = promoted]]
  <2> DEFINE members == {d \in Active : Placed(t)[d].circuit = t.target /\ Placed(t)[d].included}
             previous == {b \in Branches \ {t.target} : branch[b] = "total"}
             demoted == {d \in Devices : /\ Placed(t)[d].circuit \in previous
                                         /\ Placed(t)[d].scope # "energy_only"}
             promoted == {d \in members : member[d].scope # "full_account"}
  <2>1. promoted \in SUBSET Devices /\ demoted \in SUBSET Devices /\ previous \in SUBSET Branches
    BY DEF Active
  <2>2. /\ \A b \in previous : BranchFree(e, b)
        /\ SensorsFree(e, demoted)
        /\ edit' = [edit EXCEPT ![e] =
             [t EXCEPT !.phase = "selecting", !.branches = @ \cup previous,
                       !.sensors = @ \cup demoted, !.demoted = demoted, !.promoted = promoted]]
    BY Zenon DEF SelectHomeTotal, Put
  <2> HIDE DEF promoted, demoted, previous
  <2>3. QED
    BY <2>1, <2>2
<1> DEFINE u == [t EXCEPT !.phase = "selecting", !.branches = @ \cup previous,
                          !.sensors = @ \cup demoted, !.demoted = demoted, !.promoted = promoted]
<1>3. u \in Edit
  BY <1>1 DEF Edit
<1>4. /\ u.phase = "selecting" /\ u.target = t.target /\ u.ids = t.ids
      /\ u.branches = t.branches \cup previous /\ u.sensors = t.sensors \cup demoted
      /\ u.dropped = t.dropped /\ u.sources = t.sources /\ u.listed = t.listed
      /\ u.moves = t.moves
  BY <1>1 DEF Edit
<1>5. /\ edit' \in [Editors -> Edit \cup {NoEdit}] /\ edit'[e] = u
      /\ \A f \in Editors \ {e} : edit'[f] = edit[f]
      /\ UNCHANGED <<branch, member, costScope>>
  BY <1>1, <1>2, <1>3 DEF BranchesTyped, SelectHomeTotal
<1> HIDE DEF u
<1>6. EditFits(e)'
  BY <1>1, <1>4, <1>5 DEF EditFits, EditsBranch
<1>7. \A f \in Others(e) : /\ edit'[e].branches \cap edit[f].branches = {}
                           /\ edit'[e].sensors \cap edit[f].sensors = {}
  BY <1>1, <1>2, <1>4, <1>5
     DEF BranchesInv, LocksExclusive, BranchFree, SensorsFree, Others, Editing
<1>8. QED
  BY <1>5, <1>6, <1>7, EditMoves

\* Steps that take the account, or that concern scopes only.
LEMMA LockAccountStep ==
    ASSUME BranchesInv, NEW e \in Editors, LockAccount(e)
    PROVE  BranchesInv'
<1> DEFINE t == edit[e]
           u == [t EXCEPT !.phase = "selected", !.account = TRUE]
<1>1. t \in Edit /\ t.phase = "selecting" /\ EditFits(e) /\ BranchesTyped
  BY Phases DEF BranchesInv, LockAccount
<1>2. u \in Edit
  BY <1>1 DEF Edit
<1>3. /\ u.phase = "selected" /\ u.target = t.target /\ u.ids = t.ids
      /\ u.branches = t.branches /\ u.sensors = t.sensors
      /\ u.dropped = t.dropped /\ u.sources = t.sources /\ u.listed = t.listed
      /\ u.moves = t.moves
  BY <1>1 DEF Edit
<1>4. /\ edit' \in [Editors -> Edit \cup {NoEdit}] /\ edit'[e] = u
      /\ \A f \in Editors \ {e} : edit'[f] = edit[f]
      /\ UNCHANGED <<branch, member, costScope>>
  BY <1>1, <1>2 DEF BranchesTyped, LockAccount, Put
<1> HIDE DEF u
<1>5. EditFits(e)'
  BY <1>1, <1>3, <1>4 DEF EditFits, EditsBranch
<1>6. \A f \in Others(e) : /\ edit'[e].branches \cap edit[f].branches = {}
                           /\ edit'[e].sensors \cap edit[f].sensors = {}
  BY <1>1, <1>3, <1>4 DEF BranchesInv, LocksExclusive, Others, Editing
<1>7. QED
  BY <1>4, <1>5, <1>6, EditMoves

\* Changes of one sensor's scope and of the utility scope.
LEMMA ScopeSteps ==
    ASSUME BranchesInv, NEW e \in Editors,
           \/ \E d \in Devices, scope \in Scopes : BeginScope(e, d, scope)
           \/ CheckScope(e)
           \/ \E scope \in Scopes : BeginUtility(e, scope)
           \/ CommitUtility(e) \/ RollBack(e)
    PROVE  BranchesInv'
<1>1. BranchesTyped
  BY DEF BranchesInv
<1>2. ASSUME NEW u \in Edit \cup {NoEdit}, ~EditsBranch(u),
             u.phase # "none" => \A f \in Others(e) :
               /\ u.branches \cap edit[f].branches = {}
               /\ u.sensors \cap edit[f].sensors = {},
             edit' = [edit EXCEPT ![e] = u],
             UNCHANGED <<branch, member>>, costScope' \in Scopes
      PROVE  BranchesInv'
  <2>1. /\ edit' \in [Editors -> Edit \cup {NoEdit}] /\ edit'[e] = u
        /\ \A f \in Editors \ {e} : edit'[f] = edit[f]
    BY <1>1, <1>2 DEF BranchesTyped
  <2>2. BranchesTyped' /\ SensorsInExistingBranches' /\ OneTotal'
    BY <1>1, <1>2, <2>1 DEF BranchesInv, BranchesTyped, SensorsInExistingBranches, OneTotal
  <2>3. LocksExclusive'
    BY <1>2, <2>1 DEF BranchesInv, LocksExclusive, Editing, Others
  <2>4. EditFits(e)'
    BY <1>2, <2>1 DEF EditFits
  <2>5. ASSUME NEW f \in Editors \ {e} PROVE EditFits(f)'
    BY <1>2, <2>1, <2>5 DEF BranchesInv, EditFits, EditsBranch
  <2>6. QED
    BY <2>2, <2>3, <2>4, <2>5 DEF BranchesInv
<1>3. ASSUME NEW d \in Devices, NEW scope \in Scopes, BeginScope(e, d, scope) PROVE BranchesInv'
  <2> DEFINE u == [Blank EXCEPT !.phase = "scope", !.ids = {d}, !.scope = scope, !.sensors = {d}]
  <2>1. u \in Edit /\ u.phase = "scope" /\ u.branches = {} /\ u.sensors = {d}
    BY BlankFields DEF Edit
  <2>2. edit' = [edit EXCEPT ![e] = u] /\ UNCHANGED <<branch, member, costScope>>
        /\ SensorsFree(e, {d})
    BY <1>3 DEF BeginScope, Begin
  <2> HIDE DEF u
  <2>3. QED
    BY <1>1, <1>2, <2>1, <2>2 DEF EditsBranch, SensorsFree, BranchesTyped
<1>4. CASE CheckScope(e)
  <2> DEFINE t == edit[e]
             held == IF t.scope = "energy_only" THEN t.sensors ELSE Active
             u == [t EXCEPT !.phase = "checked", !.sensors = held, !.cost = costScope]
  <2>1. t \in Edit /\ t.phase = "scope"
    BY <1>1, <1>4, Phases DEF CheckScope
  <2>2. held \in SUBSET Devices /\ costScope \in Scopes
    BY <1>1, <2>1 DEF Edit, Active, BranchesTyped
  <2>3. edit' = [edit EXCEPT ![e] = u] /\ UNCHANGED <<branch, member, costScope>>
        /\ SensorsFree(e, held)
    BY <1>4 DEF CheckScope, Put
  <2> HIDE DEF held
  <2>4. u \in Edit /\ u.phase = "checked" /\ u.branches = t.branches /\ u.sensors = held
    BY <2>1, <2>2 DEF Edit
  <2> HIDE DEF u
  <2>5. \A f \in Others(e) : u.branches \cap edit[f].branches = {}
                             /\ u.sensors \cap edit[f].sensors = {}
    BY <2>1, <2>3, <2>4 DEF BranchesInv, LocksExclusive, Others, Editing, SensorsFree
  <2>6. QED
    BY <1>1, <1>2, <2>2, <2>3, <2>4, <2>5 DEF EditsBranch
<1>5. ASSUME NEW scope \in Scopes, BeginUtility(e, scope) PROVE BranchesInv'
  <2> DEFINE u == [Blank EXCEPT !.phase = "account", !.scope = scope, !.account = TRUE]
  <2>1. u \in Edit /\ u.phase = "account" /\ u.branches = {} /\ u.sensors = {}
    BY BlankFields DEF Edit
  <2>2. edit' = [edit EXCEPT ![e] = u] /\ UNCHANGED <<branch, member, costScope>>
    BY <1>5 DEF BeginUtility, Begin
  <2> HIDE DEF u
  <2>3. QED
    BY <1>1, <1>2, <2>1, <2>2 DEF EditsBranch, BranchesTyped
<1>6. CASE CommitUtility(e) \/ RollBack(e)
  <2>1. edit' = [edit EXCEPT ![e] = NoEdit] /\ UNCHANGED <<branch, member>>
    BY <1>6 DEF CommitUtility, RollBack, Put
  <2>2. costScope' \in Scopes
    BY <1>1, <1>6, Phases DEF CommitUtility, RollBack, BranchesTyped, Edit
  <2>3. NoEdit.phase = "none" /\ ~EditsBranch(NoEdit)
    BY DEF NoEdit, EditsBranch
  <2>4. QED
    BY <1>2, <2>1, <2>2, <2>3
<1>7. QED
  BY <1>3, <1>4, <1>5, <1>6

\* What the commit of a branch writes to the sensors.
LEMMA CommitMembers ==
    ASSUME BranchesTyped, NEW e \in Editors, CommitBranch(e)
    PROVE  /\ edit[e] \in Edit /\ EditsBranch(edit[e])
           /\ member' \in [Devices -> MemberRows]
           /\ \A d \in Devices :
                /\ edit[e].moves /\ d \in edit[e].ids => member'[d].circuit = edit[e].target
                /\ ~(edit[e].moves /\ d \in edit[e].ids) /\ d \in edit[e].dropped =>
                      member'[d].circuit = NoBranch
                /\ ~(edit[e].moves /\ d \in edit[e].ids) /\ d \notin edit[e].dropped =>
                      member'[d].circuit = member[d].circuit
                /\ d \notin edit[e].promoted \cup edit[e].demoted =>
                      member'[d].scope = member[d].scope
<1> DEFINE t == edit[e]
           Scope(d) == IF d \in t.promoted THEN "full_account"
                       ELSE IF d \in t.demoted THEN "energy_only" ELSE Placed(t)[d].scope
<1>1. t \in Edit /\ EditsBranch(t)
  BY Phases DEF CommitBranch, EditsBranch
<1>2. t.target \in Branches \cup {NoBranch} /\ t.includes \in BOOLEAN /\ t.moves \in BOOLEAN
  BY <1>1 DEF Edit
<1>3. ASSUME NEW d \in Devices
      PROVE  /\ Placed(t)[d] \in MemberRows
             /\ t.moves /\ d \in t.ids => Placed(t)[d].circuit = t.target
             /\ ~(t.moves /\ d \in t.ids) /\ d \in t.dropped => Placed(t)[d].circuit = NoBranch
             /\ ~(t.moves /\ d \in t.ids) /\ d \notin t.dropped => Placed(t)[d].circuit = member[d].circuit
             /\ Placed(t)[d].scope = member[d].scope
  <2>1. member[d] \in MemberRows
    BY DEF BranchesTyped
  <2>2. CASE t.moves /\ d \in t.ids
    <3>1. Placed(t)[d] = [member[d] EXCEPT !.circuit = t.target, !.included = t.includes \/ @]
      BY <2>2 DEF Placed
    <3>2. QED
      BY <1>2, <2>1, <2>2, <3>1 DEF MemberRows
  <2>3. CASE ~(t.moves /\ d \in t.ids) /\ d \in t.dropped
    <3>1. Placed(t)[d] = [member[d] EXCEPT !.circuit = NoBranch, !.included = FALSE]
      BY <2>3 DEF Placed
    <3>2. QED
      BY <2>1, <2>3, <3>1 DEF MemberRows
  <2>4. CASE ~(t.moves /\ d \in t.ids) /\ d \notin t.dropped
    <3>1. Placed(t)[d] = member[d]
      BY <2>4 DEF Placed
    <3>2. QED
      BY <2>1, <2>4, <3>1
  <2>5. QED
    BY <2>2, <2>3, <2>4
<1>4. member' = [d \in Devices |-> [Placed(t)[d] EXCEPT !.scope = Scope(d)]]
  BY DEF CommitBranch
<1>5. ASSUME NEW d \in Devices
      PROVE  /\ member'[d] \in MemberRows /\ member'[d].circuit = Placed(t)[d].circuit
             /\ d \notin t.promoted \cup t.demoted => member'[d].scope = Placed(t)[d].scope
  <2>1. Scope(d) \in Scopes /\ (d \notin t.promoted \cup t.demoted => Scope(d) = Placed(t)[d].scope)
    BY <1>3 DEF MemberRows, Scopes
  <2>2. member'[d] = [Placed(t)[d] EXCEPT !.scope = Scope(d)]
    BY <1>4
  <2> HIDE DEF Scope
  <2>3. QED
    BY <1>3, <2>1, <2>2 DEF MemberRows
<1>6. member' \in [Devices -> MemberRows]
  BY <1>4, <1>5
<1>7. QED
  BY <1>1, <1>3, <1>5, <1>6

\* Only the rows a request holds change with its commit.
LEMMA CommitBranchStep ==
    ASSUME BranchesInv, NEW e \in Editors, CommitBranch(e)
    PROVE  BranchesInv'
<1> DEFINE t == edit[e]
<1>1. /\ t \in Edit /\ EditsBranch(t) /\ EditFits(e) /\ BranchesTyped /\ t.phase # "locked"
      /\ t.target \in t.branches /\ t.branches \subseteq Branches
  BY CommitMembers DEF BranchesInv, EditFits, Edit, CommitBranch
<1>2. /\ edit' = [edit EXCEPT ![e] = NoEdit]
      /\ edit' \in [Editors -> Edit \cup {NoEdit}] /\ edit'[e] = NoEdit
      /\ \A f \in Editors \ {e} : edit'[f] = edit[f]
  BY <1>1 DEF CommitBranch, Put, BranchesTyped
<1>3. costScope' \in Scopes
  BY <1>1 DEF CommitBranch, BranchesTyped, Scopes
<1>4. /\ branch' \in [Branches -> {"none", "section", "total"}]
      /\ branch'[t.target] = IF t.select THEN "total" ELSE "section"
      /\ \A b \in Branches \ {t.target} :
            branch'[b] = IF b \in t.branches THEN "section" ELSE branch[b]
      /\ t.select => \A b \in Branches : branch[b] = "total" => b \in t.branches
  BY <1>1 DEF CommitBranch, BranchesTyped, OnlyHomeTotal
<1>5. BranchesTyped'
  BY <1>1, <1>2, <1>3, <1>4, CommitMembers DEF BranchesTyped
<1>6. OneTotal'
  BY <1>1, <1>4 DEF BranchesInv, OneTotal
<1>7. \A d \in Devices : member'[d].circuit \in {t.target, NoBranch, member[d].circuit}
  BY <1>1, CommitMembers
<1>8. SensorsInExistingBranches'
  <2> SUFFICES ASSUME NEW d \in Devices, member'[d].circuit # NoBranch
               PROVE  branch'[member'[d].circuit] # "none"
    BY DEF SensorsInExistingBranches
  <2>1. member[d].circuit \in Branches \cup {NoBranch}
    BY <1>1 DEF BranchesTyped, MemberRows
  <2>2. CASE member'[d].circuit = t.target
    BY <1>1, <1>4, <2>2
  <2>3. CASE member'[d].circuit = member[d].circuit
    <3>1. branch[member[d].circuit] # "none"
      BY <2>3 DEF BranchesInv, SensorsInExistingBranches
    <3>2. QED
      BY <1>1, <1>4, <2>1, <2>3, <3>1
  <2>4. QED
    BY <1>7, <2>2, <2>3
<1>9. LocksExclusive'
  BY <1>2 DEF BranchesInv, LocksExclusive, Editing, NoEdit
<1>10. EditFits(e)'
  BY <1>2 DEF EditFits, EditsBranch, NoEdit
<1>11. ASSUME NEW f \in Editors \ {e} PROVE EditFits(f)'
  <2> DEFINE u == edit[f]
  <2> SUFFICES ASSUME EditsBranch(u) PROVE EditFits(f)'
    BY <1>2 DEF EditFits
  <2>1. u \in Edit /\ EditFits(f) /\ Editing(f) /\ Editing(e)
    BY <1>1, Phases DEF BranchesInv, EditsBranch, Editing
  <2>2. t.branches \cap u.branches = {} /\ t.sensors \cap u.sensors = {}
    BY <2>1 DEF BranchesInv, LocksExclusive
  <2>3. u.target \in u.branches /\ u.branches \subseteq Branches /\ u.sensors \subseteq Devices
    BY <2>1 DEF EditFits, Edit
  <2>4. branch'[u.target] = branch[u.target]
    BY <1>1, <1>4, <2>2, <2>3
  <2>5. ASSUME NEW d \in u.sensors PROVE member'[d].circuit = member[d].circuit
    <3>1. d \in Devices /\ d \notin t.sensors
      BY <2>2, <2>3
    <3>2. ~(t.moves /\ d \in t.ids) /\ d \notin t.dropped
      BY <1>1, <3>1 DEF EditFits
    <3>3. QED
      BY <1>1, <3>1, <3>2, CommitMembers
  <2>6. edit'[f] = u
    BY <1>2
  <2> HIDE DEF u
  <2>7. QED
    BY <2>1, <2>4, <2>5, <2>6 DEF EditFits, u
<1>12. QED
  BY <1>5, <1>6, <1>8, <1>9, <1>10, <1>11 DEF BranchesInv

\* A branch is deleted when no request holds it and no sensor is in it.
LEMMA DeleteStep ==
    ASSUME BranchesInv, NEW b \in Branches, DeleteBranch(b)
    PROVE  BranchesInv'
<1>1. /\ BranchesTyped /\ UNCHANGED <<member, costScope, edit>>
      /\ branch' = [branch EXCEPT ![b] = "none"]
      /\ branch' \in [Branches -> {"none", "section", "total"}]
      /\ \A e \in Editors : Editing(e) => b \notin edit[e].branches
      /\ \A d \in Devices : member[d].circuit # b
  BY DEF BranchesInv, BranchesTyped, DeleteBranch, Assigned
<1>2. BranchesTyped' /\ LocksExclusive' /\ OneTotal'
  BY <1>1 DEF BranchesInv, BranchesTyped, LocksExclusive, Editing, OneTotal
<1>3. SensorsInExistingBranches'
  BY <1>1 DEF BranchesInv, BranchesTyped, SensorsInExistingBranches
<1>4. ASSUME NEW e \in Editors PROVE EditFits(e)'
  BY <1>1, <1>4 DEF BranchesInv, BranchesTyped, EditFits, EditsBranch, Editing
<1>5. QED
  BY <1>2, <1>3, <1>4 DEF BranchesInv

\* Requests that change one sensor leave its branch alone.
LEMMA SensorSteps ==
    ASSUME BranchesInv,
           \/ \E d \in Devices : UpdateInclusion(d) \/ RevokeSensor(d)
           \/ \E e \in Editors : CommitScope(e)
    PROVE  BranchesInv'
<1>1. BranchesTyped
  BY DEF BranchesInv
<1>2. ASSUME edit' \in [Editors -> Edit \cup {NoEdit}],
             \A e \in Editors : edit'[e] = edit[e] \/ edit'[e] = NoEdit,
             member' \in [Devices -> MemberRows],
             \A d \in Devices : member'[d].circuit = member[d].circuit,
             UNCHANGED <<branch, costScope>>
      PROVE  BranchesInv'
  <2>1. BranchesTyped' /\ SensorsInExistingBranches' /\ OneTotal'
    BY <1>1, <1>2 DEF BranchesInv, BranchesTyped, SensorsInExistingBranches, OneTotal
  <2>2. LocksExclusive'
    BY <1>2 DEF BranchesInv, LocksExclusive, Editing, NoEdit
  <2>3. ASSUME NEW e \in Editors PROVE EditFits(e)'
    <3>1. CASE edit'[e] = NoEdit
      BY <3>1 DEF EditFits, EditsBranch, NoEdit
    <3>2. CASE edit'[e] = edit[e] /\ EditsBranch(edit[e])
      <4>1. edit[e] \in Edit /\ EditFits(e)
        BY <1>1, <3>2, Phases DEF BranchesInv, EditsBranch
      <4>2. edit[e].ids \subseteq Devices /\ edit[e].dropped \subseteq Devices
        BY <4>1 DEF Edit
      <4>3. QED
        BY <1>2, <3>2, <4>1, <4>2 DEF EditFits
    <3>3. CASE edit'[e] = edit[e] /\ ~EditsBranch(edit[e])
      BY <3>3 DEF EditFits
    <3>4. QED
      BY <1>2, <3>1, <3>2, <3>3
  <2>4. QED
    BY <2>1, <2>2, <2>3 DEF BranchesInv
<1>3. ASSUME NEW d \in Devices, UpdateInclusion(d) \/ RevokeSensor(d) PROVE BranchesInv'
  <2>1. /\ UNCHANGED <<branch, costScope, edit>>
        /\ \/ member' = [member EXCEPT ![d].included = ~@]
           \/ member' = [member EXCEPT ![d].revoked = TRUE]
    BY <1>3 DEF UpdateInclusion, RevokeSensor
  <2>2. member[d] \in MemberRows
    BY <1>1 DEF BranchesTyped
  <2>3. \A b \in BOOLEAN : /\ [member[d] EXCEPT !.included = b] \in MemberRows
                           /\ [member[d] EXCEPT !.revoked = b] \in MemberRows
    BY <2>2 DEF MemberRows
  <2>4. member' \in [Devices -> MemberRows]
    BY <1>1, <2>1, <2>3 DEF BranchesTyped
  <2>5. \A x \in Devices : member'[x].circuit = member[x].circuit
    BY <1>1, <2>1 DEF BranchesTyped, MemberRows
  <2>6. QED
    BY <1>1, <1>2, <2>1, <2>4, <2>5 DEF BranchesTyped
<1>4. ASSUME NEW e \in Editors, CommitScope(e) PROVE BranchesInv'
  <2>1. edit[e] \in Edit /\ edit[e].scope \in Scopes
    BY <1>1, <1>4, Phases DEF CommitScope, Edit
  <2>2. /\ UNCHANGED <<branch, costScope>> /\ edit' = [edit EXCEPT ![e] = NoEdit]
        /\ member' = [member EXCEPT ![Overridden(edit[e])].scope = edit[e].scope]
    BY <1>4 DEF CommitScope, Put
  <2>3. member' \in [Devices -> MemberRows]
    BY <1>1, <2>1, <2>2 DEF BranchesTyped, MemberRows
  <2>4. \A x \in Devices : member'[x].circuit = member[x].circuit
    BY <1>1, <2>2 DEF BranchesTyped, MemberRows
  <2>5. /\ edit' \in [Editors -> Edit \cup {NoEdit}]
        /\ \A f \in Editors : edit'[f] = edit[f] \/ edit'[f] = NoEdit
    BY <1>1, <2>2 DEF BranchesTyped
  <2>6. QED
    BY <1>2, <2>2, <2>3, <2>4, <2>5
<1>5. QED
  BY <1>3, <1>4

\* Every step of the branches keeps the invariant.
LEMMA BranchesStep == BranchesInv /\ [BranchesNext]_branchVars => BranchesInv'
<1> SUFFICES ASSUME BranchesInv, [BranchesNext]_branchVars PROVE BranchesInv'
  OBVIOUS
<1>1. CASE UNCHANGED branchVars
  BY <1>1 DEF branchVars, BranchesInv, BranchesTyped, LocksExclusive, Editing, EditFits,
              EditsBranch, SensorsInExistingBranches, OneTotal
<1>2. CASE BranchesNext
  BY <1>2, CreateStep, UpdateStep, LockMembersStep, SelectStep, LockAccountStep,
     CommitBranchStep, DeleteStep, SensorSteps, ScopeSteps DEF BranchesNext, Waiting
<1>3. QED
  BY <1>1, <1>2

\* A home without branches satisfies it.
LEMMA BranchesStart == BranchesInit => BranchesInv
<1> SUFFICES ASSUME BranchesInit PROVE BranchesInv
  OBVIOUS
<1>1. Enrolled \in MemberRows
  BY DEF Enrolled, MemberRows, Scopes
<1>2. BranchesTyped
  BY <1>1 DEF BranchesInit, BranchesTyped, Scopes
<1>3. QED
  BY <1>2 DEF BranchesInit, BranchesInv, LocksExclusive, Editing, NoEdit, EditFits, EditsBranch,
              SensorsInExistingBranches, OneTotal, Enrolled

--------------------------------------------------------------------------------
(* Results *)

\* Under any overlap of settings requests the home has one home total at most
\* and every assigned sensor is in a branch that exists.
THEOREM BranchesCorrect == BranchesSpec => []BranchesSound
<1>1. BranchesInv => BranchesSound
  <2> SUFFICES ASSUME BranchesInv PROVE BranchesSound
    OBVIOUS
  <2>1. BranchesTypeOK
    BY DEF BranchesInv, BranchesTyped, BranchesTypeOK, MemberRows
  <2> DEFINE T == {b \in Branches : branch[b] = "total"}
  <2>2. CASE T = {}
    <3>1. OneHomeTotal
      BY <2>2, FS_EmptySet DEF OneHomeTotal
    <3>2. QED
      BY <2>1, <3>1 DEF BranchesInv, BranchesSound
  <2>3. CASE T # {}
    <3>1. PICK b \in T : T = {b}
      BY <2>3 DEF BranchesInv, OneTotal
    <3>2. OneHomeTotal
      BY <3>1, FS_Singleton DEF OneHomeTotal
    <3>3. QED
      BY <2>1, <3>2 DEF BranchesInv, BranchesSound
  <2>4. QED
    BY <2>2, <2>3
<1>2. QED
  BY <1>1, BranchesStart, BranchesStep, PTL DEF BranchesSpec

\* Only the commit of a branch takes a sensor out of one: it is a requested
\* sensor, which the request found in a source of its own, or one it drops
\* from its branch, which a home total's request does not do to a listed one.
THEOREM HomeTotalProtected == BranchesSpec => HomeTotalKeepsMembers
<1> DEFINE Leaves(d, b) == /\ branch[b] = "total" /\ branch'[b] = "total"
                           /\ d \in Members(b) /\ member'[d].circuit # b
           Excused(d, b) == \E e \in {f \in Editors : Editing(f)} :
                               \/ b \in edit[e].sources
                               \/ edit[e].target = b /\ d \notin edit[e].listed
<1>1. ASSUME BranchesInv, [BranchesNext]_branchVars,
             NEW d \in Devices, NEW b \in Branches, Leaves(d, b)
      PROVE  Excused(d, b)
  <2>1. BranchesTyped /\ member[d].circuit = b /\ member'[d].circuit # member[d].circuit
    BY <1>1 DEF BranchesInv, Members
  <2>2. ASSUME NEW e \in Editors, CommitBranch(e) PROVE Excused(d, b)
    <3> DEFINE t == edit[e]
    <3>1. t \in Edit /\ EditsBranch(t) /\ t.phase # "locked" /\ EditFits(e)
      BY <1>1, <2>1, <2>2, CommitMembers DEF BranchesInv, CommitBranch
    <3>2. Editing(e)
      BY <3>1, Phases, <2>1 DEF Editing
    <3>3. (t.moves /\ d \in t.ids) \/ d \in t.dropped
      BY <2>1, <2>2, CommitMembers
    <3>4. CASE t.moves /\ d \in t.ids
      <4>1. member'[d].circuit = t.target
        BY <2>1, <2>2, <3>4, CommitMembers
      <4>2. b \in t.sources
        BY <2>1, <3>1, <3>4, <4>1, BranchesAssumption DEF EditFits
      <4>3. QED
        BY <3>2, <4>2
    <3>5. CASE d \in t.dropped
      <4>1. t.target = b /\ t.moves /\ d \notin t.ids
        BY <2>1, <3>1, <3>5 DEF EditFits
      <4>2. t.listed \subseteq t.ids
        BY <1>1, <3>1, <4>1 DEF EditFits
      <4>3. QED
        BY <3>2, <4>1, <4>2
    <3>6. QED
      BY <3>3, <3>4, <3>5
  <2>3. ASSUME NEW x \in Devices, UpdateInclusion(x) \/ RevokeSensor(x) PROVE FALSE
    BY <2>1, <2>3 DEF UpdateInclusion, RevokeSensor, BranchesTyped, MemberRows
  <2>4. ASSUME NEW e \in Editors, CommitScope(e) PROVE FALSE
    BY <2>1, <2>4 DEF CommitScope, BranchesTyped, MemberRows
  <2>5. member' # member
    BY <2>1
  <2>6. QED
    BY <1>1, <2>2, <2>3, <2>4, <2>5, ZenonT(60)
       DEF BranchesNext, Waiting, branchVars, CreateBranch, BeginUpdate, LockMembers,
           SelectHomeTotal, LockAccount, DeleteBranch, BeginScope, CheckScope, BeginUtility,
           CommitUtility, RollBack
<1>2. BranchesInv /\ [BranchesNext]_branchVars
        => [\A d \in Devices, b \in Branches :
              (branch[b] = "total" /\ branch'[b] = "total" /\ d \in Members(b)
                  /\ member'[d].circuit # b)
              => \E e \in {f \in Editors : Editing(f)} :
                    \/ b \in edit[e].sources
                    \/ edit[e].target = b /\ d \notin edit[e].listed]_branchVars
  BY <1>1
<1>3. QED
  BY <1>2, BranchesStart, BranchesStep, PTL DEF BranchesSpec, HomeTotalKeepsMembers

\* Requests that validate the cost scope leave it a sensor; the two races the
\* property names are the only others that write scopes.
THEOREM CostScopeProtected == BranchesSpec => CostScopeStaysBacked
<1> DEFINE Designated == \E e \in Editors : edit[e].phase = "selected" /\ edit'[e] = NoEdit
           StaleRead == \E e \in Editors : edit[e].phase = "checked" /\ edit[e].cost # costScope
<1>1. ASSUME BranchesInv, [BranchesNext]_branchVars, CostScopeBacked, ~Designated, ~StaleRead
      PROVE  CostScopeBacked'
  <2>1. BranchesTyped
    BY <1>1 DEF BranchesInv
  <2>2. ASSUME UNCHANGED costScope, \A d \in Devices : member'[d].scope = member[d].scope
        PROVE  CostScopeBacked'
    BY <1>1, <2>2 DEF CostScopeBacked
  <2>3. ASSUME NEW scope, NEW x, NEW own, Validates(scope, x, own), scope # "energy_only"
        PROVE  \E d \in Devices : (IF d = x THEN own ELSE member[d].scope) = scope
    <3> DEFINE matching == {d \in Active : (IF d = x THEN own ELSE member[d].scope) = scope}
    <3>1. matching # {}
      <4>1. Cardinality(matching) = 1 => matching # {}
        BY FS_EmptySet
      <4>2. QED
        BY <2>3, <4>1 DEF Validates
    <3>2. QED
      BY <3>1 DEF Active
  <2>4. ASSUME NEW e \in Editors, CommitBranch(e) PROVE CostScopeBacked'
    <3>1. edit[e] \in Edit /\ edit[e].phase = "ready" /\ ~edit[e].select
      BY <1>1, <2>1, <2>4, CommitMembers DEF CommitBranch, Put, BranchesTyped
    <3>2. edit[e].promoted = {} /\ edit[e].demoted = {}
      BY <1>1, <3>1 DEF BranchesInv, EditFits, EditsBranch
    <3>3. QED
      BY <2>1, <2>2, <2>4, <3>1, <3>2, CommitMembers DEF CommitBranch
  <2>5. ASSUME NEW x \in Devices, UpdateInclusion(x) \/ RevokeSensor(x) PROVE CostScopeBacked'
    <3>1. \A d \in Devices : member'[d].scope = member[d].scope
      BY <2>1, <2>5 DEF UpdateInclusion, RevokeSensor, BranchesTyped, MemberRows
    <3>2. QED
      BY <2>2, <2>5, <3>1 DEF UpdateInclusion, RevokeSensor
  <2>6. ASSUME NEW e \in Editors, CommitScope(e) PROVE CostScopeBacked'
    <3> DEFINE t == edit[e]
               x == Overridden(t)
    <3>1. t.cost = costScope /\ UNCHANGED costScope
      BY <1>1, <2>6 DEF CommitScope
    <3>2. CASE costScope = "energy_only"
      BY <3>1, <3>2 DEF CostScopeBacked
    <3>3. CASE costScope # "energy_only"
      <4>1. Validates(costScope, x, t.scope)
        BY <2>6, <3>1, <3>3 DEF CommitScope, CostScopeStillBacked
      <4>2. member' = [member EXCEPT ![x].scope = t.scope]
        BY <2>6 DEF CommitScope
      <4> HIDE DEF x
      <4>3. PICK d \in Devices : (IF d = x THEN t.scope ELSE member[d].scope) = costScope
        BY <2>3, <3>3, <4>1
      <4>4. member'[d].scope = costScope
        BY <2>1, <4>2, <4>3 DEF BranchesTyped, MemberRows
      <4>5. QED
        BY <3>1, <4>4 DEF CostScopeBacked
    <3>4. QED
      BY <3>2, <3>3
  <2>7. ASSUME NEW e \in Editors, CommitUtility(e) PROVE CostScopeBacked'
    <3>1. /\ costScope' = edit[e].scope /\ UNCHANGED member
          /\ Validates(edit[e].scope, NoBranch, edit[e].scope)
      BY <2>7 DEF CommitUtility
    <3>2. CASE edit[e].scope = "energy_only"
      BY <3>1, <3>2 DEF CostScopeBacked
    <3>3. CASE edit[e].scope # "energy_only"
      <4>1. PICK d \in Devices :
                (IF d = NoBranch THEN edit[e].scope ELSE member[d].scope) = edit[e].scope
        BY <2>3, <3>1, <3>3
      <4>2. member[d].scope = edit[e].scope
        BY <4>1, BranchesAssumption
      <4>3. QED
        BY <3>1, <4>2 DEF CostScopeBacked
    <3>4. QED
      BY <3>2, <3>3
  <2>8. CASE UNCHANGED <<member, costScope>>
    BY <2>2, <2>8
  <2>9. QED
    BY <1>1, <2>4, <2>5, <2>6, <2>7, <2>8, ZenonT(60)
       DEF BranchesNext, Waiting, branchVars, CreateBranch, BeginUpdate, LockMembers,
           SelectHomeTotal, LockAccount, DeleteBranch, BeginScope, CheckScope, BeginUtility,
           RollBack
<1>2. BranchesInv /\ [BranchesNext]_branchVars
        => [CostScopeBacked => CostScopeBacked' \/ Designated \/ StaleRead]_branchVars
  <2> HIDE DEF Designated, StaleRead
  <2>1. QED
    BY <1>1
<1>3. QED
  BY <1>2, BranchesStart, BranchesStep, PTL DEF BranchesSpec, CostScopeStaysBacked

================================================================================
