---------------------------- MODULE MCAuthentication ----------------------------
(* Who is let in: the keys of a sensor, the users of the home and their       *)
(* sessions, the login throttle.  The three share no table, so a behaviour of *)
(* the whole is one of each; each behaviour here runs the one `focus' names.  *)
EXTENDS CredentialRotation, UserAccess, LoginThrottle, TLC

CONSTANTS s1, s2

VARIABLE focus

TwoSlots == {s1, s2}

MCUpdates == {[kind |-> "update", role |-> "keep", enabled |-> "no", email |-> FALSE],
              [kind |-> "update", role |-> "Owner", enabled |-> "yes", email |-> FALSE],
              [kind |-> "update", role |-> "Viewer", enabled |-> "keep", email |-> TRUE]}

MCLimit == [k \in {"source", "principal"} |-> IF k = "source" THEN 3 ELSE 2]

AuthenticationSymmetry ==
    Permutations(Slots) \cup Permutations(Users) \cup Permutations(AdminRequests)
    \cup Permutations(Attempts)

AuthenticationInit ==
    /\ Init /\ AccessInit /\ ThrottleInit
    /\ focus \in {"rotation", "access", "throttle"}

AuthenticationNext ==
    \/ focus = "rotation" /\ Next /\ UNCHANGED <<accessVars, throttleVars, focus>>
    \/ focus = "access" /\ AccessNext /\ UNCHANGED <<vars, throttleVars, focus>>
    \/ focus = "throttle" /\ ThrottleNext /\ UNCHANGED <<vars, accessVars, focus>>

AuthenticationSpec ==
    AuthenticationInit /\ [][AuthenticationNext]_<<vars, accessVars, throttleVars, focus>>
================================================================================
