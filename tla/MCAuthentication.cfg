SPECIFICATION AuthenticationSpec
CONSTANTS
    s1 = s1
    s2 = s2
    MaxKey = 2
    MaxAttempt = 2
    Slots <- TwoSlots
    Users = {u1, u2}
    AdminRequests = {r1, r2}
    Updates <- MCUpdates
    CustomPermissions = {"view", "manage", "other"}
    MaxCredential = 1
    Sources = {src1, src2}
    Principals = {p1}
    Attempts = {a1, a2}
    Limit <- MCLimit
    Window = 3
    Lockout = 3
    MaxWait = 1
    MaxTime = 4
SYMMETRY AuthenticationSymmetry
INVARIANTS
    TypeOK
    LockoutOnlyByCancelledCommit
    RevocationImmediate
    BoundedOverlap
    AccessSound
    ThrottleSound
PROPERTIES
    CommandOutcomeFinal
    TakeoverIsAuthenticated
CHECK_DEADLOCK FALSE
