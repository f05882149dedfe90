SPECIFICATION Spec
CONSTANTS
    s1 = s1
    s2 = s2
    MaxKey = 2
    MaxAttempt = 2
    Slots <- OneSlot
INVARIANTS
    SensorNotLockedOut
