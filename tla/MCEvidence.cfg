SPECIFICATION EvidenceSpec
CONSTANTS
    s1 = s1
    s2 = s2
    MaxSeq = 3
    MaxGen = 1
    MaxGaps = 1
    Contents = {"energy", "idle"}
    Slots <- TwoSlots
    Sensors = {sensor1}
    MaxTime = 5
    BucketLength = 2
    CycleChange = 5
    MaxSkew = 1
    Retention = 1
    MaxInAir = 3
    MaxFaults = 2
    Meters = {m1}
    Outcomes <- MCOutcomes
    CycleStart = 2
    BucketSpan = 2
    Minute = 2
    MaxGap = 3
    MinCoverage = 50
    Allowance = 3
    MaxUsageTime = 8
    MaxOdd = 1
    Devices = {d1, d2, d3}
    Branches = {b1, b2}
    Editors = {e1, e2}
    MaxEdits = 4
SYMMETRY EvidenceSymmetry
INVARIANTS
    EvidenceSound
    PricesStaleOnlyByRace
    EnergyHolds
    UsageHolds
    BranchesSound
PROPERTIES
    CursorSpec
    LiveStateNeverRegresses
    HomeTotalKeepsMembers
    CostScopeStaysBacked
