SPECIFICATION CostSpec
CONSTANTS
    s1 = s1
    MaxSeq = 3
    MaxGen = 1
    MaxGaps = 1
    Contents = {"energy", "idle"}
    Slots <- OneSlot
INVARIANTS
    PricesCountEarlierEnergy
