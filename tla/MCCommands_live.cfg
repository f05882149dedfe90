SPECIFICATION CommandsFairSpec
CONSTANTS
    Parts = {"destructive", "rotation", "rollout", "images"}
    MaxPrepare = 1
    MaxCopies = 2
    MaxSeq = 1
    MaxKey = 2
    MaxAttempt = 2
    Slots = {s1}
    MaxBatch = 2
    MaxDevice = 2
    MaxRelease = 2
    Filable = {}
    Reports = {}
    Builds = {}
    MaxVersion = 1
    Contested = {1}
    Deleters = {d1, d2}
PROPERTIES
    TokensVanish
    RotationResolves
    RolloutNotStalled
    ImagesSettle
