SPECIFICATION CommandsSpec
CONSTANTS
    Parts = {"destructive", "rollout", "images"}
    MaxPrepare = 2
    MaxCopies = 2
    MaxSeq = 1
    MaxKey = 1
    MaxAttempt = 1
    Slots = {}
    MaxBatch = 1
    MaxDevice = 2
    MaxRelease = 1
    Filable = {1}
    Reports = {"running", "awaiting_reboot", "awaiting_heartbeat", "succeeded", "failed", "rolled_back"}
    Builds = {TRUE, FALSE}
    MaxVersion = 2
    Contested = {1}
    Deleters = {d1, d2}
INVARIANTS
    ConfirmationUsedOnce
    CommitFollowsReadiness
    GenerationsAccounted
    BatchesSound
    ImagesSound
PROPERTIES
    MaximumNeverMovesBack
    DecidedJobsStayDecided
