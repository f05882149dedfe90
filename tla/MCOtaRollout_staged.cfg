SPECIFICATION RolloutSpec
CONSTANTS
    MaxBatch = 2
    MaxDevice = 2
    MaxRelease = 1
    Filable = {2}
    Reports = {"awaiting_heartbeat"}
    Builds = {TRUE}
INVARIANTS
    RolloutDisciplined
PROPERTIES
    HaltUndoneOnlyByDeadlinePass
