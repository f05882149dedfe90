SPECIFICATION RolloutSpec
CONSTANTS
    MaxBatch = 1
    MaxDevice = 2
    MaxRelease = 1
    Filable = {}
    Reports = {"awaiting_heartbeat", "failed"}
    Builds = {TRUE}
PROPERTIES
    HaltedRolloutStaysHalted
