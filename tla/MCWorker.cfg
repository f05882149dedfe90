SPECIFICATION WorkerSpec
CONSTANTS
    Pages = {a, b}
    Readable = {a}
    NoContent = NoContent
    RetryAttempts = 2
    MaxEdits = 2
    FreshAge = 1
    OfflineAge = 2
    MaxLag = 2
    MaxNewer = 2
INVARIANTS
    RevisionsSound
    AlertsSound
PROPERTIES
    ChecksCommitInFetchOrder
    SourceReachesReview
    AlertsFollowFaults
