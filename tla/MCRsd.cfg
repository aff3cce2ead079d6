SPECIFICATION RsdFairSpec
CONSTANTS
    OverallTimeout = 8
    RequestTimeout = 2
    VerificationTimeout = 2
    CleanupTimeout = 1
    CloseTimeout = 1
    UploadRequests = 7
    Writes = {6}
INVARIANTS
    EndsInTime
    CleanReport
    LeftoversReported
    RefusedInstalledByCommand
PROPERTIES
    RepliesMatch
    PromiseKept
    CallReturns
    ArtifactDropped
CHECK_DEADLOCK FALSE
