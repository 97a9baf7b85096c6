\* Batches cut in every way, with crashes, and puts and commits that raise;
\* and one reader that starts at any moment.
CONSTANTS
    Batches    <- MCBatches
    Received   <- MCReceived
    BatchSize  = 2
    MaxCrashes = 1
SPECIFICATION ReplaySpec
INVARIANTS TypeOK ManifestHasData CommittedArchived ScopeExact ReconcileComplete
PROPERTIES StoreImplemented EverythingArchived
CHECK_DEADLOCK FALSE
