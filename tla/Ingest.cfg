\* Retried batches through both deduplication layers.
CONSTANTS
    Client     = {"retries", "other"}
    Sends      <- MCSends
    Event      <- MCEvent
    MaxBatches = 2
    MaxCrashes = 1
    Dedup      = 2
    MaxClock   = 2
    None       = None
SPECIFICATION FairSpec
INVARIANTS TypeOK RawHasManifest CleanedApart AgreesWithNormalize
PROPERTIES AcknowledgedClassified
CHECK_DEADLOCK FALSE
