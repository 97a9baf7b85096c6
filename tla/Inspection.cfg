\* Two inspectors, the sink, the archive and a trace.
CONSTANTS
    Batches        <- MCBatches
    Object         <- MCObject
    Traced         = {"r1"}
    Inspector      = {service, manual}
    MaxInspections = 2
    None           = None
SPECIFICATION Spec
INVARIANTS TypeOK ClaimHolds TraceAgrees
PROPERTIES SnapshotForward
CHECK_DEADLOCK FALSE
