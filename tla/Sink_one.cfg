\* The deployed stack: one worker that crashes; topics recreated or repartitioned under it.
CONSTANTS
    k1 = k1
    k2 = k2
    q1 = q1
    q2 = q2
    Worker    = {w1}
    Partition <- MCPartition
    Key       <- MCKey
    Value     = {v1, v2}
    KindOf    <- MCMetrics
    HomeOf    <- MCHomeOf
    Faults    = {"crash", "reset", "commit", "recreate", "reroute"}
    MaxLog    = 2
    MaxFaults = 2
SPECIFICATION Spec
INVARIANTS TypeOK CommittedPersisted OneContent OneRoute
CHECK_DEADLOCK FALSE
