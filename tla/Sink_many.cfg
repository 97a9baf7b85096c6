\* Two workers, INSERTs that land late, also behind a topic that was recreated, members
\* left behind by a rebalance.
CONSTANTS
    k1 = k1
    k2 = k2
    q1 = q1
    q2 = q2
    Worker    = {w1, w2}
    Partition = {q1}
    Key       = {k1}
    Value     = {v1}
    KindOf    <- MCOneKind
    HomeOf    <- MCOneHome
    Faults    = {"crash", "timeout", "slow", "recreate"}
    MaxLog    = 2
    MaxFaults = 2
SPECIFICATION FairSpec
PROPERTIES ShownMovesForward AllPersisted
CHECK_DEADLOCK FALSE
