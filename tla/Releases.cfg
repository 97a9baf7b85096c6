\* Two replay processes, the live release and one operator.
CONSTANTS
    Release   = {live, r1, r2}
    Live      = live
    Publisher = {p1, p2}
    Operator  = {o1}
    Key       = {k1}
    None      = None
    MaxAudit  = 1
SPECIFICATION FairSpec
INVARIANTS TypeOK OneActive AuditChain ServableComplete
PROPERTIES ServableStays ServedRowsFrozen LockFreed
CHECK_DEADLOCK FALSE
