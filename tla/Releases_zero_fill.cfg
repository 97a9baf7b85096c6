\* Two replays that both become active, the second computed from an older baseline.
CONSTANTS
    Release   = {live, r1, r2}
    Live      = live
    Publisher = {p1, p2}
    Operator  = {o1}
    Key       = {k1}
    None      = None
    MaxAudit  = 1
SPECIFICATION Spec
SYMMETRY Symmetry
PROPERTIES PredecessorZeroed
CHECK_DEADLOCK FALSE
