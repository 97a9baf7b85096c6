\* Walks of two clients over a live and a replayed release, with one slot.
CONSTANTS
    Client      = {c1, c2}
    Release     = {live, replay}
    Live        = live
    Keys        = 3
    Field       = {"x", "y"}
    Stored      <- MCStored
    Limit       = 1
    Slots       = 1
    Ttl         = 1
    MaxClock    = 2
    MaxChanges  = 1
    MaxRestarts = 1
    None        = None
SPECIFICATION Spec
SYMMETRY MCSymmetry
INVARIANTS TypeOK WalkComplete
PROPERTY LeaseBounded
CHECK_DEADLOCK FALSE
