\* Every order and repeat of events on time or late.
CONSTANTS
    Event <- MCEvent
    Attribution = 1
    Wait        = 2
    Retention   = 3
    MaxFaults   = 1
    MaxChannel  = 2
    MaxTime     = 6
    None        = None
SPECIFICATION Spec
INVARIANTS TypeOK OnTimeAgreement MatchesAreReal StateExpires
CHECK_DEADLOCK FALSE
