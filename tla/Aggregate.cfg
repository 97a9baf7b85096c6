\* Contributions, dimensions and timers in every order, with a restart.
CONSTANTS
    Contribution <- MCContribution
    Dimension    <- MCDimension
    Window       = 2
    Retention    = 1
    MaxRepeats   = 1
    MaxWatermark = 3
    MaxRestarts  = 1
    None         = None
SPECIFICATION FairSpec
INVARIANTS TypeOK RowsAgree
PROPERTIES RowsImplemented AllShown
CHECK_DEADLOCK FALSE
