\* A late contribution after a restart.
CONSTANTS
    Contribution <- OneContribution
    Dimension    = {}
    Window       = 2
    Retention    = 1
    MaxRepeats   = 0
    MaxWatermark = 4
    MaxRestarts  = 1
    None         = None
SPECIFICATION Spec
PROPERTIES HistoryKept
CHECK_DEADLOCK FALSE
