\* A click after a timed-out conversion of its own.
CONSTANTS
    Event <- EventsOfLateClick
    Attribution = 1
    Wait        = 2
    Retention   = 4
    MaxFaults   = 0
    MaxChannel  = 2
    MaxTime     = 6
    None        = None
SPECIFICATION Spec
PROPERTIES LateClickSignalled
CHECK_DEADLOCK FALSE
