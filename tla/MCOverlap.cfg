\* A PUT is sent again while the server still works on the first, as after a timeout.
\* An upload that has ended, with every request answered, may stop.
CHECK_DEADLOCK FALSE
SPECIFICATION Spec
CONSTANTS
    Puts = {1, 3}
    Sends <- MCSends
    Right = "right"
    None = None
    Pieces = 2
    Overlap = TRUE
    MaxFaults = 0
PROPERTIES
    FinishedNeverChanges
