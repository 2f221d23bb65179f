SPECIFICATION Spec
CONSTANTS
    Jobs = {j1}
    Retention = 2
    Limit = 2
    MaxTime = 4
    MaxReports = 1
    MaxRestarts = 1
    None = None
PROPERTIES
    WatchEnds
CHECK_DEADLOCK FALSE
