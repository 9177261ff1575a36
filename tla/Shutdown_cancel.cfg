SPECIFICATION FairSpec
CONSTANTS
    Servers <- Two
    Conns = {1, 2}
    GracePeriod = TRUE
    MaxCancels = 1
PROPERTIES
    CancelStops
CHECK_DEADLOCK FALSE
