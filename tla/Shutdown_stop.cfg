SPECIFICATION FairSpec
CONSTANTS
    Servers <- Two
    Conns = {1}
    GracePeriod = TRUE
    MaxCancels = 1
PROPERTIES
    ImplementsLife
    SignalStops
    DropStops
    CancelStopsOne
CHECK_DEADLOCK FALSE
