SPECIFICATION FairSpec
CONSTANTS
    MaxConnections = 2
CHECK_DEADLOCK FALSE
PROPERTIES
    Reconnects
