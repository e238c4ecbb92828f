SPECIFICATION FairSpec
CONSTANTS
    MaxConnections = 2
CHECK_DEADLOCK FALSE
INVARIANTS
    OneConnection
    NoForeignClose
    ConsoleServes
PROPERTIES
    MovesUnlessMiscounted
    ExitEnds
