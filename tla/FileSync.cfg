SPECIFICATION FairSpec
CONSTANTS
    d1 = d1
    d2 = d2
    v1 = v1
    v2 = v2
    Empty = Empty
    None = None
    Devices <- MCDevices
    Values <- MCValues
    MaxChanges = 2
CHECK_DEADLOCK FALSE
CONSTRAINT NotRaced
INVARIANTS
    Agree
    LastChangeWins
    DiesOnlyOfRaces
PROPERTIES
    EchoStops
