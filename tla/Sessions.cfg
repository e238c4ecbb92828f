SPECIFICATION Spec
CONSTANTS
    a = a
    b = b
    Clients <- MCClients
    None = None
    MAX_SESSIONS = 2
    Capacity = 1
    MaxChanges = 2
    Room = 1
CHECK_DEADLOCK FALSE
SYMMETRY ClientSymmetry
INVARIANTS
    SlotsLive
    FreedIdle
    EveryoneIsTold
