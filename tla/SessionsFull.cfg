SPECIFICATION FairSpec
CONSTANTS
    a = a
    b = b
    Clients <- MCClients
    None = None
    MAX_SESSIONS = 1
    Capacity = 1
    MaxChanges = 1
    Room = 2
CHECK_DEADLOCK FALSE
INVARIANTS
    EventsInOrder
    NoGhosts
PROPERTIES
    BackupFollows
