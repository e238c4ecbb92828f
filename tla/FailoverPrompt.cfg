SPECIFICATION FairSpec
CONSTANTS
    Servers <- MCServers
    First = 1
    Timed = TRUE
    Slow = {}
    MaxCrashes = 2
    MaxRoles = 3
INVARIANTS
    NoFalseAlarm
    LowerKnewOfHighest
PROPERTIES
    ManagerReplaced
    ElectionsEnd
