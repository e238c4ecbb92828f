SPECIFICATION Spec
CONSTANTS
    Servers <- MCServers
    First = 1
    Timed = TRUE
    Slow = {2}
    MaxCrashes = 1
    MaxRoles = 2
INVARIANTS
    BackupIsMonitored
