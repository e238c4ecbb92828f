\* Two backups, two uploads, deletions or changes of a file of at most one packet,
\* one crash.  The backups may stop joining and the users may stop uploading, so
\* the system may come to rest.
SPECIFICATION FairSpec
CONSTANTS
    b1 = b1
    b2 = b2
    NULL = NULL
    Backups <- MCBackups
    MaxChunks = 1
    MaxFiles = 2
    MaxCrashes = 1
    Room = 1
CHECK_DEADLOCK FALSE
CONSTRAINTS
    NotBreached
    InOrder
INVARIANTS
    ListSound
    InStep
    DanglesOnlyUnlocked
PROPERTIES
    GroupForms
    HeartbeatsGoOn
    ImplementsGroup
