\* Two users, one of them with as many devices as sessions; two buckets, with and
\* without a collision.  Everybody may have left, so the system may come to rest.
SPECIFICATION Spec
CONSTANTS
    u1 = u1
    u2 = u2
    d1 = d1
    d2 = d2
    d3 = d3
    NULL = NULL
    Users <- MCUsers
    Devices <- MCDevices
    User <- MCUser
    Buckets = 2
    MAX_SESSIONS = 2
    MaxBacklog = 1
CHECK_DEADLOCK FALSE
INVARIANTS
    TypeOK
    OneContext
    DiesOnlyOfThese
    PatienceRewarded
    ToldBeforeFreed
