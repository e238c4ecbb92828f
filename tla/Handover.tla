------------------------------- MODULE Handover -------------------------------
(***************************************************************************)
(* A backup becomes the manager, from the point of view of its users: the   *)
(* table of their contexts (contextHashTable.c, get_or_create_context), the *)
(* events of the old manager that its connection thread still handles, the  *)
(* walk that tells every client of the new manager and the one that frees   *)
(* every session (connectionManagement.c, the end of run_as_backup), and    *)
(* the main thread, which lets in whoever comes: a client that was told of  *)
(* this server, or one that nobody sent, at any time (server.c:270-281).    *)
(*                                                                          *)
(* Who has heard of the new manager comes from its notice.  Only the walk   *)
(* keeps the lock of a bucket or of a context while it waits for others,    *)
(* so the locks are where the walk stands.                                  *)
(***************************************************************************)
EXTENDS Integers, Sequences, FiniteSets

CONSTANTS
    Users, Devices, NULL,
    User,            \* whose device it is
    Buckets,         \* HashTable.size
    MAX_SESSIONS,
    MaxBacklog       \* bound: events of the old manager that are not read yet

ASSUME UserAssumption == User \in [Devices -> Users]
ASSUME SizesAssumption ==
    Buckets \in Nat \ {0} /\ MAX_SESSIONS \in Nat \ {0} /\ MaxBacklog \in Nat
ASSUME DevicesAssumption ==
    IsFiniteSet(Devices) /\ \A u \in Users :
        Cardinality({d \in Devices : User[d] = u}) <= MAX_SESSIONS

VARIABLES
    running,     \* the new manager has not died
    keyHash,     \* chosen once
    alive,       \* the old manager runs
    device,      \* what became of a device
    events,      \* from the old manager, not read yet
    mode,        \* global_server_mode
    table,       \* contextTable.array: contexts, by bucket
    contexts,    \* every context that was created
    role,        \* the thread of run_as_backup
    thread,      \* the main and the connection thread
    late,        \* history: an event was handled after the promotion
    cut,         \* history: devices whose sessions were freed under them
    hasty,       \* history: the new manager served a client before the walks were over
    met          \* history: a user's first event and a client nobody sent came at once

server == <<running, keyHash, mode, table, contexts>>
history == <<late, cut, hasty, met>>
vars == <<server, alive, device, events, role, thread, history>>

Slots == 1 .. MAX_SESSIONS
Threads == {"main", "conn"}
Connected(d) == [kind |-> "CONNECTED", device |-> d]
Disconnected(d) == [kind |-> "DISCONNECTED", device |-> d]
Events == [kind : {"CONNECTED", "DISCONNECTED"}, device : Devices]

(* A session that begins at a backup has no threads.  One that the          *)
(* connection thread creates in a manager has threads that read from        *)
(* descriptor -1.                                                           *)
Sessions == [device : Devices, threads : {"none", "client", "astray"}]
ASSUME NullAssumption == NULL \notin Sessions
ContextIds == 1 .. Len(contexts)

Context == [user : Users, sessions : [Slots -> Sessions \cup {NULL}]]

(* A client that nobody sent is "coming" while the main thread has it in    *)
(* hand, and is "waiting" in the session it got from a backup.              *)
DeviceStates ==
    {"new", "here", "left", "gone", "coming", "waiting", "told", "served", "turned_away"}
Walking == {"context", "slot"}
Walk == [at : {"backup", "awaiting", "bucket", "free", "manager"} \cup Walking,
         bucket : 1 .. Buckets, node : Nat, slot : Slots]
Task == [at : {"idle", "search", "insert", "lock", "out"}, event : Events \cup {NULL}, context : Nat]

TypeOK ==
    /\ running \in BOOLEAN
    /\ keyHash \in [Users -> 1 .. Buckets]
    /\ alive \in BOOLEAN
    /\ device \in [Devices -> DeviceStates]
    /\ events \in Seq(Events)
    /\ mode \in {"BACKUP", "BACKUP_MANAGER"}
    /\ contexts \in Seq(Context)
    /\ table \in [1 .. Buckets -> Seq(ContextIds)]
    /\ role \in Walk
    /\ thread \in [Threads -> Task]
    /\ late \in BOOLEAN /\ hasty \in BOOLEAN /\ met \in BOOLEAN
    /\ cut \in SUBSET Devices

AtRest == [at |-> "idle", event |-> NULL, context |-> 0]

Init ==
    /\ running = TRUE
    /\ keyHash \in [Users -> 1 .. Buckets]
    /\ alive = TRUE
    /\ device = [d \in Devices |-> "new"]
    /\ events = <<>>
    /\ mode = "BACKUP"
    /\ table = [b \in 1 .. Buckets |-> <<>>]
    /\ contexts = <<>>
    /\ role = [at |-> "backup", bucket |-> 1, node |-> 1, slot |-> 1]
    /\ thread = [t \in Threads |-> AtRest]
    /\ late = FALSE /\ hasty = FALSE /\ met = FALSE
    /\ cut = {}

-----------------------------------------------------------------------------
(* The old manager and its clients.                                         *)

OldManagerAccepts(d) ==
    /\ running /\ alive
    /\ device[d] = "new"
    /\ device' = [device EXCEPT ![d] = "here"]
    /\ Len(events) < MaxBacklog
    /\ events' = Append(events, Connected(d))
    /\ UNCHANGED <<server, alive, role, thread, history>>

OldManagerLetsGo(d) ==
    /\ running /\ alive
    /\ device[d] = "here"
    /\ device' = [device EXCEPT ![d] = "left"]
    /\ Len(events) < MaxBacklog
    /\ events' = Append(events, Disconnected(d))
    /\ UNCHANGED <<server, alive, role, thread, history>>

OldManagerDies ==
    /\ running /\ alive
    /\ alive' = FALSE
    /\ UNCHANGED <<server, device, events, role, thread, history>>

DeviceDies(d) ==
    /\ running
    /\ device[d] \in {"here", "waiting"}
    /\ device' = [device EXCEPT ![d] = "gone"]
    /\ UNCHANGED <<server, alive, events, role, thread, history>>

(* The election ends in favour of this server.                              *)
Promoted ==
    /\ running
    /\ ~alive
    /\ mode = "BACKUP"
    /\ mode' = "BACKUP_MANAGER"
    /\ UNCHANGED <<running, keyHash, table, contexts, alive, device, events, role, thread, history>>

-----------------------------------------------------------------------------
(* get_or_create_context, by the main and by the connection thread.         *)

At(t, place) == running /\ thread[t].at = place

Bucket(t) == keyHash[User[thread[t].event.device]]

Locked(bucket) == role.at \in Walking /\ role.bucket = bucket

InHand(c) == role.at = "slot" /\ table[role.bucket][role.node] = c

(* Where a list has the name of a user.                                     *)
Named(bucket, u) == {i \in DOMAIN table[bucket] : contexts[table[bucket][i]].user = u}

(* Mutant: a list is taken for empty only when its end was looked at.       *)
WalksOffAnyList(bucket, u) == Named(bucket, u) = {}

(* LinkedList_get: the loop tests the list where it means the node, and     *)
(* looks for a key past the end of a list that has some other.              *)
WalksOff(bucket, u) == table[bucket] # <<>> /\ Named(bucket, u) = {}

(* Mutant: only the head of the list is looked at.                          *)
LooksAtHead(bucket, u) == {table[bucket][i] : i \in Named(bucket, u) \cap {1}}

(* The first context of that name, if there is one.                         *)
LinkedList_get(bucket, u) ==
    {table[bucket][i] : i \in {k \in Named(bucket, u) : \A j \in Named(bucket, u) : k <= j}}

Searches(t) ==
    LET bucket == Bucket(t)
        u == User[thread[t].event.device]
        found == LinkedList_get(bucket, u)
    IN  /\ At(t, "search")
        /\ ~Locked(bucket)
        /\ running' = ~WalksOff(bucket, u)
        /\ thread' = [thread EXCEPT ![t] =
              IF found = {} THEN [@ EXCEPT !.at = "insert"]
              ELSE [@ EXCEPT !.at = "lock", !.context = CHOOSE c \in found : TRUE]]
        /\ UNCHANGED <<keyHash, mode, table, contexts, alive, device, events, role, history>>

LinkedList_push(list, c) == <<c>> \o list

Inserts(t) ==
    LET bucket == Bucket(t)
        new == [user |-> User[thread[t].event.device], sessions |-> [i \in Slots |-> NULL]]
    IN  /\ At(t, "insert")
        /\ ~Locked(bucket)
        /\ contexts' = Append(contexts, new)
        /\ table' = [table EXCEPT ![bucket] = LinkedList_push(@, Len(contexts'))]
        /\ thread' = [thread EXCEPT ![t].at = "lock", ![t].context = Len(contexts')]
        /\ UNCHANGED <<running, keyHash, mode, alive, device, events, role, history>>

-----------------------------------------------------------------------------
(* initialize_user_session_and_threads, with the context locked.            *)

Free(c) == {i \in Slots : contexts[c].sessions[i] = NULL}

find_free_session_index(c) == CHOOSE i \in Free(c) : \A j \in Free(c) : i <= j

Enter(c, d, threads) ==
    contexts' = [contexts EXCEPT ![c].sessions[find_free_session_index(c)] =
                     [device |-> d, threads |-> threads]]

ClientEnters ==
    LET c == thread["main"].context
        d == thread["main"].event.device
    IN  /\ At("main", "lock")
        /\ ~InHand(c)
        /\ IF Free(c) = {}
           THEN device' = [device EXCEPT ![d] = "turned_away"] /\ UNCHANGED contexts
           ELSE IF mode = "BACKUP"
           THEN Enter(c, d, "none") /\ device' = [device EXCEPT ![d] = "waiting"]
           ELSE Enter(c, d, "client") /\ device' = [device EXCEPT ![d] = "served"]
        /\ hasty' = (hasty \/ (mode # "BACKUP" /\ role.at # "manager"))
        /\ thread' = [thread EXCEPT !["main"] = AtRest]
        /\ UNCHANGED <<running, keyHash, mode, table, alive, events, role, late, cut, met>>

(* The same function in the connection thread.  It looks at the mode again. *)
EventEnters ==
    LET c == thread["conn"].context
        d == thread["conn"].event.device
    IN  /\ At("conn", "lock")
        /\ thread["conn"].event.kind = "CONNECTED"
        /\ ~InHand(c)
        /\ IF Free(c) = {} THEN UNCHANGED contexts
           ELSE Enter(c, d, IF mode = "BACKUP" THEN "none" ELSE "astray")
        /\ late' = (late \/ mode # "BACKUP")
        /\ thread' = [thread EXCEPT !["conn"] = AtRest]
        /\ UNCHANGED <<running, keyHash, mode, table, alive, device, events, role, cut, hasty, met>>

(* get_user_session_by_address finds nothing in a slot that was freed.      *)
EventLeaves ==
    LET c == thread["conn"].context
        mine == {i \in Slots : contexts[c].sessions[i] # NULL
                    /\ contexts[c].sessions[i].device = thread["conn"].event.device}
    IN  /\ At("conn", "lock")
        /\ thread["conn"].event.kind = "DISCONNECTED"
        /\ ~InHand(c)
        /\ running' = (mine # {})
        /\ contexts' = [contexts EXCEPT ![c].sessions =
                            [i \in Slots |-> IF i \in mine THEN NULL ELSE @[i]]]
        /\ late' = (late \/ mode # "BACKUP")
        /\ thread' = [thread EXCEPT !["conn"] = AtRest]
        /\ UNCHANGED <<keyHash, mode, table, alive, device, events, role, cut, hasty, met>>

-----------------------------------------------------------------------------
(* A thread that is about to look for the context of a user who has none.   *)
Creating(t, u) ==
    /\ thread[t].at \in {"search", "insert"}
    /\ User[thread[t].event.device] = u
    /\ \A c \in ContextIds : contexts[c].user # u

ConnReads ==
    /\ At("conn", "idle")
    /\ IF mode = "BACKUP"
       THEN /\ events # <<>>
            /\ events' = Tail(events)
            /\ thread' = [thread EXCEPT !["conn"].at = "search", !["conn"].event = Head(events)]
            /\ met' = (met \/ Creating("main", User[Head(events).device]))
       ELSE /\ thread' = [thread EXCEPT !["conn"].at = "out"]
            /\ UNCHANGED <<events, met>>
    /\ UNCHANGED <<server, alive, device, role, late, cut, hasty>>

(* Whoever comes is let in, whatever this server is at the time.            *)
MainAccepts(d) ==
    /\ At("main", "idle")
    /\ device[d] \in {"new", "told"}
    /\ device' = [device EXCEPT ![d] = IF @ = "new" THEN "coming" ELSE @]
    /\ met' = (met \/ (device[d] = "new" /\ Creating("conn", User[d])))
    /\ thread' = [thread EXCEPT !["main"].at = "search", !["main"].event = Connected(d)]
    /\ UNCHANGED <<server, alive, events, role, late, cut, hasty>>

(* Threads that read from a descriptor of -1, or use a session that was     *)
(* freed, may end the process.                                              *)
Crashes ==
    /\ running
    /\ cut # {} \/ late
    /\ running' = FALSE
    /\ UNCHANGED <<keyHash, mode, table, contexts, alive, device, events, role, thread, history>>

-----------------------------------------------------------------------------
(* The end of run_as_backup: the two walks.                                 *)

RoleLeavesLoop ==
    /\ running
    /\ role.at = "backup"
    /\ mode = "BACKUP_MANAGER"
    /\ role' = [role EXCEPT !.at = "awaiting"]
    /\ UNCHANGED <<server, alive, device, events, thread, history>>

(* As many replicas have connected as there were; they may never do.        *)
ReplicasReturn ==
    /\ running
    /\ role.at = "awaiting"
    /\ role' = [role EXCEPT !.at = "bucket"]
    /\ UNCHANGED <<server, alive, device, events, thread, history>>

(* Mutant: the walk goes on behind the last bucket.                         *)
OneBucketMore(walk, then) ==
    IF role.bucket > Buckets THEN [role EXCEPT !.at = then, !.bucket = 1]
                             ELSE [role EXCEPT !.at = walk, !.bucket = @ + 1]

NextBucket(walk, then) ==
    IF role.bucket = Buckets THEN [role EXCEPT !.at = then, !.bucket = 1]
                             ELSE [role EXCEPT !.at = walk, !.bucket = @ + 1]

WalkLocksBucket ==
    /\ running
    /\ role.at = "bucket"
    /\ role' = IF table[role.bucket] = <<>> THEN NextBucket("bucket", "free")
               ELSE [role EXCEPT !.at = "context", !.node = 1]
    /\ UNCHANGED <<server, alive, device, events, thread, history>>

WalkLocksContext ==
    /\ running
    /\ role.at = "context"
    /\ role' = [role EXCEPT !.at = "slot", !.slot = 1]
    /\ UNCHANGED <<server, alive, device, events, thread, history>>

AfterContext ==
    IF role.node < Len(table[role.bucket]) THEN [role EXCEPT !.at = "context", !.node = @ + 1]
                                           ELSE NextBucket("bucket", "free")

(* Mutant: the first client that cannot be reached ends it for the context. *)
AfterSlotOrFailure(reached) ==
    IF role.slot < MAX_SESSIONS /\ reached THEN [role EXCEPT !.slot = @ + 1] ELSE AfterContext

AfterSlot(reached) ==
    IF role.slot < MAX_SESSIONS THEN [role EXCEPT !.slot = @ + 1] ELSE AfterContext

(* A client that is not there refuses the connection; the walk goes on.     *)
WalkNotifies ==
    LET session == contexts[table[role.bucket][role.node]].sessions[role.slot]
        there == session # NULL => device[session.device] \notin {"left", "gone"}
    IN  /\ running
        /\ role.at = "slot"
        /\ device' = IF session # NULL /\ there
                     THEN [device EXCEPT ![session.device] = "told"] ELSE device
        /\ role' = AfterSlot(there)
        /\ UNCHANGED <<server, alive, events, thread, history>>

(* Mutant: the slots keep the sessions that were freed.                     *)
SlotsKept(sessions) == sessions

SlotsAfterFree(sessions) == [i \in Slots |-> NULL]

InBucket(c) == \E i \in DOMAIN table[role.bucket] : table[role.bucket][i] = c

WalkFrees ==
    LET theirs == {c \in ContextIds : InBucket(c)}
        serves(c, d) == \E i \in Slots : contexts[c].sessions[i] = [device |-> d, threads |-> "client"]
    IN  /\ running
        /\ role.at = "free"
        /\ contexts' = [c \in ContextIds |-> IF c \in theirs
                           THEN [contexts[c] EXCEPT !.sessions = SlotsAfterFree(@)]
                           ELSE contexts[c]]
        /\ cut' = cut \cup {d \in Devices : \E c \in theirs : serves(c, d)}
        /\ role' = NextBucket("free", "manager")
        /\ UNCHANGED <<running, keyHash, mode, table, alive, device, events, thread, late, hasty, met>>

-----------------------------------------------------------------------------
ConnStep == ConnReads \/ Searches("conn") \/ Inserts("conn") \/ EventEnters \/ EventLeaves

MainStep ==
    \/ \E d \in Devices : MainAccepts(d)
    \/ Searches("main")
    \/ Inserts("main")
    \/ ClientEnters

RoleStep ==
    \/ RoleLeavesLoop
    \/ ReplicasReturn
    \/ WalkLocksBucket
    \/ WalkLocksContext
    \/ WalkNotifies
    \/ WalkFrees

Next ==
    \/ \E d \in Devices :
          \/ OldManagerAccepts(d)
          \/ OldManagerLetsGo(d)
          \/ DeviceDies(d)
    \/ OldManagerDies
    \/ Promoted
    \/ ConnStep
    \/ MainStep
    \/ RoleStep
    \/ Crashes

Spec == Init /\ [][Next]_vars

-----------------------------------------------------------------------------
(* A user has one context, though it is searched for and inserted in two    *)
(* steps by two threads: the sessions of a user always see each other.  All *)
(* it takes to break this is a client that nobody sent, in the moment in    *)
(* which the connection thread handles the first event of its user          *)
(* (connectionManagement.c:36-44, server.c:270-281).                        *)
OneContext ==
    met \/ \A b, c \in ContextIds : contexts[b].user = contexts[c].user => b = c

Collision == \E u, v \in Users : u # v /\ keyHash[u] = keyHash[v]

(* The hand-over kills the server only when two users share a bucket, when  *)
(* an event was handled after the promotion, when a session was freed in    *)
(* use, or when a user may have two contexts.                               *)
DiesOnlyOfThese == ~running => Collision \/ late \/ cut # {} \/ met

(* The sessions that are freed are those of clients that nobody serves, and *)
(* leave every client its slot, if the new manager serves none before the   *)
(* walks are over (server.c:61-93, connectionManagement.c:181-215).         *)
PatienceRewarded ==
    ~hasty => cut = {} /\ \A d \in Devices : device[d] # "turned_away"

Known(d) == \E c \in ContextIds : \E i \in Slots :
                contexts[c].sessions[i] # NULL /\ contexts[c].sessions[i].device = d
                                               /\ contexts[c].sessions[i].threads = "none"

Unserved(d) == device[d] \in {"here", "waiting"}

(* No client loses the session that the new manager has inherited, or gave  *)
(* it when it was a backup, before it was told where to go: when the walk   *)
(* that frees the sessions begins, the other has come by every one of them, *)
(* whoever was gone or came and whatever events were handled meanwhile      *)
(* (connectionManagement.c:217-267, serverRoles.c:579-581).                 *)
ToldBeforeFreed ==
    role.at \in {"free", "manager"} => \A d \in Devices : Known(d) => ~Unserved(d)
=============================================================================
