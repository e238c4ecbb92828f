------------------------------- MODULE Sessions -------------------------------
(***************************************************************************)
(* The sessions of one user at the manager (server/server.c,                *)
(* util/connectionManagement.c), and what a backup makes of the events that *)
(* tell it of them (server/serverRoles.c).                                  *)
(*                                                                          *)
(* The main thread accepts clients one at a time and gives each a slot of   *)
(* the user's context; three threads serve a session.  A thread that has    *)
(* changed a file walks the slots without the lock of the context and adds  *)
(* an entry to the sync buffer of every other session; then the backups are *)
(* told.  The sync buffer is taken as the bounded channel that              *)
(* FileSyncBuffer implements.                                               *)
(***************************************************************************)
EXTENDS Integers, Sequences, FiniteSets

CONSTANTS
    Clients,        \* devices of the user, each of which connects once
    None,           \* an empty slot
    MAX_SESSIONS,
    Capacity,       \* entries that a sync buffer holds
    MaxChanges,     \* bound: uploads and deletions
    Room            \* events that the connection to the backup holds unread

ASSUME ClientsAssumption == IsFiniteSet(Clients) /\ None \notin Clients
ASSUME SlotsAssumption == MAX_SESSIONS \in Nat \ {0}
ASSUME BoundsAssumption == Capacity \in Nat \ {0} /\ MaxChanges \in Nat /\ Room \in Nat \ {0}

VARIABLES
    up,             \* the manager has not crashed
    client,         \* how far each client has come
    main,           \* the main thread, and the client it is busy with
    sessions,       \* UserContext.sessions
    index,          \* Session.session_index
    active,         \* Session.active
    freed,          \* the Session has been given back to malloc
    closed,         \* the sockets of the session are closed
    buffer,         \* its sync buffer: who changed the file of each entry
    thread,         \* where its threads are
    changes,        \* how many there were
    owed,           \* history: sessions that a walk has still to reach
    events,         \* on the way to the backup
    backup_up,
    backup_sessions

manager == <<main, sessions, index, active, freed, closed, buffer, thread, changes, owed>>
backup == <<backup_up, backup_sessions>>
vars == <<up, client, manager, events, backup>>

Slots == 1 .. MAX_SESSIONS
Threads == {"interface", "receive", "send"}
Changers == {"interface", "receive"}
ClientPlaces == {"knocking", "answered", "connected", "exiting", "gone"}
MainPlaces == {"accepting", "transfer", "interface", "receive", "send", "publish"}
Places == {"none", "loop", "call", "reading", "chunk", "fan", "add", "event", "close",
           "join receive", "join send", "unlink", "notify", "free", "done"}
Events == [type : {"CONNECTED", "FILE", "DISCONNECTED"}, client : Clients]

TypeOK ==
    /\ up \in BOOLEAN
    /\ client \in [Clients -> ClientPlaces]
    /\ main \in [at : MainPlaces, client : Clients \cup {None}]
    /\ sessions \in [Slots -> Clients \cup {None}]
    /\ index \in [Clients -> Slots]
    /\ active \in [Clients -> BOOLEAN]
    /\ freed \in [Clients -> BOOLEAN]
    /\ closed \in [Clients -> BOOLEAN]
    /\ buffer \in [Clients -> Seq(Clients)]
    /\ thread \in [Clients -> [Threads ->
                     [at : Places, slot : 1 .. MAX_SESSIONS + 1, to : Clients \cup {None}]]]
    /\ changes \in 0 .. MaxChanges
    /\ owed \in [Clients -> [Changers -> SUBSET Clients]]
    /\ events \in Seq(Events)
    /\ backup_up \in BOOLEAN
    /\ backup_sessions \in [Slots -> Clients \cup {None}]

Place(p) == [at |-> p, slot |-> 1, to |-> None]

Init ==
    /\ up = TRUE
    /\ client = [c \in Clients |-> "knocking"]
    /\ main = [at |-> "accepting", client |-> None]
    /\ sessions = [i \in Slots |-> None]
    /\ index = [c \in Clients |-> 1]
    /\ active = [c \in Clients |-> FALSE]
    /\ freed = [c \in Clients |-> FALSE]
    /\ closed = [c \in Clients |-> FALSE]
    /\ buffer = [c \in Clients |-> <<>>]
    /\ thread = [c \in Clients |-> [t \in Threads |-> Place("none")]]
    /\ changes = 0
    /\ owed = [c \in Clients |-> [t \in Changers |-> {}]]
    /\ events = <<>>
    /\ backup_up = TRUE
    /\ backup_sessions = [i \in Slots |-> None]

-----------------------------------------------------------------------------
(* The client, as far as the manager can tell.                              *)

ClientGoes(c, from, to) ==
    /\ up
    /\ client[c] \in from
    /\ client' = [client EXCEPT ![c] = to]
    /\ UNCHANGED <<up, manager, events, backup>>

ClientExits(c) == ClientGoes(c, {"connected"}, "exiting")

(* After its EXIT, or without a word.                                       *)
ClientEnds(c) == ClientGoes(c, {"exiting"}, "gone")
ClientDies(c) == ClientGoes(c, {"answered", "connected"}, "gone")

-----------------------------------------------------------------------------
(* The main thread.                                                         *)

(* notify_replicas.  It waits for a backup that has not read the last ones. *)
Tell(type, c) ==
    /\ backup_up => Len(events) < Room
    /\ events' = IF backup_up THEN Append(events, [type |-> type, client |-> c]) ELSE events

MainAt(place) == up /\ main.at = place

MainGoes(place) == main' = [main EXCEPT !.at = place]

(* ANSWER_OK goes out before anything is known of a free slot.              *)
MainAccepts(c) ==
    /\ MainAt("accepting")
    /\ client[c] = "knocking"
    /\ client' = [client EXCEPT ![c] = "answered"]
    /\ main' = [at |-> "transfer", client |-> c]
    /\ UNCHANGED <<up, sessions, index, active, freed, closed, buffer, thread, changes, owed,
                   events, backup>>

Free(slots) == {i \in Slots : slots[i] = None}

(* Mutant: the context is unlocked before the session is in its slot.       *)
UnlockedToPublish == main.at \in {"interface", "receive", "send"}

(* The context is locked from here to the publication of the session, by    *)
(* nobody else for longer than a step.                                      *)
Locked == main.at \notin {"accepting", "transfer"}

FirstFree(slots) == {i \in Free(slots) : \A j \in Free(slots) : i <= j}

(* The client connects its sockets for transfers.  One that died before     *)
(* leaves the main thread waiting for them.                                 *)
MainCreates ==
    LET c == main.client IN
    /\ MainAt("transfer")
    /\ client[c] = "answered"
    /\ client' = [client EXCEPT ![c] = "connected"]
    /\ IF Free(sessions) = {}
       THEN /\ main' = [at |-> "accepting", client |-> None]
            /\ UNCHANGED <<index, active, events>>
       ELSE /\ \E i \in FirstFree(sessions) : index' = [index EXCEPT ![c] = i]
            /\ active' = [active EXCEPT ![c] = TRUE]
            /\ Tell("CONNECTED", c)
            /\ MainGoes("interface")
    /\ UNCHANGED <<up, sessions, freed, closed, buffer, thread, changes, owed, backup>>

(* Where a thread begins, and is after each change.  Only the interface     *)
(* thread ends a session, so it never finds it ended at the head of its loop.*)
Resting(t) == Place(IF t = "interface" THEN "reading" ELSE "loop")

Following(place) ==
    CASE place = "interface" -> "send" [] place = "send" -> "receive" [] place = "receive" -> "publish"

(* pthread_create for the interface, the sending and the receiving thread.  *)
MainStarts(t) ==
    /\ MainAt(t)
    /\ thread' = [thread EXCEPT ![main.client][t] = Resting(t)]
    /\ MainGoes(Following(t))
    /\ UNCHANGED <<up, client, sessions, index, active, freed, closed, buffer, changes, owed,
                   events, backup>>

MainPublishes ==
    /\ MainAt("publish")
    /\ sessions' = [sessions EXCEPT ![index[main.client]] = main.client]
    /\ main' = [at |-> "accepting", client |-> None]
    /\ UNCHANGED <<up, client, index, active, freed, closed, buffer, thread, changes, owed,
                   events, backup>>

-----------------------------------------------------------------------------
(* Threads of a session.                                                    *)

At(c, t, place) == up /\ thread[c][t].at = place

Goes(c, t, place) == thread' = [thread EXCEPT ![c][t] = Place(place)]

(* The manager dies of a null pointer, of a read that failed or of memory   *)
(* that is not its own any more.                                            *)
Dies == up' = FALSE /\ UNCHANGED <<client, manager, events, backup>>

(* A walk over the slots, by a thread that has changed a file.              *)
Walks(c, t) ==
    /\ Goes(c, t, "fan")
    /\ owed' = [owed EXCEPT ![c][t] =
                  {d \in Clients \ {c} : \E i \in Slots : sessions[i] = d}]

(* Mutant: the last slot is left out.                                       *)
LastButOne == MAX_SESSIONS - 1

LastSlot == MAX_SESSIONS

(* send_file_to_session looks into the slot twice.                          *)
FanLooks(c, t) ==
    LET i == thread[c][t].slot IN
    /\ At(c, t, "fan")
    /\ thread' = [thread EXCEPT ![c][t] =
          IF i > LastSlot THEN Place("event")
          ELSE IF i = index[c] \/ sessions[i] = None THEN [@ EXCEPT !.slot = i + 1]
          ELSE [@ EXCEPT !.at = "add"]]
    /\ UNCHANGED <<up, client, main, sessions, index, active, freed, closed, buffer, changes,
                   owed, events, backup>>

FanLooksAgain(c, t) ==
    LET i == thread[c][t].slot IN
    /\ At(c, t, "add")
    /\ thread[c][t].to = None
    /\ \/ /\ sessions[i] = None
          /\ Dies
       \/ /\ sessions[i] # None
          /\ thread' = [thread EXCEPT ![c][t].to = sessions[i]]
          /\ UNCHANGED <<up, client, main, sessions, index, active, freed, closed, buffer,
                         changes, owed, events, backup>>

(* To the next slot.                                                        *)
Onward(c, t) == [at |-> "fan", slot |-> thread[c][t].slot + 1, to |-> None]

(* A full buffer is waited for, also when nobody takes from it any more.    *)
FanAdds(c, t) ==
    LET d == thread[c][t].to IN
    /\ At(c, t, "add")
    /\ d # None
    /\ ~freed[d]
    /\ Len(buffer[d]) < Capacity
    /\ buffer' = [buffer EXCEPT ![d] = Append(@, c)]
    /\ thread' = [thread EXCEPT ![c][t] = Onward(c, t)]
    /\ owed' = [owed EXCEPT ![c][t] = @ \ {d}]
    /\ UNCHANGED <<up, client, main, sessions, index, active, freed, closed, changes, events,
                   backup>>

(* The session was freed after the slot was read.  (A thread that waits in  *)
(* it goes on waiting.)                                                     *)
FanAddsToFreed(c, t) ==
    /\ At(c, t, "add")
    /\ thread[c][t].to # None
    /\ freed[thread[c][t].to]
    /\ \/ Dies
       \/ /\ thread' = [thread EXCEPT ![c][t] = Onward(c, t)]
          /\ UNCHANGED <<up, client, main, sessions, index, active, freed, closed, buffer,
                         changes, owed, events, backup>>

FileEvent(c, t) ==
    /\ At(c, t, "event")
    /\ Tell("FILE", c)
    /\ thread' = [thread EXCEPT ![c][t] = Resting(t)]
    /\ UNCHANGED <<up, client, main, sessions, index, active, freed, closed, buffer, changes,
                   owed, backup>>

FanStep(c, t) ==
    \/ FanLooks(c, t) \/ FanLooksAgain(c, t) \/ FanAdds(c, t) \/ FanAddsToFreed(c, t)
    \/ FileEvent(c, t)

-----------------------------------------------------------------------------
(* interface.                                                               *)

(* DELETE: of a file that is in the list of the user, or of one that is     *)
(* only on the disk.                                                        *)
InterfaceDeletes(c) ==
    /\ At(c, "interface", "reading")
    /\ client[c] = "connected"
    /\ changes < MaxChanges
    /\ changes' = changes + 1
    /\ \/ Walks(c, "interface")
       \/ Goes(c, "interface", "event") /\ UNCHANGED owed
    /\ UNCHANGED <<up, client, main, sessions, index, active, freed, closed, buffer, events,
                   backup>>

(* EXIT, or the end of the connection.                                      *)
InterfaceExits(c) ==
    /\ At(c, "interface", "reading")
    /\ client[c] \in {"exiting", "gone"}
    /\ active' = [active EXCEPT ![c] = FALSE]
    /\ Goes(c, "interface", "close")
    /\ UNCHANGED <<up, client, main, sessions, index, freed, closed, buffer, changes, owed,
                   events, backup>>

(* A client that ends with a reply unread resets the connection.            *)
InterfaceReset(c) ==
    /\ At(c, "interface", "reading")
    /\ client[c] = "gone"
    /\ Dies

InterfaceCloses(c) ==
    /\ At(c, "interface", "close")
    /\ closed' = [closed EXCEPT ![c] = TRUE]
    /\ Goes(c, "interface", "join receive")
    /\ UNCHANGED <<up, client, main, sessions, index, active, freed, buffer, changes, owed,
                   events, backup>>

(* Mutant: the threads are detached instead of joined.                      *)
NotJoined(c, t) == TRUE

Joinable(c, t) == thread[c][t].at = "done"

(* The main thread may not have created the thread yet; then what stands in *)
(* its place is waited for in vain, not at all, or to death.                *)
InterfaceJoins(c, t, next) ==
    /\ thread[c][t].at = "none" \/ Joinable(c, t)
    /\ Goes(c, "interface", next)
    /\ UNCHANGED <<up, client, main, sessions, index, active, freed, closed, buffer, changes,
                   owed, events, backup>>

InterfaceJoinsReceive(c) ==
    At(c, "interface", "join receive") /\ InterfaceJoins(c, "receive", "join send")

InterfaceJoinsSend(c) ==
    At(c, "interface", "join send") /\ InterfaceJoins(c, "send", "unlink")

InterfaceJoinsGarbage(c) ==
    /\ \/ At(c, "interface", "join receive") /\ thread[c]["receive"].at = "none"
       \/ At(c, "interface", "join send") /\ thread[c]["send"].at = "none"
    /\ Dies

Leaving(d) == [c \in Clients |-> [t \in Changers |-> owed[c][t] \ {d}]]

InterfaceUnlinks(c) ==
    /\ At(c, "interface", "unlink")
    /\ ~Locked
    /\ sessions' = [sessions EXCEPT ![index[c]] = None]
    /\ owed' = Leaving(c)
    /\ Goes(c, "interface", "notify")
    /\ UNCHANGED <<up, client, main, index, active, freed, closed, buffer, changes, events,
                   backup>>

(* With the context unlocked already.                                       *)
InterfaceNotifies(c) ==
    /\ At(c, "interface", "notify")
    /\ Tell("DISCONNECTED", c)
    /\ Goes(c, "interface", "free")
    /\ UNCHANGED <<up, client, main, sessions, index, active, freed, closed, buffer, changes,
                   owed, backup>>

InterfaceFrees(c) ==
    /\ At(c, "interface", "free")
    /\ freed' = [freed EXCEPT ![c] = TRUE]
    /\ Goes(c, "interface", "done")
    /\ UNCHANGED <<up, client, main, sessions, index, active, closed, buffer, changes, owed,
                   events, backup>>

InterfaceStep(c) ==
    \/ InterfaceExits(c)
    \/ InterfaceReset(c)
    \/ InterfaceCloses(c)
    \/ InterfaceJoinsReceive(c)
    \/ InterfaceJoinsSend(c)
    \/ InterfaceJoinsGarbage(c)
    \/ InterfaceUnlinks(c)
    \/ InterfaceNotifies(c)
    \/ InterfaceFrees(c)

-----------------------------------------------------------------------------
(* send_f, and the channel it reads.                                        *)

Sends(c) ==
    /\ At(c, "send", "loop")
    /\ active[c]
    /\ buffer[c] # <<>>
    /\ buffer' = [buffer EXCEPT ![c] = Tail(@)]
    /\ UNCHANGED <<up, client, main, sessions, index, active, freed, closed, thread, changes,
                   owed, events, backup>>

SendStops(c) ==
    /\ At(c, "send", "loop")
    /\ ~active[c]
    /\ Goes(c, "send", "done")
    /\ UNCHANGED <<up, client, main, sessions, index, active, freed, closed, buffer, changes,
                   owed, events, backup>>

SendStep(c) == Sends(c) \/ SendStops(c)

-----------------------------------------------------------------------------
(* receive.                                                                 *)

ReceiveLoop(c) ==
    /\ At(c, "receive", "loop")
    /\ Goes(c, "receive", IF active[c] THEN "call" ELSE "done")
    /\ UNCHANGED <<up, client, main, sessions, index, active, freed, closed, buffer, changes,
                   owed, events, backup>>

(* A read that has begun goes on after the socket is closed; one that       *)
(* begins then fails, and read_packet returns NULL.                         *)
ReceiveCalls(c) ==
    /\ At(c, "receive", "call")
    /\ IF closed[c]
       THEN Dies
       ELSE /\ Goes(c, "receive", "reading")
            /\ UNCHANGED <<up, client, main, sessions, index, active, freed, closed, buffer,
                           changes, owed, events, backup>>

(* The announcement of a file, or a deletion.                               *)
ReceiveBegins(c) ==
    /\ At(c, "receive", "reading")
    /\ client[c] \in {"connected", "exiting"}
    /\ changes < MaxChanges
    /\ changes' = changes + 1
    /\ Goes(c, "receive", "chunk")
    /\ UNCHANGED <<up, client, main, sessions, index, active, freed, closed, buffer, owed,
                   events, backup>>

ReceiveEnds(c) ==
    /\ At(c, "receive", "reading")
    /\ client[c] = "gone"
    /\ Goes(c, "receive", "done")
    /\ UNCHANGED <<up, client, main, sessions, index, active, freed, closed, buffer, changes,
                   owed, events, backup>>

ReceiveFails(c) ==
    /\ At(c, "receive", "chunk")
    /\ closed[c]
    /\ Dies

(* The file is whole, or taken for whole at the end of the connection.      *)
(* Other sessions hear of it if this one is still active and it is new to   *)
(* the list, or not what the list has of it.                                *)
ReceiveFile(c) ==
    /\ At(c, "receive", "chunk")
    /\ \/ active[c] /\ Walks(c, "receive")
       \/ Goes(c, "receive", "event") /\ UNCHANGED owed
    /\ UNCHANGED <<up, client, main, sessions, index, active, freed, closed, buffer, changes,
                   events, backup>>

ReceiveStep(c) ==
    ReceiveLoop(c) \/ ReceiveCalls(c) \/ ReceiveEnds(c) \/ ReceiveFails(c) \/ ReceiveFile(c)

(* A thread that was not waited for finds its session gone.                 *)
OwnSessionFreed(c, t) ==
    /\ freed[c]
    /\ At(c, t, "loop")
    /\ Dies

-----------------------------------------------------------------------------
(* The connection thread of a backup.  (What it reads after a crash of the  *)
(* manager it may have read before.)                                        *)

BackupHas(c) == \E i \in Slots : backup_sessions[i] = c

Received(type, c) ==
    /\ up
    /\ backup_up
    /\ events # <<>>
    /\ Head(events) = [type |-> type, client |-> c]
    /\ events' = Tail(events)

(* Without a free slot the session is turned away.                          *)
BackupConnected(c) ==
    /\ Received("CONNECTED", c)
    /\ IF Free(backup_sessions) = {}
       THEN UNCHANGED backup_sessions
       ELSE \E i \in FirstFree(backup_sessions) :
               backup_sessions' = [backup_sessions EXCEPT ![i] = c]
    /\ UNCHANGED <<up, client, manager, backup_up>>

BackupFile(c) ==
    /\ Received("FILE", c)
    /\ BackupHas(c)
    /\ UNCHANGED <<up, client, manager, backup>>

(* Mutant: the session is marked inactive and stays in its slot.            *)
Kept(c) == backup_sessions

Without(c) == [i \in Slots |-> IF backup_sessions[i] = c THEN None ELSE backup_sessions[i]]

BackupDisconnected(c) ==
    /\ Received("DISCONNECTED", c)
    /\ BackupHas(c)
    /\ backup_sessions' = Without(c)
    /\ UNCHANGED <<up, client, manager, backup_up>>

(* An event of a session that is not there is the end of the backup.        *)
BackupDies(c) ==
    /\ Received("FILE", c) \/ Received("DISCONNECTED", c)
    /\ ~BackupHas(c)
    /\ backup_up' = FALSE
    /\ UNCHANGED <<up, client, manager, backup_sessions>>

BackupStep(c) == BackupConnected(c) \/ BackupFile(c) \/ BackupDisconnected(c) \/ BackupDies(c)

-----------------------------------------------------------------------------
MainStep ==
    \/ \E c \in Clients : MainAccepts(c)
    \/ MainCreates
    \/ \E t \in Threads : MainStarts(t)
    \/ MainPublishes

Next ==
    \/ \E c \in Clients :
          \/ ClientExits(c)
          \/ ClientEnds(c)
          \/ ClientDies(c)
          \/ InterfaceDeletes(c)
          \/ InterfaceStep(c)
          \/ SendStep(c)
          \/ ReceiveBegins(c)
          \/ ReceiveStep(c)
          \/ \E t \in Changers : FanStep(c, t)
          \/ \E t \in {"receive", "send"} : OwnSessionFreed(c, t)
          \/ BackupStep(c)
    \/ MainStep

Spec == Init /\ [][Next]_vars

Fairness ==
    /\ \A c \in Clients :
          /\ WF_vars(ClientEnds(c))
          /\ WF_vars(InterfaceStep(c))
          /\ WF_vars(SendStep(c))
          /\ WF_vars(ReceiveStep(c))
          /\ \A t \in Changers : WF_vars(FanStep(c, t))
          /\ WF_vars(BackupStep(c))
    /\ WF_vars(MainStep)

FairSpec == Spec /\ Fairness

-----------------------------------------------------------------------------
(* A slot holds a session that lives, and the session knows its slot: what  *)
(* another thread finds there was not freed when it looked                  *)
(* (server.c:91, 544-549, 565).                                             *)
SlotsLive ==
    up => \A i \in Slots : sessions[i] # None => ~freed[sessions[i]] /\ index[sessions[i]] = i

(* A session is freed when its threads have nothing left to do, even if it  *)
(* ended before the main thread had created them (server.c:85-91, 539-541). *)
FreedIdle ==
    up => \A c \in Clients :
       freed[c] =>
          /\ thread[c]["receive"].at \in {"none", "loop", "done"}
          /\ thread[c]["send"].at \in {"none", "loop", "done"}
          /\ ~active[c]

(* Events of a client reach the backup between its CONNECTED and its        *)
(* DISCONNECTED, although three threads send them (server.c:81, 519, 551,   *)
(* 678).                                                                    *)
EventsInOrder ==
    \A k \in 1 .. Len(events) :
       LET c == events[k].client IN
       /\ events[k].type = "CONNECTED" =>
             \A l \in 1 .. Len(events) : events[l].client = c => k <= l
       /\ events[k].type = "DISCONNECTED" =>
             \A l \in 1 .. Len(events) : events[l].client = c => l <= k

(* A backup that holds the session of a client that has left will still be  *)
(* told so (server.c:545-551, serverRoles.c:285-291).                       *)
NoGhosts ==
    up /\ backup_up => \A c \in Clients : BackupHas(c) /\ freed[c] =>
       \E k \in 1 .. Len(events) : events[k] = [type |-> "DISCONNECTED", client |-> c]

(* When a walk is over, every session that was in a slot when it began, and *)
(* has not left, was given the change (server.c:426-430, 639-658).          *)
EveryoneIsTold ==
    up => \A c \in Clients, t \in Changers : thread[c][t].at = "event" => owed[c][t] = {}

(* A session that the manager frees is gone from a backup that lives.       *)
BackupFollows ==
    \A c \in Clients :
       freed[c] ~> ~up \/ ~backup_up \/ ~BackupHas(c)

-----------------------------------------------------------------------------
(* "Maximo de sessoes atingidas para o user" (server.c:67): a backup that   *)
(* turns a session away does so because the user has MAX_SESSIONS others.   *)
TurnedAwayAtMax ==
    [][\A c \in Clients :
          BackupConnected(c) /\ Free(backup_sessions) = {} =>
             Cardinality({d \in Clients \ {c} : active[d]}) >= MAX_SESSIONS]_vars
=============================================================================
