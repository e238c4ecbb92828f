------------------------------- MODULE Replicas -------------------------------
(***************************************************************************)
(* The forming of the group and the stream of events to its backups: the    *)
(* manager's list of replicas in memory and its mutex, the threads that     *)
(* walk it to send heartbeats, files and news of other replicas, and what a *)
(* backup makes of the packets it reads (replica.c, communication.c, the    *)
(* listener and the connection thread of serverRoles.c).                    *)
(*                                                                          *)
(* An event is one packet, but a file is announced with the number of the   *)
(* packets that follow it, and a deletion is followed by another packet.    *)
(* send_replicas_data_to_new_replica walks the list without its mutex and   *)
(* then unlocks it.  A use of freed memory ends the manager; nothing that   *)
(* it might do instead is followed.                                         *)
(***************************************************************************)
EXTENDS Integers, Sequences, FiniteSets

CONSTANTS
    Backups,      \* servers that join the manager, each once
    NULL,
    MaxChunks,    \* bound: packets that a file takes
    MaxFiles,     \* bound: files that users upload or delete
    MaxCrashes,   \* bound: backups that crash
    Room          \* packets that a connection holds before a send blocks

ASSUME NullAssumption == NULL \notin Backups \cup {"heartbeat", "listener", "user"}
ASSUME BackupsAssumption == IsFiniteSet(Backups)
ASSUME BoundsAssumption == /\ MaxChunks \in Nat
                           /\ MaxFiles \in Nat
                           /\ MaxCrashes \in Nat
                           /\ Room \in Nat \ {0}

VARIABLES
    running,         \* the manager has not died
    owner,           \* replica_list_mutex: who locked it
    head, next,      \* the list, its nodes named after their replicas
    freed,           \* nodes that were freed
    replica_count,
    writer,          \* the threads that write to replicas
    arriving,        \* connections that the listener has not accepted
    file,            \* packets that the file in the user's folder takes
    files,           \* files uploaded or deleted so far
    backup,          \* the connection thread of a backup
    wire,            \* from the manager to a backup
    peers,           \* replicas that a backup has connected to
    misread,         \* history: backups that took a packet for another
    mingled,         \* history: newcomers told of a replica in the middle of a file
    altered,         \* history: a file changed while it was sent
    breached         \* history: the listener unlocked another thread's mutex

list == <<head, next, freed, replica_count>>
history == <<misread, mingled, altered, breached>>
backups == <<backup, wire, peers>>
disk == <<file, files>>
vars == <<running, owner, list, writer, arriving, disk, backups, history>>

Writers == {"heartbeat", "listener", "user"}
Nodes == Backups \cup {NULL}
NoFile == -1

Kinds == {"HEARTBEAT", "REPLICA_ADDED", "FILE_UPLOADED", "FILE_DELETED"}
Event(kind, b) == [type |-> "event", kind |-> kind, about |-> b, packets |-> 0]
Packet(type, n) == [type |-> type, kind |-> "none", about |-> NULL, packets |-> n]
Packets == {p \in [type : {"event", "send", "data", "delete"}, kind : Kinds \cup {"none"},
                   about : Nodes, packets : Nat] : p.kind = "REPLICA_ADDED" => p.about # NULL}

WriterPlaces == {"idle", "insert", "count", "lock", "node", "open", "chunks", "delete", "tell"}
Idle == [at |-> "idle", kind |-> "HEARTBEAT", new |-> NULL, current |-> NULL, prev |-> NULL,
         size |-> 0, sent |-> 0]
Work == {t \in [at : WriterPlaces, kind : Kinds, new : Nodes, current : Nodes, prev : Nodes,
                size : 0 .. MaxChunks, sent : Nat] : t.kind = "REPLICA_ADDED" => t.new # NULL}
BackupPlaces == {"out", "loop", "file", "chunks", "down"}
Seat == [at : BackupPlaces, left : Nat]

TypeOK ==
    /\ running \in BOOLEAN
    /\ owner \in Writers \cup {NULL}
    /\ head \in Nodes
    /\ next \in [Backups -> Nodes]
    /\ freed \in SUBSET Backups
    /\ replica_count \in Int
    /\ writer \in [Writers -> Work]
    /\ arriving \in SUBSET Backups
    /\ file \in {NoFile} \cup 0 .. MaxChunks
    /\ files \in 0 .. MaxFiles
    /\ backup \in [Backups -> Seat]
    /\ wire \in [Backups -> Seq(Packets)]
    /\ peers \in [Backups -> SUBSET Backups]
    /\ misread \in SUBSET Backups
    /\ mingled \in SUBSET Backups
    /\ altered \in BOOLEAN
    /\ breached \in BOOLEAN

Init ==
    /\ running = TRUE
    /\ owner = NULL
    /\ head = NULL
    /\ next = [b \in Backups |-> NULL]
    /\ freed = {}
    /\ replica_count = 0
    /\ writer = [w \in Writers |-> Idle]
    /\ arriving = {}
    /\ file = NoFile
    /\ files = 0
    /\ backup = [b \in Backups |-> [at |-> "out", left |-> 0]]
    /\ wire = [b \in Backups |-> <<>>]
    /\ peers = [b \in Backups |-> {}]
    /\ misread = {}
    /\ mingled = {}
    /\ altered = FALSE
    /\ breached = FALSE

-----------------------------------------------------------------------------
(* Sending.                                                                 *)

At(w, place) == running /\ writer[w].at = place

Goes(w, place) == writer' = [writer EXCEPT ![w].at = place]

Down(b) == backup[b].at = "down"

(* To a peer that has closed the connection, and to one that has not.       *)
Send(b, packet) ==
    IF Down(b)
    THEN UNCHANGED wire
    ELSE /\ Len(wire[b]) < Room
         /\ wire' = [wire EXCEPT ![b] = Append(@, packet)]

(* The node that is looked at was freed.                                    *)
Dangling(w) ==
    /\ running
    /\ writer[w].at \in {"node", "open", "chunks", "delete", "tell"}
    /\ writer[w].current \in freed
    /\ running' = FALSE
    /\ UNCHANGED <<owner, list, writer, arriving, disk, backups, history>>

Sound(w) == writer[w].current # NULL /\ writer[w].current \notin freed

-----------------------------------------------------------------------------
(* The listener and add_replica.                                            *)

ListenerAccepts(b) ==
    /\ At("listener", "idle")
    /\ b \in arriving
    /\ arriving' = arriving \ {b}
    /\ writer' = [writer EXCEPT !["listener"] =
                     [Idle EXCEPT !.at = "insert", !.kind = "REPLICA_ADDED", !.new = b]]
    /\ UNCHANGED <<running, owner, list, disk, backups, history>>

(* Mutant: the new node is linked without the mutex.                        *)
ListenerInsertsUnlocked ==
    LET new == writer["listener"].new
    IN  /\ At("listener", "insert")
        /\ next' = [next EXCEPT ![new] = head]
        /\ head' = new
        /\ Goes("listener", "count")
        /\ UNCHANGED <<running, owner, freed, replica_count, arriving, disk, backups, history>>

(* The new node becomes the head, with the mutex locked.                    *)
ListenerInserts ==
    LET new == writer["listener"].new
    IN  /\ At("listener", "insert")
        /\ owner = NULL
        /\ next' = [next EXCEPT ![new] = head]
        /\ head' = new
        /\ Goes("listener", "count")
        /\ UNCHANGED <<running, owner, freed, replica_count, arriving, disk, backups, history>>

ListenerCounts ==
    /\ At("listener", "count")
    /\ replica_count' = replica_count + 1
    /\ Goes("listener", "lock")
    /\ UNCHANGED <<running, owner, head, next, freed, arriving, disk, backups, history>>

-----------------------------------------------------------------------------
(* Who else notifies: the heartbeat thread, and a user's session.           *)

HeartbeatDue ==
    /\ At("heartbeat", "idle")
    /\ Goes("heartbeat", "lock")
    /\ UNCHANGED <<running, owner, list, arriving, disk, backups, history>>

UserUploads ==
    /\ At("user", "idle")
    /\ files < MaxFiles
    /\ files' = files + 1
    /\ file' \in 0 .. MaxChunks
    /\ writer' = [writer EXCEPT !["user"] = [Idle EXCEPT !.at = "lock", !.kind = "FILE_UPLOADED"]]
    /\ UNCHANGED <<running, owner, list, arriving, backups, history>>

UserDeletes ==
    /\ At("user", "idle")
    /\ files < MaxFiles
    /\ files' = files + 1
    /\ file' = NoFile
    /\ writer' = [writer EXCEPT !["user"] = [Idle EXCEPT !.at = "lock", !.kind = "FILE_DELETED"]]
    /\ UNCHANGED <<running, owner, list, arriving, backups, history>>

(* The user's other session writes the file over, or deletes it.  Who has   *)
(* it open reads on, in a file that was deleted as it was.                  *)
FileChanges ==
    /\ running
    /\ files < MaxFiles
    /\ files' = files + 1
    /\ file' \in {NoFile} \cup 0 .. MaxChunks
    /\ writer' = IF writer["user"].at = "chunks" /\ file' # NoFile
                 THEN [writer EXCEPT !["user"].size = file'] ELSE writer
    /\ altered' = (altered \/ (writer["user"].kind = "FILE_UPLOADED" /\ writer["user"].at # "idle"))
    /\ UNCHANGED <<running, owner, list, arriving, backups, misread, mingled, breached>>

-----------------------------------------------------------------------------
(* notify_replicas.                                                         *)

(* Mutant: the mutex is not locked.                                         *)
NotifyWalks(w) ==
    /\ At(w, "lock")
    /\ writer' = [writer EXCEPT ![w].at = "node", ![w].current = head, ![w].prev = NULL]
    /\ UNCHANGED <<running, owner, list, arriving, disk, backups, history>>

NotifyLocks(w) ==
    /\ At(w, "lock")
    /\ owner = NULL
    /\ owner' = w
    /\ writer' = [writer EXCEPT ![w].at = "node", ![w].current = head, ![w].prev = NULL]
    /\ UNCHANGED <<running, list, arriving, disk, backups, history>>

OnTo(w) == writer' = [writer EXCEPT ![w].at = "node", ![w].prev = writer[w].current,
                                    ![w].current = next[writer[w].current]]

(* The packet of the event.                                                 *)
NotifySends(w) ==
    LET b == writer[w].current
        kind == writer[w].kind
    IN  /\ At(w, "node")
        /\ Sound(w)
        /\ ~Down(b)
        /\ Send(b, Event(kind, writer[w].new))
        /\ CASE kind = "FILE_UPLOADED" -> Goes(w, "open")
             [] kind = "FILE_DELETED" -> Goes(w, "delete")
             [] OTHER -> OnTo(w)
        /\ UNCHANGED <<running, owner, list, arriving, disk, backup, peers, history>>

(* Mutant: the node before the one that is removed is forgotten.            *)
UnlinkAtHead(prev, node) == head' = next[node] /\ UNCHANGED next

(* Mutant: the node is freed, and stays in the list.                        *)
LeftInList(prev, node) == UNCHANGED <<head, next>>

Unlink(prev, node) ==
    IF prev = NULL THEN head' = next[node] /\ UNCHANGED next
                   ELSE next' = [next EXCEPT ![prev] = next[node]] /\ UNCHANGED head

(* The replica has closed the connection: replica_list_remove_node.         *)
NotifyRemoves(w) ==
    LET b == writer[w].current
    IN  /\ At(w, "node")
        /\ Sound(w)
        /\ Down(b)
        /\ Unlink(writer[w].prev, b)
        /\ freed' = freed \cup {b}
        /\ replica_count' = replica_count - 1
        /\ writer' = [writer EXCEPT ![w].current = next[b]]
        /\ UNCHANGED <<running, owner, arriving, disk, backups, history>>

(* send_file: it announces as many packets as the size of the file takes.   *)
NotifyOpens(w) ==
    LET b == writer[w].current
    IN  /\ At(w, "open")
        /\ Sound(w)
        /\ IF file = NoFile
           THEN OnTo(w) /\ UNCHANGED wire
           ELSE /\ Send(b, Packet("send", file))
                /\ writer' = [writer EXCEPT ![w].at = "chunks", ![w].size = file, ![w].sent = 0]
        /\ UNCHANGED <<running, owner, list, arriving, disk, backup, peers, history>>

(* Until the end of the file, wherever that is by then.                     *)
NotifyChunks(w) ==
    LET b == writer[w].current
    IN  /\ At(w, "chunks")
        /\ Sound(w)
        /\ IF writer[w].sent < writer[w].size /\ ~Down(b)
           THEN /\ Send(b, Packet("data", 0))
                /\ writer' = [writer EXCEPT ![w].sent = @ + 1]
           ELSE OnTo(w) /\ UNCHANGED wire
        /\ UNCHANGED <<running, owner, list, arriving, disk, backup, peers, history>>

NotifyDeletes(w) ==
    /\ At(w, "delete")
    /\ Sound(w)
    /\ Send(writer[w].current, Packet("delete", 0))
    /\ OnTo(w)
    /\ UNCHANGED <<running, owner, list, arriving, disk, backup, peers, history>>

(* Mutant: the mutex stays locked.                                          *)
NotifyReturns(w) ==
    /\ At(w, "node")
    /\ writer[w].current = NULL
    /\ Goes(w, IF w = "listener" THEN "tell" ELSE "idle")
    /\ UNCHANGED <<running, owner, list, arriving, disk, backups, history>>

(* pthread_mutex_unlock, whoever has locked the mutex by now.               *)
NotifyUnlocks(w) ==
    /\ At(w, "node")
    /\ writer[w].current = NULL
    /\ owner' = NULL
    /\ writer' = [writer EXCEPT ![w] =
                     IF w = "listener" THEN [@ EXCEPT !.at = "tell", !.current = head] ELSE Idle]
    /\ UNCHANGED <<running, list, arriving, disk, backups, history>>

-----------------------------------------------------------------------------
(* send_replicas_data_to_new_replica: the same list, without the mutex.     *)

(* Between the event of a file and the last of the packets that follow it.  *)
MidFile(b) == \E w \in Writers : writer[w].at \in {"open", "chunks", "delete"}
                                 /\ writer[w].current = b

ListenerTells ==
    LET me == writer["listener"]
    IN  /\ At("listener", "tell")
        /\ Sound("listener")
        /\ Send(me.new, Event("REPLICA_ADDED", me.current))
        /\ mingled' = IF MidFile(me.new) THEN mingled \cup {me.new} ELSE mingled
        /\ writer' = [writer EXCEPT !["listener"].current = next[me.current]]
        /\ UNCHANGED <<running, owner, list, arriving, disk, backup, peers, misread, altered,
                       breached>>

ListenerUnlocks ==
    /\ At("listener", "tell")
    /\ writer["listener"].current = NULL
    /\ owner' = NULL
    /\ breached' = (breached \/ owner # NULL)
    /\ writer' = [writer EXCEPT !["listener"] = Idle]
    /\ UNCHANGED <<running, list, arriving, disk, backups, misread, mingled, altered>>

-----------------------------------------------------------------------------
(* A backup: connect_to_server_thread.                                      *)

BackupConnects(b) ==
    /\ running
    /\ backup[b].at = "out"
    /\ backup' = [backup EXCEPT ![b].at = "loop"]
    /\ arriving' = arriving \cup {b}
    /\ UNCHANGED <<running, owner, list, writer, disk, wire, peers, history>>

BackupCrashes(b) ==
    /\ running
    /\ backup[b].at \notin {"out", "down"}
    /\ Cardinality({c \in Backups : Down(c)} \ misread) < MaxCrashes
    /\ backup' = [backup EXCEPT ![b] = [at |-> "down", left |-> 0]]
    /\ wire' = [wire EXCEPT ![b] = <<>>]
    /\ UNCHANGED <<running, owner, list, writer, arriving, disk, peers, history>>

Reads(b, place) ==
    /\ running
    /\ backup[b].at = place
    /\ wire[b] # <<>>
    /\ wire' = [wire EXCEPT ![b] = Tail(@)]
    /\ UNCHANGED <<running, owner, list, writer, arriving, disk, mingled, altered, breached>>

(* Mutant: the event that names this replica itself is the only one heeded. *)
IsOther(b, other) == other = b

IsOtherReplica(b, other) == other # b

BackupReadsEvent(b) ==
    LET packet == Head(wire[b])
    IN  /\ Reads(b, "loop")
        /\ backup' = [backup EXCEPT ![b].at =
                         IF packet.kind \in {"FILE_UPLOADED", "FILE_DELETED"} THEN "file" ELSE "loop"]
        /\ peers' = IF packet.kind = "REPLICA_ADDED" /\ IsOtherReplica(b, packet.about)
                       /\ ~Down(packet.about)
                    THEN [peers EXCEPT ![b] = @ \cup {packet.about}] ELSE peers
        /\ misread' = IF packet.type = "event" THEN misread ELSE misread \cup {b}

(* handle_incoming_file: another packet than the two has no file's name,    *)
(* and the backup dies of it.                                               *)
BackupReadsFile(b) ==
    LET packet == Head(wire[b])
    IN  /\ Reads(b, "file")
        /\ \/ /\ packet.type \in {"send", "delete"}
              /\ backup' = [backup EXCEPT ![b] =
                               [at |-> IF packet.packets > 0 THEN "chunks" ELSE "loop",
                                left |-> packet.packets]]
              /\ UNCHANGED misread
           \/ /\ packet.type \notin {"send", "delete"}
              /\ backup' = [backup EXCEPT ![b] = [at |-> "down", left |-> 0]]
              /\ misread' = misread \cup {b}
        /\ UNCHANGED peers

(* write_packets_to_file: as many packets as announced, of whatever type.   *)
BackupReadsChunk(b) ==
    /\ Reads(b, "chunks")
    /\ backup' = [backup EXCEPT ![b] =
                     [at |-> IF backup[b].left = 1 THEN "loop" ELSE "chunks",
                      left |-> backup[b].left - 1]]
    /\ misread' = IF Head(wire[b]).type = "data" THEN misread ELSE misread \cup {b}
    /\ UNCHANGED peers

-----------------------------------------------------------------------------
NotifyStep(w) ==
    \/ NotifySends(w)
    \/ NotifyRemoves(w)
    \/ NotifyOpens(w)
    \/ NotifyChunks(w)
    \/ NotifyDeletes(w)
    \/ NotifyUnlocks(w)

BackupStep(b) == BackupReadsEvent(b) \/ BackupReadsFile(b) \/ BackupReadsChunk(b)

ListenerStep ==
    \/ \E b \in Backups : ListenerAccepts(b)
    \/ ListenerInserts
    \/ ListenerCounts
    \/ ListenerTells
    \/ ListenerUnlocks
    \/ NotifyLocks("listener")
    \/ NotifyStep("listener")

HeartbeatStep == HeartbeatDue \/ NotifyLocks("heartbeat") \/ NotifyStep("heartbeat")

Next ==
    \/ ListenerStep
    \/ HeartbeatStep
    \/ UserUploads
    \/ UserDeletes
    \/ NotifyLocks("user")
    \/ NotifyStep("user")
    \/ \E w \in Writers : Dangling(w)
    \/ FileChanges
    \/ \E b \in Backups :
          \/ BackupConnects(b)
          \/ BackupCrashes(b)
          \/ BackupStep(b)

Spec == Init /\ [][Next]_vars

(* A thread that waits for the mutex, or for room in a connection, gets it   *)
(* in time though others take it in between.                                *)
Fairness ==
    /\ SF_vars(ListenerStep)
    /\ SF_vars(HeartbeatStep)
    /\ WF_vars(NotifyStep("user"))
    /\ \A b \in Backups : WF_vars(BackupStep(b))

FairSpec == Spec /\ Fairness

-----------------------------------------------------------------------------
Inside(w) == writer[w].at \in {"node", "open", "chunks", "delete"}

(* Only the thread that holds replica_list_mutex is inside notify_replicas, *)
(* until the listener has unlocked the mutex of another (replica.c:187).    *)
Exclusive == \A w \in Writers : Inside(w) => owner = w \/ breached

(* What a walk along the links comes by from a node, and from the head.     *)
Ahead(link, node) ==
    {b \in Backups :
        \A S \in SUBSET Backups :
           node \in S \cup {NULL} /\ (\A a \in S : link[a] \in S \cup {NULL}) => b \in S}

Reached == Ahead(next, head)

Inserted(b) == backup[b].at # "out" /\ b \notin arriving
               /\ ~(writer["listener"].at = "insert" /\ writer["listener"].new = b)

Members == {b \in Backups : Inserted(b)} \ freed

(* The list holds every replica that joined and was not freed, and          *)
(* replica_count, kept outside the mutex by add_replica and inside it by    *)
(* replica_list_remove_node, is late by the one that is being added.        *)
ListSound ==
    running /\ ~breached =>
       /\ Reached = Members
       /\ replica_count = Cardinality(Reached) - (IF writer["listener"].at = "count" THEN 1 ELSE 0)

(* A backup takes a packet for what it is not only if it was told of a      *)
(* replica, outside the mutex, in the middle of a file, or the file changed *)
(* after its event, or the listener has unlocked the mutex of another       *)
(* thread (replica.c:187): then anybody may get into a file.                *)
InStep == \A b \in misread : b \in mingled \/ altered \/ breached

(* The manager uses freed memory only where it walks its list unlocked.     *)
DanglesOnlyUnlocked == ~running => breached \/ writer["listener"].at = "tell"

Excused(b) == Down(b) \/ b \in misread

(* Of two replicas that joined each hears of the other, and connects to it. *)
GroupForms ==
    \A a, b \in Backups : a # b =>
       ((Inserted(a) /\ Inserted(b)) ~>
           (b \in peers[a] \/ Excused(a) \/ Excused(b) \/ ~running \/ breached))

(* The heartbeat thread, which sends under the mutex, gets it and through   *)
(* the list: no file, newcomer or crash keeps heartbeats back for ever.     *)
HeartbeatsGoOn ==
    writer["heartbeat"].at = "lock" ~> writer["heartbeat"].at = "idle" \/ ~running \/ breached

Gone == {b \in Backups : Down(b)}

Pending == IF owner = NULL THEN {} ELSE Ahead(next, writer[owner].current)

Group == INSTANCE ReplicaGroup WITH
            Replicas <- Backups,
            Threads <- Writers,
            Nobody <- NULL,
            members <- Members,
            former <- freed,
            gone <- Gone,
            notifier <- owner,
            pending <- Pending,
            guarded <- ~breached

(* The list implements a group that a notification has for itself and comes *)
(* by member for member, leaving out nobody and nobody twice, though nodes  *)
(* are unlinked on its way and newcomers wait to be linked.                 *)
ImplementsGroup == Group!Spec
=============================================================================
