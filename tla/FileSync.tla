------------------------------- MODULE FileSync -------------------------------
(***************************************************************************)
(* One file of one user in the directories of the user's devices and in     *)
(* the user's folder at the manager: what a watcher reports, what the       *)
(* manager makes of it with its list of checksums, and what the other       *)
(* devices are sent (client.c, server.c, connectionManagement.c,            *)
(* fileLinkedList.c, communication.c).                                      *)
(*                                                                          *)
(* A directory holds None, an Empty file or a value.  Writing a file        *)
(* truncates it first, so that whoever looks meanwhile finds it Empty.  A   *)
(* file that is received is written like one that a user saves, and         *)
(* reported by the watcher in the same way: every change echoes.            *)
(***************************************************************************)
EXTENDS Sequences, Naturals

CONSTANTS
    Devices,          \* the sessions of the user
    Values,           \* contents of a file that is not empty, of distinct checksums
    Empty,
    None,
    MaxChanges        \* bound: changes the users make

ASSUME NoneAssumption == None \notin Devices \cup Values \cup {Empty}
ASSUME EmptyAssumption == Empty \notin Values
ASSUME BoundsAssumption == MaxChanges \in Nat

VARIABLES
    running,     \* the manager has not died
    local,       \* the file in the directory of a device
    user,        \* what a user is writing there
    receiver,    \* what start_file_receiver_thread is writing there
    events,      \* inotify's queue
    batch,       \* the events the watcher has read and still has to handle
    up,          \* from the watcher to receive
    asked,       \* DELETE packets of the console on the interface socket
    worker,      \* the threads receive and interface of a session
    stored,      \* the file in the user's folder
    file_list,   \* checksums of its entries in the list
    queue,       \* sync_buffer
    down,        \* from send_f to the client's receiver
    changes,     \* changes made by users
    kept,        \* devices whose own copy outlived their "delete" command
    wanted,      \* history: what the last change of a user made of the file
    raced        \* history: the file was looked at or changed under another thread

device == <<local, user, receiver, events, batch>>
wires == <<up, asked, queue, down>>
server == <<worker, stored, file_list>>
vars == <<running, device, wires, server, changes, kept, wanted, raced>>

Contents == Values \cup {Empty}
Files == Contents \cup {None}
Threads == {"receive", "interface"}

(* What a thread that writes a file is at: nothing, a content still to come,*)
(* or a file that was unlinked under it.                                    *)
Writing == [at : {"idle", "writing", "lost"}, data : Files]
NotWriting == [at |-> "idle", data |-> None]
Events == {"create", "write", "delete"}
Places == {"idle", "writing", "lost", "test", "push", "refresh", "send",
           "gone", "unlist", "delete", "remove"}
Message == [type : {"send"}, data : Contents] \cup [type : {"delete"}, data : {None}]

TypeOK ==
    /\ running \in BOOLEAN
    /\ local \in [Devices -> Files]
    /\ user \in [Devices -> Writing]
    /\ receiver \in [Devices -> Writing]
    /\ events \in [Devices -> Seq(Events)]
    /\ batch \in [Devices -> Seq(Events)]
    /\ up \in [Devices -> Seq(Message)]
    /\ asked \in [Devices -> Nat]
    /\ worker \in [Devices -> [Threads -> [at : Places, data : Files]]]
    /\ stored \in Files
    /\ file_list \in Seq(Contents)
    /\ queue \in [Devices -> Seq({"send", "delete"})]
    /\ down \in [Devices -> Seq(Message)]
    /\ changes \in Nat
    /\ kept \in SUBSET Devices
    /\ wanted \in [by : Devices \cup {None}, data : Files]
    /\ raced \in BOOLEAN

Init ==
    /\ running = TRUE
    /\ wanted = [by |-> None, data |-> None]
    /\ local = [d \in Devices |-> None]
    /\ user = [d \in Devices |-> NotWriting]
    /\ receiver = [d \in Devices |-> NotWriting]
    /\ events = [d \in Devices |-> <<>>]
    /\ batch = [d \in Devices |-> <<>>]
    /\ up = [d \in Devices |-> <<>>]
    /\ asked = [d \in Devices |-> 0]
    /\ worker = [d \in Devices |-> [t \in Threads |-> [at |-> "idle", data |-> None]]]
    /\ stored = None
    /\ file_list = <<>>
    /\ queue = [d \in Devices |-> <<>>]
    /\ down = [d \in Devices |-> <<>>]
    /\ changes = 0
    /\ kept = {}
    /\ raced = FALSE

-----------------------------------------------------------------------------
(* A directory that is watched.                                             *)

(* inotify merges an event with the last one queued when they are the same. *)
Notified(d, event) ==
    events' = IF events[d] # <<>> /\ events[d][Len(events[d])] = event THEN events
              ELSE [events EXCEPT ![d] = Append(@, event)]

(* fopen(..., "w").                                                         *)
Truncates(d) ==
    /\ local' = [local EXCEPT ![d] = Empty]
    /\ IF local[d] = None THEN Notified(d, "create") ELSE UNCHANGED events
    /\ kept' = kept \ {d}

(* Mutant: the watch is for IN_CREATE and IN_DELETE alone.                   *)
FillsUnseen(d, writing) ==
    /\ local' = IF writing.at = "lost" THEN local ELSE [local EXCEPT ![d] = writing.data]
    /\ UNCHANGED events

(* fclose.                                                                  *)
Fills(d, writing) ==
    /\ local' = IF writing.at = "lost" THEN local ELSE [local EXCEPT ![d] = writing.data]
    /\ IF writing.at = "lost" THEN UNCHANGED events ELSE Notified(d, "write")

(* A thread that is writing goes on writing to a file without a name.       *)
Orphaned(writing) == IF writing.at = "writing" THEN [writing EXCEPT !.at = "lost"] ELSE writing

Unlinks(d) ==
    /\ local' = [local EXCEPT ![d] = None]
    /\ IF local[d] = None THEN UNCHANGED events ELSE Notified(d, "delete")
    /\ kept' = kept \ {d}

-----------------------------------------------------------------------------
(* What is under way.                                                       *)

ServerIdle ==
    /\ \A d \in Devices, t \in Threads : worker[d][t].at = "idle"
    /\ \A d \in Devices : up[d] = <<>> /\ asked[d] = 0 /\ queue[d] = <<>> /\ down[d] = <<>>

DirectoryIdle(d) ==
    receiver[d].at = "idle" /\ user[d].at = "idle" /\ batch[d] = <<>> /\ events[d] = <<>>

Quiet == ServerIdle /\ \A d \in Devices : DirectoryIdle(d)

(* Nothing but what the watcher of d has still to report.                   *)
Unreported(d) ==
    ServerIdle /\ receiver[d].at = "idle" /\ \A e \in Devices \ {d} : DirectoryIdle(e)

(* Another thread of the manager has the file in hand.                      *)
Busy(d, t) == \E e \in Devices, u \in Threads : <<e, u>> # <<d, t>> /\ worker[e][u].at # "idle"

BeingWritten(d) == receiver[d].at # "idle" \/ user[d].at # "idle"

-----------------------------------------------------------------------------
(* The user, in the directory and at the console.                           *)

ChangesLeft == changes < MaxChanges

(* The last change counts when the users take turns: it was made when       *)
(* nothing was under way, or over what the same device had just written,    *)
(* before any other had to do with that.  Whoever writes while an upload is *)
(* on its way, or comes back as an echo, may see the two cross (client.c:   *)
(* 350); of such changes nothing is said.                                   *)
Wants(d, file, clear) ==
    wanted' = IF clear THEN [by |-> d, data |-> file] ELSE [by |-> None, data |-> None]

InTurn(d) == Quiet \/ (wanted.by = d /\ wanted.data # None /\ Unreported(d))

UserOpens(d, v) ==
    /\ running
    /\ ChangesLeft
    /\ user[d].at = "idle"
    /\ user' = [user EXCEPT ![d] = [at |-> "writing", data |-> v]]
    /\ Truncates(d)
    /\ changes' = changes + 1
    /\ raced' = (raced \/ BeingWritten(d))
    /\ Wants(d, v, InTurn(d))
    /\ UNCHANGED <<running, receiver, batch, wires, server>>

UserCloses(d) ==
    /\ running
    /\ user[d].at # "idle"
    /\ Fills(d, user[d])
    /\ user' = [user EXCEPT ![d] = NotWriting]
    /\ UNCHANGED <<running, receiver, batch, wires, server, changes, kept, wanted, raced>>

UserDeletes(d) ==
    /\ running
    /\ ChangesLeft
    /\ local[d] # None
    /\ user[d].at = "idle"
    /\ Unlinks(d)
    /\ receiver' = [receiver EXCEPT ![d] = Orphaned(@)]
    /\ changes' = changes + 1
    /\ raced' = (raced \/ BeingWritten(d))
    /\ Wants(d, None, InTurn(d))
    /\ UNCHANGED <<running, user, batch, wires, server>>

(* The console's delete.                                                    *)
UserAsks(d) ==
    /\ running
    /\ ChangesLeft
    /\ asked' = [asked EXCEPT ![d] = @ + 1]
    /\ changes' = changes + 1
    /\ Wants(d, None, Quiet)
    /\ UNCHANGED <<running, device, up, queue, down, server, kept, raced>>

-----------------------------------------------------------------------------
(* start_directory_watcher_thread.                                          *)

WatcherReads(d) ==
    /\ running
    /\ batch[d] = <<>>
    /\ events[d] # <<>>
    /\ batch' = [batch EXCEPT ![d] = events[d]]
    /\ events' = [events EXCEPT ![d] = <<>>]
    /\ UNCHANGED <<running, local, user, receiver, wires, server, changes, kept, wanted, raced>>

Handled(d) == batch' = [batch EXCEPT ![d] = Tail(@)]

(* After a second or more: the file as it is now, if it is there.           *)
WatcherSends(d) ==
    /\ running
    /\ batch[d] # <<>>
    /\ Head(batch[d]) \in {"create", "write"}
    /\ up' = IF local[d] = None THEN up
             ELSE [up EXCEPT ![d] = Append(@, [type |-> "send", data |-> local[d]])]
    /\ Handled(d)
    /\ raced' = (raced \/ BeingWritten(d))
    /\ UNCHANGED <<running, local, user, receiver, events, asked, queue, down, server,
                   changes, kept, wanted>>

(* sleep(i), where i is the place of the event in the buffer: no time for   *)
(* the first one, half a minute or more for the others.  The sleeps of two  *)
(* devices may end together, so that what they send crosses.                *)
WatcherDeletes(d) ==
    /\ running
    /\ batch[d] # <<>>
    /\ Head(batch[d]) = "delete"
    /\ up' = [up EXCEPT ![d] = Append(@, [type |-> "delete", data |-> None])]
    /\ Handled(d)
    /\ UNCHANGED <<running, local, user, receiver, events, asked, queue, down, server,
                   changes, kept, wanted, raced>>

-----------------------------------------------------------------------------
(* start_file_receiver_thread.                                              *)

ReceiverOpens(d) ==
    /\ running
    /\ receiver[d].at = "idle"
    /\ down[d] # <<>>
    /\ Head(down[d]).type = "send"
    /\ Truncates(d)
    /\ receiver' = [receiver EXCEPT ![d] = [at |-> "writing", data |-> Head(down[d]).data]]
    /\ down' = [down EXCEPT ![d] = Tail(@)]
    /\ raced' = (raced \/ BeingWritten(d))
    /\ UNCHANGED <<running, user, batch, up, asked, queue, server, changes, wanted>>

ReceiverCloses(d) ==
    /\ running
    /\ receiver[d].at # "idle"
    /\ Fills(d, receiver[d])
    /\ receiver' = [receiver EXCEPT ![d] = NotWriting]
    /\ UNCHANGED <<running, user, batch, wires, server, changes, kept, wanted, raced>>

ReceiverDeletes(d) ==
    /\ running
    /\ receiver[d].at = "idle"
    /\ down[d] # <<>>
    /\ Head(down[d]).type = "delete"
    /\ Unlinks(d)
    /\ user' = [user EXCEPT ![d] = Orphaned(@)]
    /\ down' = [down EXCEPT ![d] = Tail(@)]
    /\ raced' = (raced \/ BeingWritten(d))
    /\ UNCHANGED <<running, receiver, batch, up, asked, queue, server, changes, wanted>>

-----------------------------------------------------------------------------
(* The manager: the list of checksums.  A file that is missing has the      *)
(* checksum of an empty one.                                                *)

CRC == IF stored = None THEN Empty ELSE stored

(* FileLinkedList_push puts an entry at the head, where _get finds it first. *)
Push(list, crc) == <<crc>> \o list

Known == file_list # <<>>

(* Mutant: what is on the list is always taken for changed.                 *)
StatusNeverExists == IF ~Known THEN "NOT_FOUND" ELSE "UPDATED"

(* Mutant: a file that is not on the list is taken for one that has changed. *)
StatusNeverNotFound == IF file_list = <<>> \/ Head(file_list) # CRC THEN "UPDATED" ELSE "EXISTS"

Status == IF ~Known THEN "NOT_FOUND"
          ELSE IF Head(file_list) # CRC THEN "UPDATED" ELSE "EXISTS"

Goes(d, t, place) == worker' = [worker EXCEPT ![d][t].at = place]

At(d, t, place) == running /\ worker[d][t].at = place

(* remove(): whoever is writing the file loses it.                          *)
Removes(d, t, place) ==
    /\ stored' = None
    /\ worker' = [e \in Devices |-> [u \in Threads |->
                     IF e = d /\ u = t THEN [worker[e][u] EXCEPT !.at = place]
                     ELSE Orphaned(worker[e][u])]]

-----------------------------------------------------------------------------
(* handle_incoming_file.                                                    *)

ReceiveOpens(d) ==
    /\ At(d, "receive", "idle")
    /\ up[d] # <<>>
    /\ Head(up[d]).type = "send"
    /\ stored' = Empty
    /\ worker' = [worker EXCEPT ![d]["receive"] = [at |-> "writing", data |-> Head(up[d]).data]]
    /\ up' = [up EXCEPT ![d] = Tail(@)]
    /\ raced' = (raced \/ Busy(d, "receive"))
    /\ UNCHANGED <<running, device, asked, queue, down, file_list, changes, kept, wanted>>

ReceiveWrites(d) ==
    /\ At(d, "receive", "writing") \/ At(d, "receive", "lost")
    /\ stored' = IF worker[d]["receive"].at = "lost" THEN stored ELSE worker[d]["receive"].data
    /\ worker' = [worker EXCEPT ![d]["receive"] = [at |-> "test", data |-> None]]
    /\ UNCHANGED <<running, device, wires, file_list, changes, kept, wanted, raced>>

ReceiveTests(d) ==
    /\ At(d, "receive", "test")
    /\ Goes(d, "receive", CASE Status = "NOT_FOUND" -> "push"
                            [] Status = "UPDATED" -> "refresh"
                            [] Status = "EXISTS" -> "idle")
    /\ UNCHANGED <<running, device, wires, stored, file_list, changes, kept, wanted, raced>>

ReceivePushes(d) ==
    /\ At(d, "receive", "push")
    /\ file_list' = Push(file_list, CRC)
    /\ Goes(d, "receive", "send")
    /\ UNCHANGED <<running, device, wires, stored, changes, kept, wanted, raced>>

(* The entry is looked up again: it may be gone, and the manager dies.      *)
ReceiveRefreshes(d) ==
    /\ At(d, "receive", "refresh")
    /\ IF ~Known
       THEN running' = FALSE /\ UNCHANGED <<worker, file_list>>
       ELSE /\ file_list' = [file_list EXCEPT ![1] = CRC]
            /\ Goes(d, "receive", "send")
            /\ UNCHANGED running
    /\ UNCHANGED <<device, wires, stored, changes, kept, wanted, raced>>

Told(d, entry) == queue' = [e \in Devices |-> IF e = d THEN queue[e] ELSE Append(queue[e], entry)]

ReceiveTells(d) ==
    /\ At(d, "receive", "send")
    /\ Told(d, "send")
    /\ Goes(d, "receive", "idle")
    /\ UNCHANGED <<running, device, up, asked, down, stored, file_list, changes, kept, wanted, raced>>

ReceiveDeletes(d) ==
    /\ At(d, "receive", "idle")
    /\ up[d] # <<>>
    /\ Head(up[d]).type = "delete"
    /\ Removes(d, "receive", "gone")
    /\ up' = [up EXCEPT ![d] = Tail(@)]
    /\ raced' = (raced \/ Busy(d, "receive"))
    /\ UNCHANGED <<running, device, asked, queue, down, file_list, changes, kept, wanted>>

-----------------------------------------------------------------------------
(* remove_file_from_user_list.                                              *)

AfterList(t) == IF t = "receive" THEN "idle" ELSE "remove"

DeleteTests(d, t) ==
    /\ At(d, t, "gone")
    /\ Goes(d, t, IF Status = "NOT_FOUND" THEN AfterList(t) ELSE "unlist")
    /\ UNCHANGED <<running, device, wires, stored, file_list, changes, kept, wanted, raced>>

(* Mutant: the entry stays.                                                 *)
ListKept == file_list

Unlisted == IF file_list = <<>> THEN <<>> ELSE Tail(file_list)

DeleteUnlists(d, t) ==
    /\ At(d, t, "unlist")
    /\ file_list' = Unlisted
    /\ Goes(d, t, "delete")
    /\ UNCHANGED <<running, device, wires, stored, changes, kept, wanted, raced>>

DeleteTells(d, t) ==
    /\ At(d, t, "delete")
    /\ Told(d, "delete")
    /\ Goes(d, t, AfterList(t))
    /\ UNCHANGED <<running, device, up, asked, down, stored, file_list, changes, kept, wanted, raced>>

-----------------------------------------------------------------------------
(* DELETE at the interface.                                                 *)

InterfaceDeletes(d) ==
    /\ At(d, "interface", "idle")
    /\ asked[d] > 0
    /\ Goes(d, "interface", IF stored = None THEN "idle" ELSE "gone")
    /\ asked' = [asked EXCEPT ![d] = @ - 1]
    /\ raced' = (raced \/ Busy(d, "interface"))
    /\ UNCHANGED <<running, device, up, queue, down, stored, file_list, changes, kept, wanted>>

InterfaceRemoves(d) ==
    /\ At(d, "interface", "remove")
    /\ Removes(d, "interface", "idle")
    /\ kept' = IF local[d] # None THEN kept \cup {d} ELSE kept
    /\ UNCHANGED <<running, device, wires, file_list, changes, wanted, raced>>

-----------------------------------------------------------------------------
(* send_f: the file as it is by now, if it is there.                        *)

Missing == stored = None

SendsNext(d) ==
    /\ running
    /\ queue[d] # <<>>
    /\ queue' = [queue EXCEPT ![d] = Tail(@)]
    /\ down' = IF Head(queue[d]) = "send" /\ Missing THEN down
               ELSE [down EXCEPT ![d] = Append(@,
                       IF Head(queue[d]) = "send" THEN [type |-> "send", data |-> stored]
                       ELSE [type |-> "delete", data |-> None])]
    /\ raced' = (raced \/ \E e \in Devices : worker[e]["receive"].at = "writing")
    /\ UNCHANGED <<running, device, up, asked, server, changes, kept, wanted>>

-----------------------------------------------------------------------------
UserStep(d) ==
    \/ \E v \in Values : UserOpens(d, v)
    \/ UserDeletes(d)
    \/ UserAsks(d)

WatcherStep(d) == WatcherReads(d) \/ WatcherSends(d) \/ WatcherDeletes(d)

ReceiverStep(d) == ReceiverOpens(d) \/ ReceiverCloses(d) \/ ReceiverDeletes(d)

ReceiveStep(d) ==
    \/ ReceiveOpens(d)
    \/ ReceiveWrites(d)
    \/ ReceiveTests(d)
    \/ ReceivePushes(d)
    \/ ReceiveRefreshes(d)
    \/ ReceiveTells(d)
    \/ ReceiveDeletes(d)

DeleteStep(d, t) == DeleteTests(d, t) \/ DeleteUnlists(d, t) \/ DeleteTells(d, t)

InterfaceStep(d) == InterfaceDeletes(d) \/ InterfaceRemoves(d)

Next ==
    \E d \in Devices :
       \/ UserStep(d)
       \/ UserCloses(d)
       \/ WatcherStep(d)
       \/ ReceiverStep(d)
       \/ ReceiveStep(d)
       \/ \E t \in Threads : DeleteStep(d, t)
       \/ InterfaceStep(d)
       \/ SendsNext(d)

Spec == Init /\ [][Next]_vars

Fairness ==
    \A d \in Devices :
       /\ WF_vars(UserCloses(d))
       /\ WF_vars(WatcherStep(d))
       /\ WF_vars(ReceiverStep(d))
       /\ WF_vars(ReceiveStep(d) \/ DeleteStep(d, "receive"))
       /\ WF_vars(InterfaceStep(d) \/ DeleteStep(d, "interface"))
       /\ WF_vars(SendsNext(d))

FairSpec == Spec /\ Fairness

-----------------------------------------------------------------------------
(* Once nothing is under way, every device has what the manager has, but    *)
(* for a copy that its own user's "delete" command left (server.c:502-524),  *)
(* whatever the users changed at the same time and in whatever order the    *)
(* echoes came, unless two threads had the file in hand at once.            *)
DevicesAgree ==
    running /\ Quiet /\ ~raced =>
       \A d \in Devices : local[d] = stored \/ (d \in kept /\ stored = None)

(* The list then has the checksum of the file in the folder, once, and      *)
(* nothing of one that is gone: a list that is stale would keep the next    *)
(* upload from the other devices (server.c:391-412, 632).                   *)
ListTellsTruth ==
    running /\ Quiet /\ ~raced =>
       file_list = IF stored = None THEN <<>> ELSE <<stored>>

Agree == DevicesAgree /\ ListTellsTruth

(* What the last of several users in turn did to the file is what remains   *)
(* of it: an echo of something older, or of the empty file that a write     *)
(* begins with, does not come back over it (client.c:349-356, server.c:     *)
(* 632-660).  Nothing is said of changes that were not made in turn.        *)
LastChangeWins ==
    running /\ Quiet /\ ~raced /\ wanted.by # None => stored = wanted.data

(* The entry whose checksum is refreshed without another look at the list   *)
(* (server.c:649) is there, unless another thread was in it.                *)
DiesOnlyOfRaces == ~running => raced

(* When the last change was made in turn, the devices stop sending each     *)
(* other what they were sent, a file or a deletion, in whatever order their *)
(* watchers wake up (client.c:349, 354, server.c:411).  Two uploads that    *)
(* cross may swap for ever (client.c:350): those were not made in turn.     *)
EchoStops == <>[](Quiet \/ raced \/ wanted.by = None)
=============================================================================
