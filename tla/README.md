# A verification development for the file synchronisation service

The repository is a small "sync_dir" service in C: clients keep a directory in step with a
manager server over TCP, one user may be connected from two devices, and backup servers follow
the manager and elect a new one (bully algorithm) when its heartbeats stop. The code has no
tests and no documents; what it says of itself is in comments and in the messages it prints.

This directory holds TLA+ modules translated from that code, TLC runs over small instances and
proofs that TLAPS checks for every value of the constants. Source lines are under `src/src/`.

## 1. Inventory

| Component | State | Operations | Talks to |
|---|---|---|---|
| File sync buffer (`util/fileSync.c`) | ring of 10 entries, `start`, `end`, `count`, a mutex, `not_empty`, `not_full` | `add_file_to_sync_buffer`, `get_next_file_to_sync` | written by the receive and interface threads of the user's other session, read by the session's `send_f` |
| User sessions (`server/server.c`, `util/connectionManagement.c`) | per user: two slots, list of files; per session: `active`, three sockets, three threads, a buffer | accept a client, upload, delete, list, download, exit | threads share the slots; a change is passed to the other session and to the backups |
| User files (`server.c`, `util/fileLinkedList.c`) | list of names with CRCs per user, files on disk | new, changed or echoed file; deletion by watcher and by command | up to four threads of a user, no lock |
| Table of contexts (`util/contextHashTable.c`) | 30 buckets, a lock each | search, insert | every thread that has a user name |
| Replica list (`server/replica.c`) | linked list, `replica_count`, `replica_list_mutex` | `add_replica`, `notify_replicas`, `send_replicas_data_to_new_replica`, removal, destruction | listener, heartbeat thread, user sessions |
| Replication to backups (`replica.c`, `serverRoles.c`) | a backup's own table of sessions and files | `CLIENT_CONNECTED`, `FILE_*`, `CLIENT_DISCONNECTED`, `REPLICA_ADDED`, `HEARTBEAT` events | one TCP connection per backup |
| Heartbeats and roles (`server/serverRoles.c`) | `global_server_mode`, `last_heartbeat`, `is_election_running`, `new_leader_decided`, `mode_change_mutex` | heartbeat every 2 s, monitor every 1 s, timeout 5 s, `run_as_backup` / `manage_replicas` | monitor, election threads, listeners, connection threads |
| Election (`server/election.c`) | `election_answer_received`, and the flags above | `run_election` (3 s), the listener's ELECTION / ANSWER / COORDINATOR | peers, on connections opened when the group formed |
| Hand-over to clients (`serverRoles.c`, `connectionManagement.c`) | the table, the sessions inherited from the old manager | notify every client, free every session, let clients in | clients, the connection thread's last events |
| Client (`client/client.c`) | `signal_reconnect`, `signal_shutdown`, `threads_exited`, three sockets per connection, the directory and its inotify queue | console commands, watcher, receiver, notification listener | the manager; a notice from a new manager |
| Packets and transfers (`util/communication.c`) | none | framing, announcement and chunks of a file | everything |

What is hard here: three threads per session that share slots and a list of files without a lock;
a session that may end before its threads are all created; mutexes held across joins and blocking
sends, and one unlocked by a thread that did not lock it; flags that several elections share;
timeouts against heartbeats; a manager that crashes, is replaced and may find itself replaced; every
change of a file that comes back as an echo of itself; a counter that three threads increment;
descriptors closed by one thread and reused by another. `PROJECT.json` lists these as hazards, each
at its line, with the properties that would catch it, or the reason why none does.

What makes each component correct, in short: the buffer is a bounded FIFO with no lost wake-up
and ends with its session; a slot holds a live session, a session is freed when its threads are
idle, a change reaches every session of the user that stays, and a backup's table follows the
manager's; the devices of a user and the manager agree on a file once all is quiet, and get quiet;
the list of replicas is sound under its mutex, a stream of events is read the way it was written,
the group gets connected; a live manager is not suspected, a dead one is replaced, elections end and
do not mix up; a user has one context, every client is told of a new manager and finds its slot there; a
client told of a new manager moves to it with one set of threads, and `exit` ends it; and where
one of these fails, it is for the accidents that the property names and for no other.

## 2. Modules

| Module | Models | Extends / uses |
|---|---|---|
| `FileChannel` | abstract specification: a bounded FIFO that is closed once | |
| `ReplicaGroup` | abstract specification: a group, and notifications that come by each member once | |
| `FileSyncBuffer` | the buffer and its four threads; implements `FileChannel` | `FileChannel` by INSTANCE |
| `Failover` | heartbeats, elections, roles, replica lists as sets, crashes, seconds | |
| `Client` | threads, signals, descriptors and moves of one client | |
| `Sessions` | the sessions of one user at the manager, and one backup's view of them | takes the buffer as the channel that `FileSyncBuffer` implements |
| `FileSync` | one file: directories and watchers of two devices, the manager's folder and list | takes buffer and connections as queues |
| `Replicas` | the group's forming, the list in memory, its mutex, the stream of events to each backup; implements `ReplicaGroup` | `ReplicaGroup` by INSTANCE; starts before `Failover`, which takes the group as formed |
| `Handover` | a promoted backup, its table of contexts, the two walks, and the clients | takes up where `Failover` has a role leave its loop |
| `MC*` | constants of the runs | |
| `*Proofs` | theorems | the module they are about |

### FileSyncBuffer
`sender` is the place of `send_f` between its calls (`SenderLoop` .. `SenderSend`), `producer` and
`pending` the calls of `add_file_to_sync_buffer`, `closer` the EXIT case of `interface`. The send
thread keeps the lock over several steps, because `active` is cleared without it
(server.c:527) and the instant matters; a producer's critical section touches nothing that
changes outside the lock and is one step. `pthread_cond_wait` may wake spuriously. The interface
thread joins the send thread before it frees the session; what a producer that still has a
pointer does afterwards is undefined and is not followed here (`Sessions` takes it up).

### Failover
One variable per flag, and the places of four kinds of thread: `monitor`, `election` (one that
the monitor joins, one that a listener detached), `role` (`run_as_backup`, going on as
`manage_replicas`) and `conn` (`connect_to_server_thread`). `replicas` is the list of `replica.c`
as a set of entries: "peer" entries lead to another backup's election listener, "replica" entries
to the connection thread that a backup opened. `wire` holds what was written to a listener and not
read; `unread` who has answered on a connection nobody reads (election.c:215).

Every sleep keeps its length. With `Timed`, `Tick` lets a second pass when no thread is due, so
everything due in a second happens in it, in any order; servers in `Slow` may leave what is on
their election connections for later. Without `Timed` a sleep takes any time. A crash loses what
a server knew and a suffix of what it wrote. Undefined behaviour that ends a process is an action
(`MisreadCoordinator`, `FreedHostname`).

Assumed: the group has formed, each backup connected to the others. Left out: user events on
the connection of a backup, a second detached election at the same time in one server, and the
pointer to the head of the list that election.c:98 and 111 read before they lock it. Coarser than
the code: a connection thread sleeps a second after each packet, and not once more after a wait
that found none (serverRoles.c:272, 360), so it may read up to a second earlier than it would; it
takes what lies on its connection in any order; its two tests of the mode (214, 264) are one step;
the listener that accepts a replica does not wait for `mode_change_mutex` at the head of its loop
(73), and the event that tells the others of it is in `Replicas`.

### Client
`thread[c][t]` is the place of thread `t` of the `c`-th connection; `socket` the descriptor it was
given, `owner` what a descriptor denotes by now, since `close` frees the number for the next
connection. `threads_exited++` is the read and the write that the unoptimised build makes
(`CountLoads`, `CountStores`), so increments may overlap; `CountLost` says that one did. `server[c]`
is the other end: "asked" until it answers `connect_to_server`, which waits for that without a
timeout (client.c:416), "open", "leaving" once the client's interface socket is closed, "closed".
A server may leave the answer, a reply to the console or the end of a session out for ever: its
main thread may wait for another client (server.c:116), its interface thread for a full buffer;
`Unanswered` names the reads that wait then. A name that `gethostbyname` does not know leaves the client
running without threads and its signal up (435-437, `unresolved`). A failed `connect` ends the
process (441-464), and so does a NULL packet. The first connection is made in `Init`; commands are
reduced to whether they wait for a reply; `sync_dir` is there from the start, made by a command, or
never.

### Sessions
The main thread's handshake is four places, from ANSWER_OK through the creation of the session
and its threads, in the order of the code, to the slot being filled, with the context locked.
`interface`, `receive` and `send_f` are the threads of a session. A thread that changed a file
walks the slots (`FanLooks`, `FanLooksAgain`, `FanAdds`): the slot is looked at twice, no lock is
taken. `owed` is a history variable: the sessions such a walk has still to reach. The backup
handles events in order and has a table of its own. What a use of freed memory, a read of a
closed socket or a join of a thread that is not created does is a choice between the process
ending and going on.

Left out: contents and checksums (a changed file is new, or not, to the list by choice;
`FileSync` has them), reuse of descriptors at the server, a backup that joins after the clients,
several users, notices. `MainCreates` is the lock, the choice of a slot and `notify_replicas` in
one step, which waits for room on the connection to the backup. In the code the context is locked
from server.c:64 on, also while that send blocks. Nobody else changes the slots in that time, so
that the choice of the slot is the same; but in the model a session that ends may still take
the lock before the step, where in the code it waits.

### FileSync
One file of one user. `local` is the file in a device's directory, `events` inotify's queue and
`batch` what the watcher has read of it; `worker` the places of the receive and interface threads
of a session between the calls that touch the folder (`stored`) or the list (`file_list`), none of
which holds a lock. Writing takes two steps, since `fopen` truncates first; a writer whose file is
removed goes on writing to a file without a name (`"lost"`). A file written by the receiver
is reported by the watcher like one a user saved: that is the echo, which only the manager's
checksum stops (server.c:391-412).

The watcher sleeps a second before it sends (client.c:350) and as many seconds as the event's
offset in its buffer before a delete (355). These sleeps may end together and what follows them
takes any time, so that every step may come at any time and uploads may cross. `wanted` is what the last
user made of the file if the users took turns (`InTurn`): the change was made when nothing was
under way, or over what the same device had just written, before its watcher sent that. Of
everything else no outcome is claimed: of a change that crosses an upload or an echo, of a second save
while the first is being sent, of a file written anew while its deletion is under way. `raced`
says that two threads had the file in hand at once, from which moment the properties ask for
nothing; `kept` that a device's own copy outlived its console's "delete" (server.c:502-524), which
removes the file everywhere else.

Abstracted: a checksum stands for the content; the reading of a whole file by `send_f` or by the
watcher is one step, which is `raced` if a write is under way; events for files moved in or out
are left out, as is the LIST and DOWNLOAD of the console.

### Replicas
A manager and the backups that join it, each once. Nodes of the list are named after their
replicas; `next`, `head` and `freed` are the memory, `owner` the mutex. `writer` has the place of
the three threads that write to backups, the listener, the heartbeat thread and a user's thread,
in `notify_replicas` one node and one packet per step, since each send may block: a connection has
room for `Room` packets. A file is its number of packets, announced from its size
(communication.c:204) and then sent until its end, wherever that is by then. `backup` is what a
backup reads next. The listener's walk of
`send_replicas_data_to_new_replica` takes no lock and ends with an unlock (replica.c:187):
`mingled` and `breached` remember the two consequences, `misread` the backups that took a packet
for another.

`ReplicaGroup` says what the list is for, without nodes or mutex: a replica enters at most once
and not while somebody is notified, a notification comes by every member once, and takes out
members that have closed the connection and no others. Under the mapping the group is the
replicas that joined and were not freed (`Members`), the notifier is the owner of the mutex, and
what a notification has yet to come by is what lies ahead of its `current` along the links
(`Pending`). The promise ends with the first unlock of another thread's mutex (`breached`).

Abstracted: a closed peer is seen at the first send to it; `connect` and the "id:port" line are
one step; a use of freed memory ends the manager, and what else it might do is not followed; nor is
a payload that fills its packet to the last byte. `find_node` never finds the node, since sockets
differ. Backups have no sessions here.

### Handover
`table` and `contexts` are the buckets and every context that was created, `keyHash` any hash.
`thread` has the main and the connection thread, which search, insert and lock a context one after
the other (`get_or_create_context`, connectionManagement.c:36-44); `role` is the thread of
`run_as_backup` after its loop: it waits for as many replicas as it had ("awaiting",
serverRoles.c:571-577, which `ReplicasReturn` ends or nothing does) and then is in
`notify_clients_of_server_change` and `disconnect_all_users`, with the locks of a bucket and a
context. The main thread lets in whoever comes, whatever this server is at the time
(server.c:270-281). A device is "new", with the old manager ("here", "left", "gone"), or comes to
this server: "told" of it, or unasked ("coming"), and is then "waiting" in a session without
threads that a backup gave it, "served", or "turned_away".

Histories name the accidents that properties excuse: `met`, a client nobody sent and the first
event of its user were in hand at once; `hasty`, a manager served a client before its walks
were over; `late`, an event of the old manager was handled after the promotion; `cut`, the clients whose
sessions were freed under their threads.

Abstracted: each device comes to each of the two managers once; freeing the sessions of a bucket is
one step, as is each use of a locked context by another thread; a name that `gethostbyname` does not
know (serverRoles.c:226-229) is left out; `HashTable_print` changes nothing; `HashTable_remove` and
`HashTable_destroy` are never called.

## 3. Runs

| Run | Instance | Question |
|---|---|---|
| `sync_buffer` | 2 producers (a user has two sessions, the other's receive and interface thread), ring of 3, 2 entries; liveness | no lost wake-up, session ends, implements the channel |
| `failover_prompt` | 3 servers, 2 crashes, 3 roles each, timed, all prompt; liveness | `NoFalseAlarm`, `LowerKnewOfHighest`, `ManagerReplaced`, `ElectionsEnd` |
| `failover_slow` | 3 servers, 1 crash, 2 roles each, one slow listener | invariants that do not rest on timing |
| `client` | 2 connections, overlapping increments, `sync_dir` early, late or never; liveness | one set of threads, no foreign close, a console; a move and exit unless an increment is lost or a thread waits for a server (a move: unless the name is not resolved) |
| `sessions` | 2 clients, 2 slots, buffers of 1, 2 changes, room for 1 event, symmetric clients | slots, freeing, fan-out |
| `sessions_full` | 2 clients, 1 slot, buffers of 1, 1 change, room for 2 events; liveness | `EventsInOrder`, `NoGhosts`, `BackupFollows` |
| `file_sync` | 2 devices, 2 contents, 2 changes; liveness | agreement, no death but by a race; of changes in turn: the last one stays, its echoes stop |
| `replicas` | 2 backups, 2 files of at most 1 packet, 1 crash, room for 1 packet; liveness | list, framing, dangling nodes, the group forms, heartbeats go on, implements the group |
| `handover` | 2 users, 3 devices, 2 slots, 2 buckets, 1 unread event | one context, what can kill the server, whom patience serves, nobody's session is freed untold |
| `failover_backup_monitored`, `client_lost_count`, `sessions_turned_away` | as above | expect a violation: see Findings |

Bounds. Three servers are the least with which a lower id answers to a higher one after the
manager is gone; two roles per server make a server change managers once, three twice. A ring of
three tells wrap-around from fullness and leaves both producers room to block. Two connections
make one move, in which old and new threads can meet. Two clients in two slots with buffers of
one block a walk at a full buffer, and a connection to the backup with room for one event makes
writers wait for it; with one slot the second client is turned away or takes the
slot just freed, and room for two events lets the backup lag behind both. Two changes of a
file are a write and a write or delete on top of it, beside it at the other device, or on top of its
echo, with every overlap of uploads, downloads and deletions; a file that is written, deleted
and written anew needs three, which the proofs cover. Two backups are the least
of which one is told of another while that one is written to; a file of one packet has the three
places (event, announcement, data) between which another writer may come. Three devices fill one
user's slots and leave another user who may share the bucket: the walk that tells the clients goes
by both slots of one context, some of whose clients are gone, and by a second context behind it
or in the other bucket. `MaxCrashes`, `MaxRoles`,
`MaxConnections`, `MaxChanges`, `MaxFiles` and `MaxBacklog` bound counters that the code leaves
open; `Queued` in `Failover` merges an ELECTION behind an unread one.

Constraints. `NotRaced` and `NotBreached` stop the search at states in which every property of the
run holds from then on, since each excuses `raced` or `breached` (`InStep` too) and neither is ever
taken back; that covers liveness too, as every behaviour that is cut off satisfies it. `InOrder`,
in the `replicas` run, lets interchangeable backups begin in one order only: the behaviours left
out are renamings of others, and the properties name no particular one.

Deadlock is checked in `sync_buffer` and `failover_*`. Clients end, users need not change
files, backups need not join, and a server that died does nothing more, so in the other modules
stopping is legal and the check is off.

Fairness. *FileSyncBuffer*: a runnable thread runs (weak), and one that keeps asking for a mutex
that is held for a few instructions gets it (strong); the client reads what it is sent; nobody is
obliged to add an entry or to leave. *Failover*: time goes on; since `Tick` waits for whatever is
due, no thread is put off. *Client*: each thread is scheduled (weak) unless it waits for a server.
No server owes it anything: an answer, a reply, a file, a notice, the end of a session, or to stop;
`[]Unanswered` in a property is the case that one leaves a thread waiting for ever. *Sessions*: each thread, the backup and the exit of a client that has typed it
(weak); no client has to connect, leave or change a file. *FileSync*: each thread of devices and
manager (weak), a write that was begun is finished; no user has to change anything. *Replicas*:
the listener and the heartbeat thread compete for the mutex and for room in a connection with
others that come back for it, and get it in the end (strong); the user's thread inside
`notify_replicas` and the backups go on (weak). *Handover*: none is assumed, for nothing
eventual is claimed. The new manager waits for its replicas before it tells anybody, perhaps for
ever (serverRoles.c:571-577), and no client has to come.

## 4. Findings

Each is a run whose property quotes the code and which TLC refutes.

* `failover_backup_monitored` - a manager that steps back has no heartbeat monitor
  (serverRoles.c:507-509).
* `client_lost_count` - two overlapping `threads_exited++` (client.c:272, 305, 367) leave the
  client waiting at 565, although it is to reconnect ("para reestabelecer", client.c:492-493), the
  name of the new manager is resolved and no server lets it wait.
* `sessions_turned_away` - CONNECTED overtakes DISCONNECTED at server.c:545-551 and the backup
  turns away a session although there is room.

The models show more that the code states no expectation about, and so no run claims:

* *Elections.* An ANSWER lies on a socket that no thread reads (election.c:156, 215). A
  COORDINATOR removes the new, higher manager from the list of a server whose election then finds
  no higher id: two managers (election.c:254). A stale `election_answer_received` makes the next
  candidate lose (`ManagerReplaced` holds because the monitor tries again). A COORDINATOR between
  the two stores of election.c:157-158 leaves a promotion without a role that takes it up. The new
  manager waits for ever for a replica that crashed (serverRoles.c:574), and the connection thread
  reads a hostname that its role may have freed (222, 593).
* *Files.* Two users who save within the same second get each other's version, their watchers
  report it, and the versions may swap for ever (client.c:350); so may an upload and the echo of an
  older one, or a create and a delete (server.c:515, client.c:349-356). This is why `EchoStops` and
  `LastChangeWins` speak only of changes made in turn. A list entry
  without a file, raced in, keeps a later upload from the other device. A delete that the watcher
  reports late, `sleep` being given a byte offset, takes away what was written anew.
* *Replicas.* The listener unlocks a mutex that another thread holds (replica.c:187); after
  that the list is unprotected. A newcomer is told of the others in the middle of a file
  that another thread sends it, or a file changes size between its announcement and its data: the backup
  reads the rest of the stream out of step.
* *Hand-over.* A second user in a bucket kills the server (contextHashTable.c:21). Clients that
  return before the walks are over are turned away, or have their live sessions freed
  (connectionManagement.c:203). An event handled after the promotion starts threads that read from
  descriptor -1 (server.c:77). A client that nobody sent, let in while the connection thread handles
  the first event of its user, leaves that user with two contexts (connectionManagement.c:36-44,
  server.c:270-281). The clients are told only after the replicas came back, which may be never
  (serverRoles.c:571-579).
* *Client and sessions.* A client without `sync_dir` never reconnects (client.c:326), nor does one
  whose new manager does not answer (416, server.c:116) or whose console still waits for a reply of
  the old one (131, 188); one that cannot resolve the new name stays without threads (435). A walk waits
  for ever in the full buffer of a session that has ended (fileSync.c:20).

## 5. Proofs

All theorems are for arbitrary constants that satisfy the named assumptions of the modules:
finite sets of producers, servers, clients and backups (`ProducersAssumption`, `ServersAssumption`,
`ClientsAssumption`, `BackupsAssumption`); capacities and bounds that are numbers, positive where
the code has at least one (`CapacityAssumption`, `SlotsAssumption`, `SizesAssumption`,
`MaxConnectionsAssumption`, `BoundsAssumption`), and the type of the other parameters (`UserAssumption`,
`TimedAssumption`); an "empty" value that is not an element (`EmptyAssumption`, `NoneAssumption`,
`NullAssumption`). One assumption of `Handover` says something of the world: by `DevicesAssumption`
no user has more devices than slots. `PatientClientsServed` needs it, since otherwise somebody
is turned away in any case, and `HandoverSurvived`, since a session that found no slot at the backup is
looked for in vain when it ends.

* `FileSyncBufferProofs`. `IInv` adds to the type invariant where the lock is and that the
  decision to sleep is still right when the thread sleeps: "block" is reached only with an
  empty buffer and a broadcast still to come if the session is over. Without that the invariant
  on sleeping is not inductive. `NotFullSignalsSuffice` is an invariant of its own and counts
  producers on their way against free slots. `BufferImplementsChannel` maps each step to a step of
  `FileChannel` or a stutter.
* `FailoverProofs`. `TypeCorrect`; `MutexHeldForElection`; `RaisedFlagHasElection`, strengthened
  to `FlagIsOwed`: a raised flag is owed by an election that has not cleared it yet, which an
  election past its clearing does not count as; `ElectionsOnlyGoUp`, over queues, their suffixes
  and what a crash leaves; `ListedReplicasChose`, strengthened by `FreshConns` (a role that has
  not started has no connection). `NoFalseAlarms` rests on `Steady`: as long as the first manager
  lives, every live backup is in its list and connected to it, nothing is under way between
  servers, and for each backup the silence so far, the second in which the next heartbeat is due
  and the second in which the backup reads again add up (`InTime`): with nothing to read,
  silence and wait are at most two; with a beat to read, silence has reached three only if the
  backup reads in this second. The timeout of five is then never near. The theorem is about
  `Timed` behaviours, any number of servers, any crashes of backups, and any set of slow
  listeners. `HighestIsRemoved` and `HighestIsKnown` rest on `HighestInv`, which follows two
  elections and their seconds. The server with the highest id of all has no election that waits
  (`AtOnce`), and is in one of two phases. *Unannounced*: nobody else has left the role it was
  formed with and no COORDINATOR is anywhere on its way. An election of a lower id that has three
  seconds left to wait has roused the highest (its ELECTION is unread, or the other's election
  is under way, or is won), and one that has two left finds it a manager that is about to
  announce (`Heard`), so that none waits its last second before the announcement. *Announced*:
  whoever still lists the highest has its COORDINATOR unread and is a backup (`Told`), and a
  server that keeps up reads it before the next second passes. A peer that was removed never
  comes back into a list (`PeersOnlyLeave`). Both theorems are about `Timed` behaviours, any number of
  servers and any crashes; the second needs that nobody is slow.
* `ClientProofs`. The invariant counts: neither `threads_exited` nor a value that a thread
  has read of it and not yet written back exceeds the number of threads of the latest connection
  past their count, lost increments or not. So three in it means all three, which gives
  `OneConnection`; with the ownership of descriptors it gives `NoForeignClose`.
* `SessionsProofs`. The first invariant follows the end of a session: the receiving thread is out
  of its loop's body when the join is passed, the slot is cleared before the session is freed, and
  cannot be cleared before the main thread has filled it, as that holds the lock until then. The
  second follows a walk: what it owes is in a slot still ahead of it, or is the session it is
  adding to. The third (`OrderInv`) follows the events to the backup: nothing is told of a client
  before its own CONNECTED, DISCONNECTED is told last and by an interface thread that has joined
  the receiving one, and a session that is over and that the backup has, or will have, has its
  DISCONNECTED behind it. It gives `EventsComeInOrder` and `BackupKeepsNoGhosts`.
* `FileSyncProofs`. Without a race one thread of the manager has the file in hand, and what it
  finds in the folder and on the list follows from where it is (`ListSerial`); that alone gives
  `OnlyRacesKill`. The list then says what is *public*: what every device has been told or is
  about to be. `DirectoriesAgree` follows each device in a circle: while its directory stirs, the
  last event tells whether the file is there; what it uploads ends with what the directory has;
  and once all of that is done, the directory has what is public, or what is on its way to it
  ends with that, or its own user's "delete" left it behind. Each link is inductive only in
  company of the others.
* `LastChangeProofs`, for any number of devices. After a write that counts (`Written`) the device
  that wrote has the content or is writing it (`Holds`), and all that is under way is that content
  (`Spreads`): nothing comes to that device (`Unreached`), nobody asks for a deletion, what any
  device uploads is the content (`Offers`), and what the others get from the manager is it too
  (`Copies`); they report it back, and the manager recognises it. After a deletion that counts, only deletions are under way
  (`Bare`), and no content is left that could come back, or the deletion is still to reach it
  (`Dead`). `LastInv` says that one of the two holds whenever `wanted` names a device. Both
  would be false of changes that cross what another device sends, which `InTurn` leaves out.
* `ReplicasProofs`. `MutexExcludes` and, from it, `NoDanglingUnderLock`, which needs the shape of
  the list (`ListLinked`): the nodes that joined and were not freed are linked among themselves,
  each but the head from exactly one other, and never in a circle, which a rank that decreases
  along `next` witnesses; a newcomer's rank is above the head's. `Placed` says that the thread
  with the mutex has two neighbours of that list in its hands, so that unlinking one leaves the
  shape. `ListIsSound` adds that all of them are reached from the head: of those that are not, one
  would have the highest rank, and the node it is linked from would be reached. `replica_count` is
  their number less the replica being counted. `BackupsInStep` is about the places *between* the
  packets of a connection: a place is what a backup that has read so far expects, each packet
  leads from one place to the next, and the packets under way lead from where the backup is to
  where the manager's writers are (`Understood`, `Leads`, `Due`, `Reading`). It holds until the
  mutex is breached. `ListImplementsGroup` maps each step to a step of `ReplicaGroup` or a
  stutter. Who has the mutex is inside `notify_replicas` (`Owning`). A walk at a node has ahead of
  it that node and what is ahead of the next, and at the end nothing (`AheadSteps`, because the
  rank decreases; `AheadOfNothing`). A link that is changed behind the walk does not matter to
  it (`AheadUnlinked`), so that unlinking a node takes that node alone out of what is to come.
* `HandoverProofs`. `UserHasOneContext`, although the bucket is unlocked between the search and
  the insertion and two threads do both: unless they `met`, at most one of them is about to insert
  for a user (`Creating`, `ThreadsSound`). A client that was told of this server has its context in
  the table, for it was told because of a session there (`ToldKnown`, `OwnSessions`), and a context is in the
  bucket of its user for good (`Stored`); a client that nobody sent may make the main thread
  insert, and then the connection thread must not be at the same. `WalkSound` keeps the walks
  inside the table. `ToldBeforeSessionsGo` follows the first walk: the sessions of the buckets
  and contexts it has left, and of the slots it has left in the context it is in (`Passed`), are of
  clients that are told or gone (`Heard`, `ToldInv`). What it has left stays so, whatever the other
  two threads do, because a manager gives out no session without threads and nobody comes back to
  the dead manager. Two theorems follow the server through its two lives. In a backup
  (`Waiting`) the events that were not handled fit the sessions that are there (`Stream`), no
  device has two (`Single`), and no session has threads. In a manager that serves nobody before its walks are over
  (`Patient`), what is freed has no threads of a client, and each session in a bucket that was
  freed is of a client that was served or that this server will never see; so everybody who comes
  finds a slot (`RoomForOne`), which is `PatientClientsServed`. `HandoverSurvived` adds that a
  context is in no list but its bucket's (`InPlace`), so that a search fails only in a bucket
  of two users (`Collision`), and that otherwise the server dies only of an event handled after the
  promotion, of a session freed in use, or, once two threads met, of a second context.

The type invariants of all components are proved; only that of `Handover` is still checked by a
run as well. The consistency of the ring is proved and no longer checked.

Model-checked only:

* everything temporal (`SenderStops`, `FullDrains`, the liveness of the channel,
  `ManagerReplaced`, `ElectionsEnd`, `MovesUnlessMiscounted`, `ExitEnds`, `BackupFollows`,
  `EchoStops`, `GroupForms`, `HeartbeatsGoOn`), because fairness and ENABLED are
  outside the prover.

Every invariant that a run with `pass` checks is thus also proved for all constants. What holds of
the highest id does not hold of others: with four servers two of middle ids can become managers
unheard of each other, because nobody reads ANSWER (election.c:215), as a simulation shows.

## 6. Plan

In this order:

1. `FailureDetector`: heartbeats behind user events read one a second, slow readers and the mutex
   of the list held across sends; the least lag for which `NoFalseAlarm` holds, as a theorem.
2. `Failover`: several detached elections in one server, a second failover that is complete; a
   backup that follows another leader and frees the sessions of its old role while the new one
   takes some in (serverRoles.c:588-591).
3. `Sessions`: a backup that joins after the clients; `SessionEnds` with a blocked walk.
4. Packets cut short (communication.c:60-150), against a reference definition of the stream.

Not modelled and not planned: argument parsing and start-up of the server, listing and
formatting of files, the CRC itself, printing, the Makefile.
