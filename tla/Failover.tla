------------------------------- MODULE Failover -------------------------------
(***************************************************************************)
(* Heartbeats, the election and the change of manager (server/election.c,   *)
(* server/serverRoles.c, the list of server/replica.c).                     *)
(*                                                                          *)
(* Every server keeps a list of the servers it can write to.  A backup's    *)
(* list holds "peer" entries: connections it opened to the listener of the  *)
(* other backups; an election_listener_thread reads each of them at the     *)
(* other end, and nobody reads this end.  A manager's list holds "replica"  *)
(* entries: connections that backups opened to its listener; the connection *)
(* thread of the backup reads them.                                         *)
(*                                                                          *)
(* Threads of a server that this module follows, each with the seconds it   *)
(* still sleeps: the heartbeat monitor, the elections it joins or a         *)
(* listener detaches, every run_as_backup with the manage_replicas it turns *)
(* into ("role") and its connection thread ("conn").                        *)
(***************************************************************************)
EXTENDS Integers, Sequences, FiniteSets

CONSTANTS
    Servers,      \* server ids
    First,        \* the server that was started as manager
    Timed,        \* sleeps and timeouts take their seconds, or any time at all
    Slow,         \* servers whose election listeners may take longer than that
    MaxCrashes,   \* bound: servers that may crash
    MaxRoles      \* bound: run_as_backup threads per server

ASSUME ServersAssumption ==
    IsFiniteSet(Servers) /\ Servers \subseteq Nat \ {0} /\ First \in Servers
ASSUME TimedAssumption == Timed \in BOOLEAN /\ Slow \subseteq Servers
ASSUME BoundsAssumption == MaxCrashes \in Nat /\ MaxRoles \in Nat \ {0}

VARIABLES
    up,                         \* the process runs
    global_server_mode,
    is_election_running,
    new_leader_decided,
    election_answer_received,
    silence,                    \* seconds since last_heartbeat
    replicas,                   \* the list of replica.c
    wire,                       \* unread on the connection of a peer entry
    unread,                     \* who wrote ANSWER back on such a connection
    monitor,                    \* heartbeat_monitor_thread_main
    election,                   \* run_election
    role,                       \* run_as_backup, then manage_replicas
    conn,                       \* connect_to_server_thread
    crashes                     \* how many there were

flags == <<global_server_mode, is_election_running, new_leader_decided,
           election_answer_received>>
threads == <<monitor, election, role, conn>>
vars == <<up, flags, silence, replicas, wire, unread, threads, crashes>>

Modes == {"BACKUP", "BACKUP_MANAGER"}
Runs == {"joined", "detached"}   \* by the monitor, by an election listener
Roles == 1 .. MaxRoles
Nobody == 0                      \* an address where no server listens

(* Mutant: a timeout below the period of the heartbeats.                    *)
HastyTimeout == 1

HEARTBEAT_TIMEOUT_SECONDS == 5
Silences == 0 .. HEARTBEAT_TIMEOUT_SECONDS + 1
Sleep(k) == IF Timed THEN k ELSE 0
Naps == 0 .. 3

(* A COORDINATOR carries the address of the new manager; it is of use only  *)
(* if the port in it is the port the new manager listens on.                *)
ELECTION == [type |-> "ELECTION", listening |-> FALSE]
COORDINATOR(l) == [type |-> "COORDINATOR", listening |-> l]
Messages == {ELECTION} \cup {COORDINATOR(l) : l \in BOOLEAN}

Peer(j) == [kind |-> "peer", id |-> j, role |-> 0]
Replica(j, r) == [kind |-> "replica", id |-> j, role |-> r]
Entries == {Peer(j) : j \in Servers} \cup {Replica(j, r) : j \in Servers, r \in Roles}

MonitorPlaces == {"off", "check", "suspect", "joining"}
ElectionPlaces == {"none", "start", "waiting", "alone", "unflag", "decide last",
                   "unanswered", "decide", "end"}
Leading == {"announce", "snapshot", "destroy", "await", "manage", "managing"}
RolePlaces == {"none", "start", "clear", "loop", "leaving", "done"} \cup Leading
ConnPlaces == {"none", "connecting", "pending", "connected", "ignored", "closed"}

MonitorType == [at : MonitorPlaces, nap : Naps]
ElectionType == [at : ElectionPlaces, nap : Naps]
RoleType == [at : RolePlaces, nap : Naps, manager : Servers \cup {Nobody},
             listening : BOOLEAN, count : Nat]
ConnType == [at : ConnPlaces, nap : Naps, inbox : SUBSET {"HEARTBEAT", "ELECTION", "COORDINATOR"}]

TypeOK ==
    /\ up \in [Servers -> BOOLEAN]
    /\ global_server_mode \in [Servers -> Modes]
    /\ is_election_running \in [Servers -> BOOLEAN]
    /\ new_leader_decided \in [Servers -> BOOLEAN]
    /\ election_answer_received \in [Servers -> BOOLEAN]
    /\ silence \in [Servers -> Silences]
    /\ replicas \in [Servers -> SUBSET Entries]
    /\ wire \in [Servers -> [Servers -> Seq(Messages)]]
    /\ unread \in [Servers -> SUBSET Servers]
    /\ monitor \in [Servers -> MonitorType]
    /\ election \in [Servers -> [Runs -> ElectionType]]
    /\ role \in [Servers -> [Roles -> RoleType]]
    /\ conn \in [Servers -> [Roles -> ConnType]]
    /\ crashes \in 0 .. MaxCrashes

NoRole == [at |-> "none", nap |-> 0, manager |-> Nobody, listening |-> FALSE, count |-> 0]
NewRoleUnder(manager) == [at |-> "start", nap |-> 0, manager |-> manager,
                          listening |-> FALSE, count |-> 0]
NoConn == [at |-> "none", nap |-> 0, inbox |-> {}]

(* A group that has formed: one manager, every backup connected to it and   *)
(* to every other backup, and known by the port it listens on.              *)
Init ==
    /\ up = [s \in Servers |-> TRUE]
    /\ global_server_mode = [s \in Servers |-> IF s = First THEN "BACKUP_MANAGER" ELSE "BACKUP"]
    /\ is_election_running = [s \in Servers |-> FALSE]
    /\ new_leader_decided = [s \in Servers |-> FALSE]
    /\ election_answer_received = [s \in Servers |-> FALSE]
    /\ silence = [s \in Servers |-> 0]
    /\ replicas = [s \in Servers |-> IF s = First
                                     THEN {Replica(j, 1) : j \in Servers \ {First}}
                                     ELSE {Peer(j) : j \in Servers \ {s, First}}]
    /\ wire = [s \in Servers |-> [j \in Servers |-> <<>>]]
    /\ unread = [s \in Servers |-> {}]
    /\ monitor = [s \in Servers |-> [at |-> IF s = First THEN "off" ELSE "check", nap |-> 0]]
    /\ election = [s \in Servers |-> [e \in Runs |-> [at |-> "none", nap |-> 0]]]
    /\ role = [s \in Servers |-> [r \in Roles |->
                 IF r # 1 THEN NoRole
                 ELSE [at |-> IF s = First THEN "managing" ELSE "loop", nap |-> 0,
                       manager |-> First, listening |-> TRUE, count |-> 0]]]
    /\ conn = [s \in Servers |-> [r \in Roles |->
                 IF r = 1 /\ s # First THEN [at |-> "connected", nap |-> 0, inbox |-> {}] ELSE NoConn]]
    /\ crashes = 0

-----------------------------------------------------------------------------
(* Time, locks and connections.                                             *)

(* mode_change_mutex is held for longer than a few reads only by a monitor  *)
(* that joins the election it started.                                      *)
Unlocked(s) == monitor[s].at # "joining"

(* What the socket of an entry of i's list leads to.                        *)
Connected(i, j, r) == Replica(j, r) \in replicas[i] /\ conn[j][r].at = "connected"

(* Bound: an ELECTION behind an unread ELECTION is one with it.             *)
Queued(q, m) == IF m = ELECTION /\ q # <<>> /\ q[Len(q)] = m THEN q ELSE Append(q, m)

ConnGoes(s, r, place, nap) ==
    conn' = [conn EXCEPT ![s][r] = [at |-> place, nap |-> nap, inbox |-> {}]]

(* s writes m to every entry of its list whose server is in `ids`: to an    *)
(* election listener on a peer's connection, to a connection thread on a    *)
(* replica's.                                                               *)
Send(s, ids, m) ==
    /\ wire' = [wire EXCEPT ![s] = [j \in Servers |->
                  IF j \in ids /\ up[j] /\ Peer(j) \in replicas[s]
                  THEN Queued(wire[s][j], m) ELSE wire[s][j]]]
    /\ conn' = [j \in Servers |-> [r \in Roles |->
                  IF j \in ids /\ Connected(s, j, r)
                  THEN [conn[j][r] EXCEPT !.inbox = @ \cup {m.type}] ELSE conn[j][r]]]

(* The entry leaves s's list and its socket is closed.                      *)
Drop(s, entry) ==
    /\ replicas' = [replicas EXCEPT ![s] = @ \ {entry}]
    /\ unread' = IF entry.kind = "peer" THEN [unread EXCEPT ![s] = @ \ {entry.id}]
                                        ELSE unread

-----------------------------------------------------------------------------
(* Elections begin: is_election_running is set, then a thread starts.       *)

ElectionGoes(s, e, place, nap) ==
    election' = [election EXCEPT ![s][e] = [at |-> place, nap |-> nap]]

(* Mutant: the flag stays up.                                               *)
EndsFlagged(s, e) ==
    ElectionGoes(s, e, "none", 0) /\ UNCHANGED is_election_running

ElectionEnds(s, e) ==
    /\ is_election_running' = [is_election_running EXCEPT ![s] = FALSE]
    /\ ElectionGoes(s, e, "none", 0)

NewElection(s, e) ==
    /\ election[s][e].at = "none"
    /\ is_election_running' = [is_election_running EXCEPT ![s] = TRUE]
    /\ ElectionGoes(s, e, "start", 0)

-----------------------------------------------------------------------------
(* The heartbeat monitor.                                                   *)

(* is_manager_running: a manager that was heard of less than six seconds    *)
(* ago, and nothing that looks like a change of manager.                    *)
Late(s) == IF Timed THEN {silence[s] > HEARTBEAT_TIMEOUT_SECONDS} ELSE BOOLEAN

ManagerMissing(s, late) == late \/ new_leader_decided[s] \/ is_election_running[s]

MonitorGoes(s, place, nap) ==
    monitor' = [monitor EXCEPT ![s] = [at |-> place, nap |-> nap]]

MonitorCheck(s) ==
    /\ up[s] /\ monitor[s].at = "check" /\ monitor[s].nap = 0
    /\ \E late \in Late(s) :
          IF global_server_mode[s] # "BACKUP" THEN MonitorGoes(s, "off", 0)
          ELSE IF ManagerMissing(s, late) THEN MonitorGoes(s, "suspect", 0)
          ELSE MonitorGoes(s, "check", Sleep(1))
    /\ UNCHANGED <<up, flags, silence, replicas, wire, unread, election, role, conn, crashes>>

(* With the mutex locked: an election that this thread will join.           *)
MonitorElects(s) ==
    /\ up[s] /\ monitor[s].at = "suspect"
    /\ global_server_mode[s] = "BACKUP"
    /\ NewElection(s, "joined")
    /\ MonitorGoes(s, "joining", 0)
    /\ UNCHANGED <<up, global_server_mode, new_leader_decided, election_answer_received,
                   silence, replicas, wire, unread, role, conn, crashes>>

(* Mutant: a monitor is good for one election.                              *)
MonitorRetires(s) == MonitorGoes(s, "off", 0)

MonitorRests(s) == MonitorGoes(s, "check", Sleep(1))

MonitorRelents(s) ==
    /\ up[s] /\ monitor[s].at = "suspect"
    /\ global_server_mode[s] # "BACKUP"
    /\ MonitorRests(s)
    /\ UNCHANGED <<up, flags, silence, replicas, wire, unread, election, role, conn, crashes>>

(* Mutant: the election is detached instead of joined.                      *)
DetachedAtOnce(s) == TRUE

Joinable(s) == election[s]["joined"].at = "none"

MonitorJoined(s) ==
    /\ up[s] /\ monitor[s].at = "joining"
    /\ Joinable(s)
    /\ MonitorRests(s)
    /\ UNCHANGED <<up, flags, silence, replicas, wire, unread, election, role, conn, crashes>>

-----------------------------------------------------------------------------
(* run_election.                                                            *)

(* Mutant: the ids are not compared.                                        *)
HigherOrLower(s) == {entry.id : entry \in replicas[s]}

(* Servers with a higher id among those in the list.                        *)
Higher(s) == {j \in {entry.id : entry \in replicas[s]} : j > s}

(* Mutant: the answers are not waited for.                                  *)
NoAnswerWait == Sleep(0)

AnswerWait == Sleep(3)

(* ELECTION goes to the higher ids; without any the election is won.        *)
ElectionStart(s, e) ==
    /\ up[s] /\ election[s][e].at = "start"
    /\ Send(s, Higher(s), ELECTION)
    /\ IF Higher(s) = {} THEN ElectionGoes(s, e, "alone", 0)
                         ELSE ElectionGoes(s, e, "waiting", AnswerWait)
    /\ UNCHANGED <<up, flags, silence, replicas, unread, monitor, role, crashes>>

(* The three seconds are over: an answer, or what is taken for one, loses.  *)
ElectionTimeout(s, e) ==
    /\ up[s] /\ election[s][e].at = "waiting" /\ election[s][e].nap = 0
    /\ ElectionGoes(s, e, IF election_answer_received[s] THEN "end" ELSE "unanswered", 0)
    /\ election_answer_received' = [election_answer_received EXCEPT ![s] = FALSE]
    /\ UNCHANGED <<up, global_server_mode, is_election_running, new_leader_decided, silence,
                   replicas, wire, unread, monitor, role, conn, crashes>>

(* The mode changes first; then a server that is alone lowers the flag and  *)
(* decides, and one that was not answered decides and lowers the flag.      *)
ElectionWon(s, e) ==
    /\ up[s] /\ election[s][e].at \in {"alone", "unanswered"}
    /\ global_server_mode' = [global_server_mode EXCEPT ![s] = "BACKUP_MANAGER"]
    /\ ElectionGoes(s, e, IF election[s][e].at = "alone" THEN "unflag" ELSE "decide", 0)
    /\ UNCHANGED <<up, is_election_running, new_leader_decided, election_answer_received,
                   silence, replicas, wire, unread, monitor, role, conn, crashes>>

ElectionUnflags(s, e) ==
    /\ up[s] /\ election[s][e].at = "unflag"
    /\ is_election_running' = [is_election_running EXCEPT ![s] = FALSE]
    /\ ElectionGoes(s, e, "decide last", 0)
    /\ UNCHANGED <<up, global_server_mode, new_leader_decided, election_answer_received,
                   silence, replicas, wire, unread, monitor, role, conn, crashes>>

ElectionDecides(s, e) ==
    /\ up[s] /\ election[s][e].at \in {"decide", "decide last"}
    /\ new_leader_decided' = [new_leader_decided EXCEPT ![s] = TRUE]
    /\ ElectionGoes(s, e, IF election[s][e].at = "decide" THEN "end" ELSE "none", 0)
    /\ UNCHANGED <<up, global_server_mode, is_election_running, election_answer_received,
                   silence, replicas, wire, unread, monitor, role, conn, crashes>>

ElectionEnd(s, e) ==
    /\ up[s] /\ election[s][e].at = "end"
    /\ ElectionEnds(s, e)
    /\ UNCHANGED <<up, global_server_mode, new_leader_decided, election_answer_received,
                   silence, replicas, wire, unread, monitor, role, conn, crashes>>

-----------------------------------------------------------------------------
(* election_listener_thread of j on the connection that i opened.           *)

Receives(j, i, type) ==
    /\ up[j]
    /\ wire[i][j] # <<>>
    /\ Head(wire[i][j]).type = type
    /\ wire' = [wire EXCEPT ![i][j] = Tail(@)]

(* ANSWER goes back on the same connection, and an election starts unless   *)
(* one is running.  (Bound: one detached election at a time.)               *)
HandleElection(j, i) ==
    /\ Receives(j, i, "ELECTION")
    /\ unread' = IF up[i] /\ Peer(j) \in replicas[i]
                 THEN [unread EXCEPT ![i] = @ \cup {j}] ELSE unread
    /\ IF is_election_running[j]
       THEN UNCHANGED <<is_election_running, election>>
       ELSE NewElection(j, "detached")
    /\ UNCHANGED <<up, global_server_mode, new_leader_decided, election_answer_received,
                   silence, replicas, monitor, role, conn, crashes>>

(* Mutant: the arguments of run_as_backup are one static record.            *)
NewRoleShared(s, manager) ==
    role' = [role EXCEPT ![s][1] = NewRoleUnder(manager)]

(* run_as_backup is called in a thread of its own, under a manager that is  *)
(* reachable or not, and never with a port of its own to announce.          *)
NewRole(s, manager) ==
    \E r \in Roles :
       /\ role[s][r].at = "none"
       /\ \A q \in 1 .. r - 1 : role[s][q].at # "none"
       /\ role' = [role EXCEPT ![s][r] = NewRoleUnder(manager)]

(* Whatever was known of the new manager is removed from the list, and a    *)
(* new run_as_backup starts under it.                                       *)
HandleCoordinator(j, i) ==
    /\ Receives(j, i, "COORDINATOR")
    /\ election_answer_received' = [election_answer_received EXCEPT ![j] = TRUE]
    /\ IF \E entry \in replicas[j] : entry.id = i
       THEN \E entry \in replicas[j] : entry.id = i /\ Drop(j, entry)
       ELSE UNCHANGED <<replicas, unread>>
    /\ new_leader_decided' = [new_leader_decided EXCEPT ![j] = TRUE]
    /\ NewRole(j, IF Head(wire[i][j]).listening THEN i ELSE Nobody)
    /\ UNCHANGED <<up, global_server_mode, is_election_running, silence, monitor, election,
                   conn, crashes>>

-----------------------------------------------------------------------------
(* run_as_backup.                                                           *)

RoleGoes(s, r, place, nap) ==
    role' = [role EXCEPT ![s][r].at = place, ![s][r].nap = nap]

RoleAt(s, r, place) == up[s] /\ role[s][r].at = place /\ role[s][r].nap = 0

(* The mode changes and a connection thread starts; a server that had a     *)
(* listener gets no new monitor.                                            *)
RoleStart(s, r) ==
    /\ RoleAt(s, r, "start")
    /\ global_server_mode' = [global_server_mode EXCEPT ![s] = "BACKUP"]
    /\ silence' = [silence EXCEPT ![s] = 0]
    /\ ConnGoes(s, r, "connecting", 0)
    /\ RoleGoes(s, r, "clear", 0)
    /\ UNCHANGED <<up, is_election_running, new_leader_decided, election_answer_received,
                   replicas, wire, unread, monitor, election, crashes>>

RoleClear(s, r) ==
    /\ RoleAt(s, r, "clear")
    /\ new_leader_decided' = [new_leader_decided EXCEPT ![s] = FALSE]
    /\ RoleGoes(s, r, "loop", 0)
    /\ UNCHANGED <<up, global_server_mode, is_election_running, election_answer_received,
                   silence, replicas, wire, unread, monitor, election, conn, crashes>>

RoleLoop(s, r) ==
    /\ RoleAt(s, r, "loop")
    /\ Unlocked(s)
    /\ IF global_server_mode[s] # "BACKUP" \/ new_leader_decided[s]
       THEN RoleGoes(s, r, "leaving", 0)
       ELSE RoleGoes(s, r, "loop", Sleep(1))
    /\ UNCHANGED <<up, flags, silence, replicas, wire, unread, monitor, election, conn, crashes>>

(* The mode is read again, without the mutex.                               *)
RoleLeaves(s, r) ==
    /\ RoleAt(s, r, "leaving")
    /\ RoleGoes(s, r, IF global_server_mode[s] = "BACKUP_MANAGER" THEN "announce" ELSE "done", 0)
    /\ UNCHANGED <<up, flags, silence, replicas, wire, unread, monitor, election, conn, crashes>>

(* COORDINATOR goes to the whole list.                                      *)
RoleAnnounces(s, r) ==
    /\ RoleAt(s, r, "announce")
    /\ Send(s, {entry.id : entry \in replicas[s]}, COORDINATOR(role[s][r].listening))
    /\ RoleGoes(s, r, "snapshot", 0)
    /\ UNCHANGED <<up, flags, silence, replicas, unread, monitor, election, crashes>>

RoleCounts(s, r) ==
    /\ RoleAt(s, r, "snapshot")
    /\ role' = [role EXCEPT ![s][r].at = "destroy",
                            ![s][r].count = Cardinality(replicas[s])]
    /\ UNCHANGED <<up, flags, silence, replicas, wire, unread, monitor, election, conn, crashes>>

RoleDestroys(s, r) ==
    /\ RoleAt(s, r, "destroy")
    /\ replicas' = [replicas EXCEPT ![s] = {}]
    /\ unread' = [unread EXCEPT ![s] = {}]
    /\ RoleGoes(s, r, "await", 0)
    /\ UNCHANGED <<up, flags, silence, wire, monitor, election, conn, crashes>>

(* Until as many replicas are in the list as were in it when it was counted.*)
RoleAwaits(s, r) ==
    /\ RoleAt(s, r, "await")
    /\ IF Cardinality(replicas[s]) # role[s][r].count
       THEN RoleGoes(s, r, "await", Sleep(1))
       ELSE role' = [role EXCEPT ![s][r].at = "manage", ![s][r].count = 0]
    /\ UNCHANGED <<up, flags, silence, replicas, wire, unread, monitor, election, conn, crashes>>

(* manage_replicas.                                                         *)
ManagerStart(s, r) ==
    /\ RoleAt(s, r, "manage")
    /\ global_server_mode' = [global_server_mode EXCEPT ![s] = "BACKUP_MANAGER"]
    /\ new_leader_decided' = [new_leader_decided EXCEPT ![s] = FALSE]
    /\ silence' = [silence EXCEPT ![s] = 0]
    /\ RoleGoes(s, r, "managing", 0)
    /\ UNCHANGED <<up, is_election_running, election_answer_received, replicas, wire,
                   unread, monitor, election, conn, crashes>>

(* Entries whose connection is gone; writing to one may or may not tell.    *)
Dead(s) == {entry \in replicas[s] :
               IF entry.kind = "peer" THEN ~up[entry.id]
               ELSE ~up[entry.id] \/ conn[entry.id][entry.role].at # "connected"}

ManagerBeats(s, r) ==
    /\ RoleAt(s, r, "managing")
    /\ Unlocked(s)
    /\ global_server_mode[s] = "BACKUP_MANAGER"
    /\ conn' = [j \in Servers |-> [q \in Roles |->
                  IF Connected(s, j, q)
                  THEN [conn[j][q] EXCEPT !.inbox = @ \cup {"HEARTBEAT"}] ELSE conn[j][q]]]
    /\ \E pruned \in SUBSET Dead(s) : replicas' = [replicas EXCEPT ![s] = @ \ pruned]
    /\ RoleGoes(s, r, "managing", Sleep(2))
    /\ UNCHANGED <<up, flags, silence, wire, unread, monitor, election, crashes>>

ManagerLeaves(s, r) ==
    /\ RoleAt(s, r, "managing")
    /\ Unlocked(s)
    /\ global_server_mode[s] # "BACKUP_MANAGER"
    /\ RoleGoes(s, r, "done", 0)
    /\ UNCHANGED <<up, flags, silence, replicas, wire, unread, monitor, election, conn, crashes>>

-----------------------------------------------------------------------------
(* connect_to_server_thread.                                                *)

ConnAt(s, r, place) == up[s] /\ conn[s][r].at = place /\ conn[s][r].nap = 0

Reachable(manager) == manager \in Servers /\ up[manager]

ConnConnects(s, r) ==
    /\ ConnAt(s, r, "connecting")
    /\ Unlocked(s)
    /\ IF global_server_mode[s] # "BACKUP" THEN ConnGoes(s, r, "closed", 0)
       ELSE IF Reachable(role[s][r].manager) THEN ConnGoes(s, r, "pending", 0)
       ELSE ConnGoes(s, r, "connecting", Sleep(1))
    /\ UNCHANGED <<up, flags, silence, replicas, wire, unread, monitor, election, role, crashes>>

(* replica_listener_thread of the manager that s connects to.  A manager    *)
(* takes the connection as a replica's.                                     *)
AcceptReplica(s, r) ==
    /\ ConnAt(s, r, "pending")
    /\ Reachable(role[s][r].manager)
    /\ LET m == role[s][r].manager
       IN  /\ global_server_mode[m] = "BACKUP_MANAGER"
           /\ \E pruned \in SUBSET Dead(m) :
                 replicas' = [replicas EXCEPT ![m] = (@ \ pruned) \cup {Replica(s, r)}]
    /\ ConnGoes(s, r, "connected", 0)
    /\ UNCHANGED <<up, flags, silence, wire, unread, monitor, election, role, crashes>>

(* A backup takes it as a peer's and reads the replica's "id:port" as an    *)
(* election message, of the type that is the id: 1 is an ANSWER, 2 is a     *)
(* COORDINATOR that names nobody.                                           *)
AcceptPeer(s, r) ==
    /\ ConnAt(s, r, "pending")
    /\ Reachable(role[s][r].manager)
    /\ LET m == role[s][r].manager
       IN  /\ global_server_mode[m] = "BACKUP"
           /\ election_answer_received' =
                 [election_answer_received EXCEPT ![m] = @ \/ s \in {1, 2}]
           /\ new_leader_decided' = [new_leader_decided EXCEPT ![m] = @ \/ s = 2]
           /\ IF s = 2 THEN NewRole(m, Nobody) ELSE UNCHANGED role
    /\ ConnGoes(s, r, "ignored", 0)
    /\ UNCHANGED <<up, global_server_mode, is_election_running, silence, replicas, wire,
                   unread, monitor, election, crashes>>

(* One event a second is read, and none while an election runs.  An         *)
(* ELECTION that ends up here is taken for CLIENT_CONNECTED.                *)
ConnReads(s, r) ==
    /\ ConnAt(s, r, "connected")
    /\ ~is_election_running[s]
    /\ Unlocked(s)
    /\ global_server_mode[s] = "BACKUP"
    /\ \E m \in conn[s][r].inbox \ {"COORDINATOR"} :
          /\ silence' = [silence EXCEPT ![s] = IF m = "HEARTBEAT" THEN 0 ELSE @]
          /\ conn' = [conn EXCEPT ![s][r].inbox = @ \ {m}, ![s][r].nap = Sleep(1)]
    /\ UNCHANGED <<up, flags, replicas, wire, unread, monitor, election, role, crashes>>

(* The manager is gone or has closed this connection: the thread ends and   *)
(* nothing connects again.                                                  *)
ConnCloses(s, r) ==
    /\ ConnAt(s, r, "pending") \/ ConnAt(s, r, "connected") \/ ConnAt(s, r, "ignored")
    /\ ~is_election_running[s]
    /\ Unlocked(s)
    /\ \/ ~Reachable(role[s][r].manager)
       \/ conn[s][r].at = "connected" /\ Replica(s, r) \notin replicas[role[s][r].manager]
    /\ ConnGoes(s, r, "closed", 0)
    /\ UNCHANGED <<up, flags, silence, replicas, wire, unread, monitor, election, role, crashes>>

ConnLeaves(s, r) ==
    /\ ConnAt(s, r, "pending") \/ ConnAt(s, r, "connected") \/ ConnAt(s, r, "ignored")
    /\ ~is_election_running[s]
    /\ Unlocked(s)
    /\ global_server_mode[s] # "BACKUP"
    /\ ConnGoes(s, r, "closed", 0)
    /\ UNCHANGED <<up, flags, silence, replicas, wire, unread, monitor, election, role, crashes>>

-----------------------------------------------------------------------------
(* Crashes and time.                                                        *)

(* What was written and not yet read may be lost with its sender.           *)
Prefixes(q) == {SubSeq(q, 1, n) : n \in 0 .. Len(q)}

Stops(s) ==
    /\ up' = [up EXCEPT ![s] = FALSE]
    /\ \E kept \in [Servers -> UNION {Prefixes(wire[s][j]) : j \in Servers}] :
          /\ \A j \in Servers : kept[j] \in Prefixes(wire[s][j])
          /\ wire' = [i \in Servers |-> IF i = s THEN kept
                                        ELSE [wire[i] EXCEPT ![s] = <<>>]]
    /\ global_server_mode' = [global_server_mode EXCEPT ![s] = "BACKUP"]
    /\ is_election_running' = [is_election_running EXCEPT ![s] = FALSE]
    /\ new_leader_decided' = [new_leader_decided EXCEPT ![s] = FALSE]
    /\ election_answer_received' = [election_answer_received EXCEPT ![s] = FALSE]
    /\ silence' = [silence EXCEPT ![s] = 0]
    /\ replicas' = [replicas EXCEPT ![s] = {}]
    /\ unread' = [unread EXCEPT ![s] = {}]
    /\ monitor' = [monitor EXCEPT ![s] = [at |-> "off", nap |-> 0]]
    /\ election' = [election EXCEPT ![s] = [e \in Runs |-> [at |-> "none", nap |-> 0]]]
    /\ role' = [role EXCEPT ![s] = [r \in Roles |-> NoRole]]
    /\ conn' = [conn EXCEPT ![s] = [r \in Roles |-> NoConn]]

Crash(s) ==
    /\ up[s]
    /\ crashes < MaxCrashes
    /\ crashes' = crashes + 1
    /\ Stops(s)

(* A connection thread is handed an election message.  COORDINATOR reads as *)
(* FILE_UPLOADED of a session there is not, and the process dies.           *)
MisreadCoordinator(s, r) ==
    /\ ConnAt(s, r, "connected")
    /\ "COORDINATOR" \in conn[s][r].inbox
    /\ Unlocked(s) /\ ~is_election_running[s] /\ global_server_mode[s] = "BACKUP"
    /\ Stops(s)
    /\ UNCHANGED crashes

(* The thread still looks for the manager under a name in memory that its   *)
(* run_as_backup has freed: the name may have turned into one that resolves *)
(* to nothing, which ends the process.                                      *)
FreedHostname(s, r) ==
    /\ ConnAt(s, r, "connecting")
    /\ Unlocked(s) /\ global_server_mode[s] = "BACKUP"
    /\ role[s][r].at \in {"manage", "managing", "done"}
    /\ Stops(s)
    /\ UNCHANGED crashes

(* A thread of s that is due.                                               *)
Busy(s) ==
    /\ up[s]
    /\ \/ monitor[s].at = "suspect" \/ (monitor[s].at = "check" /\ monitor[s].nap = 0)
       \/ monitor[s].at = "joining" /\ election[s]["joined"].at = "none"
       \/ \E e \in Runs : election[s][e].at # "none" /\ election[s][e].nap = 0
       \/ \E r \in Roles :
             \/ /\ role[s][r].at \in {"loop", "managing"}
                /\ role[s][r].nap = 0 /\ Unlocked(s)
             \/ /\ role[s][r].at \notin {"none", "loop", "managing", "done"}
                /\ role[s][r].nap = 0
             \/ conn[s][r].at = "connecting" /\ conn[s][r].nap = 0 /\ Unlocked(s)
             \/ /\ conn[s][r].at = "pending" /\ Reachable(role[s][r].manager)
                /\ \E q \in Roles : role[role[s][r].manager][q].at = "none"
             \/ /\ conn[s][r].at = "connected" /\ conn[s][r].nap = 0
                /\ conn[s][r].inbox # {}
                /\ ~is_election_running[s] /\ Unlocked(s)
                /\ global_server_mode[s] = "BACKUP"
       \/ s \notin Slow /\ \E i \in Servers : wire[i][s] # <<>>

Older(nap) == IF nap = 0 THEN 0 ELSE nap - 1

(* A second passes.  Everything due in it happens before the next, in any   *)
(* order: messages and threads are prompt at this scale.                    *)
Tick ==
    /\ Timed
    /\ \A s \in Servers : ~Busy(s)
    /\ silence' = [s \in Servers |->
                     IF up[s] /\ global_server_mode[s] = "BACKUP"
                        /\ silence[s] <= HEARTBEAT_TIMEOUT_SECONDS
                     THEN silence[s] + 1 ELSE silence[s]]
    /\ monitor' = [s \in Servers |-> [monitor[s] EXCEPT !.nap = Older(@)]]
    /\ election' = [s \in Servers |->
                      [e \in Runs |-> [election[s][e] EXCEPT !.nap = Older(@)]]]
    /\ role' = [s \in Servers |-> [r \in Roles |-> [role[s][r] EXCEPT !.nap = Older(@)]]]
    /\ conn' = [s \in Servers |-> [r \in Roles |-> [conn[s][r] EXCEPT !.nap = Older(@)]]]
    /\ UNCHANGED <<up, flags, replicas, wire, unread, crashes>>

-----------------------------------------------------------------------------
MonitorStep(s) ==
    MonitorCheck(s) \/ MonitorElects(s) \/ MonitorRelents(s) \/ MonitorJoined(s)

ElectionStep(s, e) ==
    \/ ElectionStart(s, e)
    \/ ElectionTimeout(s, e)
    \/ ElectionWon(s, e)
    \/ ElectionUnflags(s, e)
    \/ ElectionDecides(s, e)
    \/ ElectionEnd(s, e)

ListenerStep(s, i) == HandleElection(s, i) \/ HandleCoordinator(s, i)

RoleStep(s, r) ==
    \/ RoleStart(s, r)
    \/ RoleClear(s, r)
    \/ RoleLoop(s, r)
    \/ RoleLeaves(s, r)
    \/ RoleAnnounces(s, r)
    \/ RoleCounts(s, r)
    \/ RoleDestroys(s, r)
    \/ RoleAwaits(s, r)
    \/ ManagerStart(s, r)
    \/ ManagerBeats(s, r)
    \/ ManagerLeaves(s, r)

ConnStep(s, r) ==
    \/ ConnConnects(s, r)
    \/ AcceptReplica(s, r)
    \/ AcceptPeer(s, r)
    \/ ConnReads(s, r)
    \/ ConnCloses(s, r)
    \/ ConnLeaves(s, r)

Next ==
    \/ \E s \in Servers :
          \/ MonitorStep(s)
          \/ \E e \in Runs : ElectionStep(s, e)
          \/ \E i \in Servers : ListenerStep(s, i)
          \/ \E r \in Roles :
                \/ RoleStep(s, r)
                \/ ConnStep(s, r)
                \/ MisreadCoordinator(s, r)
                \/ FreedHostname(s, r)
          \/ Crash(s)
    \/ Tick

Spec == Init /\ [][Next]_vars

(* Time goes on: as Tick waits for every thread that is due, none of them   *)
(* is put off for ever.                                                     *)
FairSpec == Spec /\ []<><<Tick>>_vars

-----------------------------------------------------------------------------
(* What holds however slow a server is.                                     *)

(* ELECTION travels from a lower id to a higher one and ANSWER from a       *)
(* higher id to a lower one, so that election_listener_thread never gets to *)
(* its own complaint (election.c:217-219).                                  *)
ElectionsGoUp ==
    \A i, j \in Servers :
       /\ \A k \in 1 .. Len(wire[i][j]) : wire[i][j][k].type = "ELECTION" => i < j
       /\ j \in unread[i] => i < j

(* mode_change_mutex stays locked across an election only for a monitor     *)
(* that has still to join it (serverRoles.c:173-184), although listeners    *)
(* detach elections of their own meanwhile and any of them clears the flag. *)
JoinHoldsElection ==
    \A s \in Servers : election[s]["joined"].at # "none" => monitor[s].at = "joining"

(* A raised is_election_running always has an election left that will clear *)
(* it, so that connect_to_server_thread does not spin for ever on it        *)
(* (serverRoles.c:258-261).                                                 *)
RunningMeansElection ==
    \A s \in Servers : is_election_running[s] => \E e \in Runs : election[s][e].at # "none"

(* Every replica in a list was connected by the run_as_backup thread that   *)
(* chose this very server as its manager, through all the roles and         *)
(* connections a server has had (serverRoles.c:97-116, election.c:257-269). *)
ListedReplicasChoseUs ==
    \A i, j \in Servers, r \in Roles :
       Replica(j, r) \in replicas[i] /\ up[j] =>
          role[j][r].manager = i /\ conn[j][r].at \in {"connected", "closed"}

-----------------------------------------------------------------------------
(* What holds of servers that keep up with time.                            *)

Managers == {s \in Servers : up[s] /\ global_server_mode[s] = "BACKUP_MANAGER"}

(* While the first manager lives nobody suspects it, whoever else crashes:  *)
(* a heartbeat every two seconds, one event read a second and a timeout of  *)
(* five leave room (serverRoles.c:48, 273, 360, 431).                       *)
NoFalseAlarm ==
    up[First] => \A s \in Servers : ~is_election_running[s] /\ monitor[s].at # "suspect"

(* A manager beside the one with the highest id of all has removed that one *)
(* from its list: it had heard of the other's election and won all the same *)
(* (election.c:114-124, 254).  Nobody reads ANSWER, so that two of middle   *)
(* ids may become managers unheard of.                                      *)
LowerKnewOfHighest ==
    \A i, j \in Managers : i < j /\ (\A k \in Servers : k <= j) => Peer(j) \notin replicas[i]

(* A group without a manager gets one, if there is anyone left.             *)
ManagerReplaced ==
    Managers = {} ~> Managers # {} \/ \A s \in Servers : ~up[s]

(* An election that began ends: the connection threads read again.          *)
ElectionsEnd ==
    \A s \in Servers : is_election_running[s] ~> ~is_election_running[s]

-----------------------------------------------------------------------------
(* What the code says of itself.                                            *)

(* "Launch heartbeat monitor thread (if not already running)"               *)
(* (serverRoles.c:509): a server in its backup loop has a monitor.          *)
BackupIsMonitored ==
    \A s \in Servers, r \in Roles :
       up[s] /\ role[s][r].at = "loop" /\ global_server_mode[s] = "BACKUP" =>
          monitor[s].at # "off"
=============================================================================
