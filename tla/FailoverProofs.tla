--------------------------- MODULE FailoverProofs ---------------------------
(***************************************************************************)
(* Proofs about Failover for every set of servers, timed or not, with any    *)
(* listeners slow and any bounds.                                           *)
(***************************************************************************)
EXTENDS Failover, FiniteSetTheorems, SequenceTheorems, TLAPS

-----------------------------------------------------------------------------
(* Types of what the actions are built from.                                *)

LEMMA SleepType ==
  \A k \in Naps : Sleep(k) \in Naps
BY TimedAssumption DEF Sleep, Naps

LEMMA OlderType ==
  \A nap \in Naps : Older(nap) \in Naps
BY DEF Older, Naps

LEMMA MonitorGoesType ==
  ASSUME TypeOK, NEW s \in Servers, NEW place \in MonitorPlaces, NEW nap \in Naps,
         MonitorGoes(s, place, nap)
  PROVE  monitor' \in [Servers -> MonitorType]
BY DEF TypeOK, MonitorGoes, MonitorType

LEMMA ElectionGoesType ==
  ASSUME TypeOK, NEW s \in Servers, NEW e \in Runs, NEW place \in ElectionPlaces,
         NEW nap \in Naps, ElectionGoes(s, e, place, nap)
  PROVE  election' \in [Servers -> [Runs -> ElectionType]]
BY DEF TypeOK, ElectionGoes, ElectionType

LEMMA RoleGoesType ==
  ASSUME TypeOK, NEW s \in Servers, NEW r \in Roles, NEW place \in RolePlaces,
         NEW nap \in Naps, RoleGoes(s, r, place, nap)
  PROVE  role' \in [Servers -> [Roles -> RoleType]]
<1>1. role \in [Servers -> [Roles -> RoleType]]
  BY DEF TypeOK
<1>2. role[s][r] \in RoleType
  BY <1>1
<1>3. [role[s][r] EXCEPT !.at = place, !.nap = nap] \in RoleType
  BY <1>2 DEF RoleType
<1>4. role' = [role EXCEPT ![s] = [role[s] EXCEPT ![r] =
                 [role[s][r] EXCEPT !.at = place, !.nap = nap]]]
  BY <1>1, <1>2 DEF RoleGoes, RoleType
<1> QED BY <1>1, <1>3, <1>4

LEMMA ConnGoesType ==
  ASSUME TypeOK, NEW s \in Servers, NEW r \in Roles, NEW place \in ConnPlaces,
         NEW nap \in Naps, ConnGoes(s, r, place, nap)
  PROVE  conn' \in [Servers -> [Roles -> ConnType]]
<1>1. conn \in [Servers -> [Roles -> ConnType]]
  BY DEF TypeOK
<1>2. [at |-> place, nap |-> nap, inbox |-> {}] \in ConnType
  BY DEF ConnType
<1> QED BY <1>1, <1>2 DEF ConnGoes

LEMMA QueuedType ==
  ASSUME NEW q \in Seq(Messages), NEW m \in Messages
  PROVE  Queued(q, m) \in Seq(Messages)
<1>1. Append(q, m) \in Seq(Messages)
  OBVIOUS
<1> QED BY <1>1 DEF Queued

LEMMA MessageTypes ==
  /\ ELECTION \in Messages
  /\ \A l \in BOOLEAN : COORDINATOR(l) \in Messages
  /\ \A m \in Messages : m.type \in {"HEARTBEAT", "ELECTION", "COORDINATOR"}
<1>1. ELECTION \in Messages /\ \A l \in BOOLEAN : COORDINATOR(l) \in Messages
  BY DEF Messages
<1>2. ASSUME NEW m \in Messages
      PROVE  m.type \in {"HEARTBEAT", "ELECTION", "COORDINATOR"}
  <2>1. m = ELECTION \/ \E l \in BOOLEAN : m = COORDINATOR(l)
    BY DEF Messages
  <2> QED BY <2>1 DEF ELECTION, COORDINATOR
<1> QED BY <1>1, <1>2

LEMMA SendType ==
  ASSUME TypeOK, NEW s \in Servers, NEW ids, NEW m \in Messages, Send(s, ids, m)
  PROVE  /\ wire' \in [Servers -> [Servers -> Seq(Messages)]]
         /\ conn' \in [Servers -> [Roles -> ConnType]]
<1>1. wire \in [Servers -> [Servers -> Seq(Messages)]] /\ conn \in [Servers -> [Roles -> ConnType]]
  BY DEF TypeOK
<1>2. \A j \in Servers : wire[s][j] \in Seq(Messages) /\ Queued(wire[s][j], m) \in Seq(Messages)
  BY <1>1, QueuedType
<1>3. ASSUME NEW j \in Servers, NEW r \in Roles
      PROVE  [conn[j][r] EXCEPT !.inbox = @ \cup {m.type}] \in ConnType
  <2>1. conn[j][r] \in ConnType
    BY <1>1
  <2> QED BY <2>1, MessageTypes DEF ConnType
<1>4. wire' \in [Servers -> [Servers -> Seq(Messages)]]
  <2> DEFINE row == [j \in Servers |->
                      IF j \in ids /\ up[j] /\ Peer(j) \in replicas[s]
                      THEN Queued(wire[s][j], m) ELSE wire[s][j]]
  <2>1. row \in [Servers -> Seq(Messages)]
    BY <1>2
  <2>2. wire' = [wire EXCEPT ![s] = row]
    BY DEF Send
  <2> HIDE DEF row
  <2> QED BY <1>1, <2>1, <2>2
<1>5. conn' \in [Servers -> [Roles -> ConnType]]
  <2>1. conn' = [j \in Servers |-> [r \in Roles |->
                  IF j \in ids /\ Connected(s, j, r)
                  THEN [conn[j][r] EXCEPT !.inbox = @ \cup {m.type}] ELSE conn[j][r]]]
    BY DEF Send
  <2> QED BY <1>1, <1>3, <2>1
<1> QED BY <1>4, <1>5

LEMMA DropType ==
  ASSUME TypeOK, NEW s \in Servers, NEW entry, Drop(s, entry)
  PROVE  /\ replicas' \in [Servers -> SUBSET Entries]
         /\ unread' \in [Servers -> SUBSET Servers]
BY DEF TypeOK, Drop

LEMMA NewRoleType ==
  ASSUME TypeOK, NEW s \in Servers, NEW manager \in Servers \cup {Nobody},
         NewRole(s, manager)
  PROVE  role' \in [Servers -> [Roles -> RoleType]]
<1>1. NewRoleUnder(manager) \in RoleType
  BY DEF NewRoleUnder, RoleType, RolePlaces, Naps
<1> QED BY <1>1 DEF TypeOK, NewRole

LEMMA NewElectionType ==
  ASSUME TypeOK, NEW s \in Servers, NEW e \in Runs, NewElection(s, e)
  PROVE  /\ is_election_running' \in [Servers -> BOOLEAN]
         /\ election' \in [Servers -> [Runs -> ElectionType]]
<1>1. "start" \in ElectionPlaces /\ 0 \in Naps
  BY DEF ElectionPlaces, Naps
<1> QED BY <1>1, ElectionGoesType DEF TypeOK, NewElection

LEMMA ListIsFinite ==
  ASSUME TypeOK, NEW s \in Servers
  PROVE  Cardinality(replicas[s]) \in Nat
<1> DEFINE Keys == Servers \X (0 .. MaxRoles)
           entry == [k \in Keys |-> IF k[2] = 0 THEN Peer(k[1]) ELSE Replica(k[1], k[2])]
<1>1. IsFiniteSet(Keys)
  <2>1. IsFiniteSet(0 .. MaxRoles)
    BY FS_Interval, BoundsAssumption
  <2> QED BY <2>1, FS_Product, ServersAssumption
<1>2. entry \in Surjection(Keys, Entries)
  <2>1. entry \in [Keys -> Entries]
    BY BoundsAssumption DEF Entries, Roles
  <2>2. ASSUME NEW x \in Entries
        PROVE  \E k \in Keys : entry[k] = x
    <3>1. CASE \E j \in Servers : x = Peer(j)
      <4>1. PICK j \in Servers : x = Peer(j)
        BY <3>1
      <4>2. <<j, 0>> \in Keys
        BY BoundsAssumption
      <4> QED BY <4>1, <4>2
    <3>2. CASE \E j \in Servers, r \in Roles : x = Replica(j, r)
      <4>1. PICK j \in Servers, r \in Roles : x = Replica(j, r)
        BY <3>2
      <4>2. <<j, r>> \in Keys /\ r # 0
        BY BoundsAssumption DEF Roles
      <4> QED BY <4>1, <4>2
    <3> QED BY <3>1, <3>2 DEF Entries
  <2> QED BY <2>1, <2>2 DEF Surjection
<1>3. IsFiniteSet(Entries)
  BY <1>1, <1>2, FS_Surjection
<1>4. replicas[s] \in SUBSET Entries
  BY DEF TypeOK
<1> QED BY <1>3, <1>4, FS_Subset, FS_CardinalityType

-----------------------------------------------------------------------------
(* Every action keeps the types.                                            *)

LEMMA MonitorStepType ==
  ASSUME TypeOK, NEW s \in Servers, MonitorStep(s)
  PROVE  TypeOK'
<1>1. \A place \in {"off", "suspect", "check", "joining"} : place \in MonitorPlaces
  BY DEF MonitorPlaces
<1>2. Sleep(1) \in Naps /\ 0 \in Naps
  BY SleepType DEF Naps
<1>3. CASE MonitorCheck(s)
  <2>1. monitor' \in [Servers -> MonitorType]
    BY <1>1, <1>2, <1>3, MonitorGoesType DEF MonitorCheck
  <2> QED BY <2>1, <1>3 DEF MonitorCheck, TypeOK, flags
<1>4. CASE MonitorElects(s)
  <2>1. monitor' \in [Servers -> MonitorType]
    BY <1>1, <1>2, <1>4, MonitorGoesType DEF MonitorElects
  <2>2. "joined" \in Runs
    BY DEF Runs
  <2> QED BY <2>1, <2>2, <1>4, NewElectionType DEF MonitorElects, TypeOK
<1>5. CASE MonitorRelents(s)
  <2>1. monitor' \in [Servers -> MonitorType]
    BY <1>1, <1>2, <1>5, MonitorGoesType DEF MonitorRelents, MonitorRests
  <2> QED BY <2>1, <1>5 DEF MonitorRelents, TypeOK, flags
<1>6. CASE MonitorJoined(s)
  <2>1. monitor' \in [Servers -> MonitorType]
    BY <1>1, <1>2, <1>6, MonitorGoesType DEF MonitorJoined, MonitorRests
  <2> QED BY <2>1, <1>6 DEF MonitorJoined, TypeOK, flags
<1> QED BY <1>3, <1>4, <1>5, <1>6 DEF MonitorStep

LEMMA ElectionStepType ==
  ASSUME TypeOK, NEW s \in Servers, NEW e \in Runs, ElectionStep(s, e)
  PROVE  TypeOK'
<1>1. \A place \in {"none", "waiting", "alone", "unflag", "decide last", "unanswered",
                    "decide", "end"} : place \in ElectionPlaces
  BY DEF ElectionPlaces
<1>2. AnswerWait \in Naps /\ 0 \in Naps
  BY SleepType DEF Naps, AnswerWait
<1>3. CASE ElectionStart(s, e)
  <2>1. election' \in [Servers -> [Runs -> ElectionType]]
    BY <1>1, <1>2, <1>3, ElectionGoesType DEF ElectionStart
  <2>2. /\ wire' \in [Servers -> [Servers -> Seq(Messages)]]
        /\ conn' \in [Servers -> [Roles -> ConnType]]
    BY <1>3, SendType, MessageTypes DEF ElectionStart
  <2> QED BY <2>1, <2>2, <1>3 DEF ElectionStart, TypeOK, flags
<1>4. CASE ElectionTimeout(s, e)
  <2>1. election' \in [Servers -> [Runs -> ElectionType]]
    BY <1>1, <1>2, <1>4, ElectionGoesType DEF ElectionTimeout
  <2> QED BY <2>1, <1>4 DEF ElectionTimeout, TypeOK
<1>5. CASE ElectionWon(s, e)
  <2>1. election' \in [Servers -> [Runs -> ElectionType]]
    BY <1>1, <1>2, <1>5, ElectionGoesType DEF ElectionWon
  <2> QED BY <2>1, <1>5 DEF ElectionWon, TypeOK, Modes
<1>6. CASE ElectionUnflags(s, e)
  <2>1. election' \in [Servers -> [Runs -> ElectionType]]
    BY <1>1, <1>2, <1>6, ElectionGoesType DEF ElectionUnflags
  <2> QED BY <2>1, <1>6 DEF ElectionUnflags, TypeOK
<1>7. CASE ElectionDecides(s, e)
  <2>1. election' \in [Servers -> [Runs -> ElectionType]]
    BY <1>1, <1>2, <1>7, ElectionGoesType DEF ElectionDecides
  <2> QED BY <2>1, <1>7 DEF ElectionDecides, TypeOK
<1>8. CASE ElectionEnd(s, e)
  <2>1. election' \in [Servers -> [Runs -> ElectionType]]
    BY <1>1, <1>2, <1>8, ElectionGoesType DEF ElectionEnd, ElectionEnds
  <2> QED BY <2>1, <1>8 DEF ElectionEnd, ElectionEnds, TypeOK
<1> QED BY <1>3, <1>4, <1>5, <1>6, <1>7, <1>8 DEF ElectionStep

LEMMA ReceivesType ==
  ASSUME TypeOK, NEW i \in Servers, NEW j \in Servers, NEW type, Receives(j, i, type)
  PROVE  /\ wire' \in [Servers -> [Servers -> Seq(Messages)]]
         /\ Head(wire[i][j]) \in Messages
         /\ wire' = [wire EXCEPT ![i] = [wire[i] EXCEPT ![j] = Tail(wire[i][j])]]
<1>1. wire \in [Servers -> [Servers -> Seq(Messages)]]
  BY DEF TypeOK
<1>2. wire[i][j] \in Seq(Messages) /\ wire[i][j] # <<>>
  BY <1>1 DEF Receives
<1>3. Tail(wire[i][j]) \in Seq(Messages) /\ Head(wire[i][j]) \in Messages
  BY <1>2
<1>4. wire' = [wire EXCEPT ![i] = [wire[i] EXCEPT ![j] = Tail(wire[i][j])]]
  BY <1>1 DEF Receives
<1> QED BY <1>1, <1>3, <1>4

LEMMA ListenerStepType ==
  ASSUME TypeOK, NEW j \in Servers, NEW i \in Servers, ListenerStep(j, i)
  PROVE  TypeOK'
<1>1. CASE HandleElection(j, i)
  <2>1. wire' \in [Servers -> [Servers -> Seq(Messages)]]
    BY <1>1, ReceivesType DEF HandleElection
  <2>2. unread' \in [Servers -> SUBSET Servers]
    BY <1>1 DEF HandleElection, TypeOK
  <2>3. /\ is_election_running' \in [Servers -> BOOLEAN]
        /\ election' \in [Servers -> [Runs -> ElectionType]]
    <3>1. "detached" \in Runs
      BY DEF Runs
    <3> QED BY <3>1, <1>1, NewElectionType DEF HandleElection, TypeOK
  <2> QED BY <2>1, <2>2, <2>3, <1>1 DEF HandleElection, TypeOK
<1>2. CASE HandleCoordinator(j, i)
  <2>1. wire' \in [Servers -> [Servers -> Seq(Messages)]]
    BY <1>2, ReceivesType DEF HandleCoordinator
  <2>2. /\ replicas' \in [Servers -> SUBSET Entries]
        /\ unread' \in [Servers -> SUBSET Servers]
    BY <1>2, DropType DEF HandleCoordinator, TypeOK
  <2>3. role' \in [Servers -> [Roles -> RoleType]]
    BY <1>2, NewRoleType DEF HandleCoordinator
  <2> QED BY <2>1, <2>2, <2>3, <1>2 DEF HandleCoordinator, TypeOK
<1> QED BY <1>1, <1>2 DEF ListenerStep

LEMMA RoleStepType ==
  ASSUME TypeOK, NEW s \in Servers, NEW r \in Roles, RoleStep(s, r)
  PROVE  TypeOK'
<1>1. \A place \in {"clear", "loop", "leaving", "announce", "done", "snapshot", "destroy",
                    "await", "manage", "managing"} : place \in RolePlaces
  BY DEF RolePlaces, Leading
<1>2. Sleep(1) \in Naps /\ Sleep(2) \in Naps /\ 0 \in Naps
  BY SleepType DEF Naps
<1>3. role \in [Servers -> [Roles -> RoleType]] /\ role[s][r] \in RoleType
  BY DEF TypeOK
<1>4. CASE RoleStart(s, r)
  <2>1. role' \in [Servers -> [Roles -> RoleType]]
    BY <1>1, <1>2, <1>4, RoleGoesType DEF RoleStart
  <2>2. conn' \in [Servers -> [Roles -> ConnType]]
    <3>1. "connecting" \in ConnPlaces
      BY DEF ConnPlaces
    <3> QED BY <3>1, <1>2, <1>4, ConnGoesType DEF RoleStart
  <2>3. silence' \in [Servers -> Silences]
    BY <1>4 DEF RoleStart, TypeOK, Silences, HEARTBEAT_TIMEOUT_SECONDS
  <2> QED BY <2>1, <2>2, <2>3, <1>4 DEF RoleStart, TypeOK, Modes
<1>5. CASE RoleClear(s, r)
  <2>1. role' \in [Servers -> [Roles -> RoleType]]
    BY <1>1, <1>2, <1>5, RoleGoesType DEF RoleClear
  <2> QED BY <2>1, <1>5 DEF RoleClear, TypeOK
<1>6. CASE RoleLoop(s, r)
  <2>1. role' \in [Servers -> [Roles -> RoleType]]
    BY <1>1, <1>2, <1>6, RoleGoesType DEF RoleLoop
  <2> QED BY <2>1, <1>6 DEF RoleLoop, TypeOK, flags
<1>7. CASE RoleLeaves(s, r)
  <2>1. role' \in [Servers -> [Roles -> RoleType]]
    BY <1>1, <1>2, <1>7, RoleGoesType DEF RoleLeaves
  <2> QED BY <2>1, <1>7 DEF RoleLeaves, TypeOK, flags
<1>8. CASE RoleAnnounces(s, r)
  <2>1. role' \in [Servers -> [Roles -> RoleType]]
    BY <1>1, <1>2, <1>8, RoleGoesType DEF RoleAnnounces
  <2>2. COORDINATOR(role[s][r].listening) \in Messages
    BY <1>3, MessageTypes DEF RoleType
  <2>3. /\ wire' \in [Servers -> [Servers -> Seq(Messages)]]
        /\ conn' \in [Servers -> [Roles -> ConnType]]
    BY <2>2, <1>8, SendType DEF RoleAnnounces
  <2> QED BY <2>1, <2>3, <1>8 DEF RoleAnnounces, TypeOK, flags
<1>9. CASE RoleCounts(s, r)
  <2>1. role' \in [Servers -> [Roles -> RoleType]]
    <3>1. [role[s][r] EXCEPT !.at = "destroy", !.count = Cardinality(replicas[s])] \in RoleType
      BY <1>1, <1>3, ListIsFinite DEF RoleType
    <3>2. role' = [role EXCEPT ![s] = [role[s] EXCEPT ![r] =
             [role[s][r] EXCEPT !.at = "destroy", !.count = Cardinality(replicas[s])]]]
      BY <1>3, <1>9 DEF RoleCounts, RoleType
    <3> QED BY <1>3, <3>1, <3>2
  <2> QED BY <2>1, <1>9 DEF RoleCounts, TypeOK, flags
<1>10. CASE RoleDestroys(s, r)
  <2>1. role' \in [Servers -> [Roles -> RoleType]]
    BY <1>1, <1>2, <1>10, RoleGoesType DEF RoleDestroys
  <2> QED BY <2>1, <1>10 DEF RoleDestroys, TypeOK, flags
<1>11. CASE RoleAwaits(s, r)
  <2>1. CASE Cardinality(replicas[s]) # role[s][r].count
    <3>1. role' \in [Servers -> [Roles -> RoleType]]
      BY <1>1, <1>2, <1>11, <2>1, RoleGoesType DEF RoleAwaits
    <3> QED BY <3>1, <1>11 DEF RoleAwaits, TypeOK, flags
  <2>2. CASE Cardinality(replicas[s]) = role[s][r].count
    <3>1. [role[s][r] EXCEPT !.at = "manage", !.count = 0] \in RoleType
      BY <1>1, <1>3 DEF RoleType
    <3>2. role' = [role EXCEPT ![s] = [role[s] EXCEPT ![r] =
             [role[s][r] EXCEPT !.at = "manage", !.count = 0]]]
      BY <1>3, <1>11, <2>2 DEF RoleAwaits, RoleType
    <3>3. role' \in [Servers -> [Roles -> RoleType]]
      BY <1>3, <3>1, <3>2
    <3> QED BY <3>3, <1>11 DEF RoleAwaits, TypeOK, flags
  <2> QED BY <2>1, <2>2
<1>12. CASE ManagerStart(s, r)
  <2>1. role' \in [Servers -> [Roles -> RoleType]]
    BY <1>1, <1>2, <1>12, RoleGoesType DEF ManagerStart
  <2>2. silence' \in [Servers -> Silences]
    BY <1>12 DEF ManagerStart, TypeOK, Silences, HEARTBEAT_TIMEOUT_SECONDS
  <2> QED BY <2>1, <2>2, <1>12 DEF ManagerStart, TypeOK, Modes
<1>13. CASE ManagerBeats(s, r)
  <2>1. role' \in [Servers -> [Roles -> RoleType]]
    BY <1>1, <1>2, <1>13, RoleGoesType DEF ManagerBeats
  <2>2. conn' \in [Servers -> [Roles -> ConnType]]
    <3>1. ASSUME NEW j \in Servers, NEW q \in Roles
          PROVE  conn[j][q] \in ConnType /\
                 [conn[j][q] EXCEPT !.inbox = @ \cup {"HEARTBEAT"}] \in ConnType
      <4>1. conn[j][q] \in ConnType
        BY DEF TypeOK
      <4> QED BY <4>1 DEF ConnType
    <3>2. conn' = [j \in Servers |-> [q \in Roles |->
                  IF Connected(s, j, q)
                  THEN [conn[j][q] EXCEPT !.inbox = @ \cup {"HEARTBEAT"}] ELSE conn[j][q]]]
      BY <1>13 DEF ManagerBeats
    <3> QED BY <3>1, <3>2
  <2>3. replicas' \in [Servers -> SUBSET Entries]
    BY <1>13 DEF ManagerBeats, TypeOK
  <2> QED BY <2>1, <2>2, <2>3, <1>13 DEF ManagerBeats, TypeOK, flags
<1>14. CASE ManagerLeaves(s, r)
  <2>1. role' \in [Servers -> [Roles -> RoleType]]
    BY <1>1, <1>2, <1>14, RoleGoesType DEF ManagerLeaves
  <2> QED BY <2>1, <1>14 DEF ManagerLeaves, TypeOK, flags
<1> QED BY <1>4, <1>5, <1>6, <1>7, <1>8, <1>9, <1>10, <1>11, <1>12, <1>13, <1>14 DEF RoleStep

LEMMA ConnStepType ==
  ASSUME TypeOK, NEW s \in Servers, NEW r \in Roles, ConnStep(s, r)
  PROVE  TypeOK'
<1>1. \A place \in {"connecting", "pending", "connected", "ignored", "closed"} :
         place \in ConnPlaces
  BY DEF ConnPlaces
<1>2. Sleep(1) \in Naps /\ 0 \in Naps
  BY SleepType DEF Naps
<1>3. role[s][r].manager \in Servers \cup {Nobody}
  BY DEF TypeOK, RoleType
<1>4. CASE ConnConnects(s, r)
  <2>1. conn' \in [Servers -> [Roles -> ConnType]]
    BY <1>1, <1>2, <1>4, ConnGoesType DEF ConnConnects
  <2> QED BY <2>1, <1>4 DEF ConnConnects, TypeOK, flags
<1>5. CASE AcceptReplica(s, r)
  <2>1. conn' \in [Servers -> [Roles -> ConnType]]
    BY <1>1, <1>2, <1>5, ConnGoesType DEF AcceptReplica
  <2>2. replicas' \in [Servers -> SUBSET Entries]
    <3>1. Replica(s, r) \in Entries
      BY DEF Entries
    <3>2. role[s][r].manager \in Servers
      BY <1>5 DEF AcceptReplica, Reachable
    <3>3. PICK pruned : replicas' = [replicas EXCEPT ![role[s][r].manager] =
                                       (@ \ pruned) \cup {Replica(s, r)}]
      BY <1>5 DEF AcceptReplica
    <3>4. replicas \in [Servers -> SUBSET Entries]
      BY DEF TypeOK
    <3> QED BY <3>1, <3>2, <3>3, <3>4
  <2> QED BY <2>1, <2>2, <1>5 DEF AcceptReplica, TypeOK, flags
<1>6. CASE AcceptPeer(s, r)
  <2>1. conn' \in [Servers -> [Roles -> ConnType]]
    BY <1>1, <1>2, <1>6, ConnGoesType DEF AcceptPeer
  <2>2. role' \in [Servers -> [Roles -> RoleType]]
    BY <1>6, NewRoleType DEF AcceptPeer, Reachable, TypeOK
  <2>3. /\ election_answer_received' \in [Servers -> BOOLEAN]
        /\ new_leader_decided' \in [Servers -> BOOLEAN]
    BY <1>6 DEF AcceptPeer, Reachable, TypeOK
  <2> QED BY <2>1, <2>2, <2>3, <1>6 DEF AcceptPeer, TypeOK
<1>7. CASE ConnReads(s, r)
  <2>1. conn' \in [Servers -> [Roles -> ConnType]]
    <3>1. conn \in [Servers -> [Roles -> ConnType]] /\ conn[s][r] \in ConnType
      BY DEF TypeOK
    <3>2. PICK m \in conn[s][r].inbox :
             conn' = [conn EXCEPT ![s][r].inbox = @ \ {m}, ![s][r].nap = Sleep(1)]
      BY <1>7 DEF ConnReads
    <3>3. [conn[s][r] EXCEPT !.inbox = conn[s][r].inbox \ {m}, !.nap = Sleep(1)] \in ConnType
      BY <1>2, <3>1 DEF ConnType
    <3>4. conn' = [conn EXCEPT ![s] = [conn[s] EXCEPT ![r] =
             [conn[s][r] EXCEPT !.inbox = conn[s][r].inbox \ {m}, !.nap = Sleep(1)]]]
      BY <3>1, <3>2 DEF ConnType
    <3> QED BY <3>1, <3>3, <3>4
  <2>2. silence' \in [Servers -> Silences]
    BY <1>7 DEF ConnReads, TypeOK, Silences, HEARTBEAT_TIMEOUT_SECONDS
  <2> QED BY <2>1, <2>2, <1>7 DEF ConnReads, TypeOK, flags
<1>8. CASE ConnCloses(s, r)
  <2>1. conn' \in [Servers -> [Roles -> ConnType]]
    BY <1>1, <1>2, <1>8, ConnGoesType DEF ConnCloses
  <2> QED BY <2>1, <1>8 DEF ConnCloses, TypeOK, flags
<1>9. CASE ConnLeaves(s, r)
  <2>1. conn' \in [Servers -> [Roles -> ConnType]]
    BY <1>1, <1>2, <1>9, ConnGoesType DEF ConnLeaves
  <2> QED BY <2>1, <1>9 DEF ConnLeaves, TypeOK, flags
<1> QED BY <1>4, <1>5, <1>6, <1>7, <1>8, <1>9 DEF ConnStep

LEMMA PrefixType ==
  ASSUME NEW q \in Seq(Messages), NEW p \in Prefixes(q)
  PROVE  p \in Seq(Messages)
<1>1. PICK n \in 0 .. Len(q) : p = SubSeq(q, 1, n)
  BY DEF Prefixes
<1> QED BY <1>1

LEMMA StopsType ==
  ASSUME TypeOK, NEW s \in Servers, Stops(s), crashes' \in 0 .. MaxCrashes
  PROVE  TypeOK'
<1>1. wire' \in [Servers -> [Servers -> Seq(Messages)]]
  <2>1. wire \in [Servers -> [Servers -> Seq(Messages)]]
    BY DEF TypeOK
  <2>2. PICK kept \in [Servers -> UNION {Prefixes(wire[s][j]) : j \in Servers}] :
           /\ \A j \in Servers : kept[j] \in Prefixes(wire[s][j])
           /\ wire' = [i \in Servers |-> IF i = s THEN kept
                                         ELSE [wire[i] EXCEPT ![s] = <<>>]]
    BY DEF Stops
  <2>3. kept \in [Servers -> Seq(Messages)]
    BY <2>1, <2>2, PrefixType
  <2>4. \A i \in Servers : [wire[i] EXCEPT ![s] = <<>>] \in [Servers -> Seq(Messages)]
    <3>1. <<>> \in Seq(Messages)
      OBVIOUS
    <3> QED BY <2>1, <3>1
  <2> QED BY <2>2, <2>3, <2>4
<1>2. /\ [at |-> "off", nap |-> 0] \in MonitorType
      /\ [at |-> "none", nap |-> 0] \in ElectionType
      /\ NoRole \in RoleType
      /\ NoConn \in ConnType
  BY DEF MonitorType, MonitorPlaces, ElectionType, ElectionPlaces, NoRole, RoleType, RolePlaces,
         NoConn, ConnType, ConnPlaces, Naps
<1>3. /\ monitor' \in [Servers -> MonitorType]
      /\ election' \in [Servers -> [Runs -> ElectionType]]
      /\ role' \in [Servers -> [Roles -> RoleType]]
      /\ conn' \in [Servers -> [Roles -> ConnType]]
  BY <1>2 DEF Stops, TypeOK
<1>4. /\ up' \in [Servers -> BOOLEAN]
      /\ global_server_mode' \in [Servers -> Modes]
      /\ is_election_running' \in [Servers -> BOOLEAN]
      /\ new_leader_decided' \in [Servers -> BOOLEAN]
      /\ election_answer_received' \in [Servers -> BOOLEAN]
      /\ replicas' \in [Servers -> SUBSET Entries]
      /\ unread' \in [Servers -> SUBSET Servers]
  BY DEF Stops, TypeOK, Modes
<1>5. silence' \in [Servers -> Silences]
  BY DEF Stops, TypeOK, Silences, HEARTBEAT_TIMEOUT_SECONDS
<1> QED BY <1>1, <1>3, <1>4, <1>5 DEF TypeOK

LEMMA CrashTypes ==
  /\ \A s \in Servers : TypeOK /\ Crash(s) => TypeOK'
  /\ \A s \in Servers, r \in Roles : TypeOK /\ MisreadCoordinator(s, r) => TypeOK'
  /\ \A s \in Servers, r \in Roles : TypeOK /\ FreedHostname(s, r) => TypeOK'
<1>1. ASSUME TypeOK, NEW s \in Servers, Crash(s)
      PROVE  TypeOK'
  <2>1. crashes' \in 0 .. MaxCrashes
    BY <1>1, BoundsAssumption DEF TypeOK, Crash
  <2> QED BY <1>1, <2>1, StopsType DEF Crash
<1>2. ASSUME TypeOK, UNCHANGED crashes
      PROVE  crashes' \in 0 .. MaxCrashes
  BY <1>2 DEF TypeOK
<1>3. ASSUME TypeOK, NEW s \in Servers, NEW r \in Roles, MisreadCoordinator(s, r)
      PROVE  TypeOK'
  BY <1>2, <1>3, StopsType DEF MisreadCoordinator
<1>4. ASSUME TypeOK, NEW s \in Servers, NEW r \in Roles, FreedHostname(s, r)
      PROVE  TypeOK'
  BY <1>2, <1>4, StopsType DEF FreedHostname
<1> QED BY <1>1, <1>3, <1>4

LEMMA TickType ==
  ASSUME TypeOK, Tick
  PROVE  TypeOK'
<1>1. silence' \in [Servers -> Silences]
  BY DEF Tick, TypeOK, Silences, HEARTBEAT_TIMEOUT_SECONDS
<1>2. monitor' \in [Servers -> MonitorType]
  <2>1. \A s \in Servers : [monitor[s] EXCEPT !.nap = Older(monitor[s].nap)] \in MonitorType
    BY OlderType DEF TypeOK, MonitorType
  <2> QED BY <2>1 DEF Tick
<1>3. election' \in [Servers -> [Runs -> ElectionType]]
  <2>1. ASSUME NEW s \in Servers, NEW e \in Runs
        PROVE  [election[s][e] EXCEPT !.nap = Older(election[s][e].nap)] \in ElectionType
    <3>1. election[s][e] \in ElectionType
      BY DEF TypeOK
    <3> QED BY <3>1, OlderType DEF ElectionType
  <2> QED BY <2>1 DEF Tick
<1>4. role' \in [Servers -> [Roles -> RoleType]]
  <2>1. ASSUME NEW s \in Servers, NEW r \in Roles
        PROVE  [role[s][r] EXCEPT !.nap = Older(role[s][r].nap)] \in RoleType
    <3>1. role[s][r] \in RoleType
      BY DEF TypeOK
    <3> QED BY <3>1, OlderType DEF RoleType
  <2> QED BY <2>1 DEF Tick
<1>5. conn' \in [Servers -> [Roles -> ConnType]]
  <2>1. ASSUME NEW s \in Servers, NEW r \in Roles
        PROVE  [conn[s][r] EXCEPT !.nap = Older(conn[s][r].nap)] \in ConnType
    <3>1. conn[s][r] \in ConnType
      BY DEF TypeOK
    <3> QED BY <3>1, OlderType DEF ConnType
  <2> QED BY <2>1 DEF Tick
<1> QED BY <1>1, <1>2, <1>3, <1>4, <1>5 DEF Tick, TypeOK, flags

LEMMA InitType == Init => TypeOK
<1> SUFFICES ASSUME Init PROVE TypeOK
  OBVIOUS
<1>1. /\ \A place \in {"off", "check"} : [at |-> place, nap |-> 0] \in MonitorType
      /\ [at |-> "none", nap |-> 0] \in ElectionType
      /\ NoRole \in RoleType
      /\ \A place \in {"managing", "loop"} :
            [at |-> place, nap |-> 0, manager |-> First, listening |-> TRUE, count |-> 0]
               \in RoleType
      /\ NoConn \in ConnType
      /\ [at |-> "connected", nap |-> 0, inbox |-> {}] \in ConnType
  BY ServersAssumption
     DEF MonitorType, MonitorPlaces, ElectionType, ElectionPlaces, NoRole, RoleType, RolePlaces,
         Leading, NoConn, ConnType, ConnPlaces, Naps
<1>2. /\ monitor \in [Servers -> MonitorType]
      /\ election \in [Servers -> [Runs -> ElectionType]]
      /\ role \in [Servers -> [Roles -> RoleType]]
      /\ conn \in [Servers -> [Roles -> ConnType]]
  BY <1>1 DEF Init
<1>3. replicas \in [Servers -> SUBSET Entries]
  <2>1. 1 \in Roles
    BY BoundsAssumption DEF Roles
  <2> QED BY <2>1 DEF Init, Entries
<1>4. wire \in [Servers -> [Servers -> Seq(Messages)]]
  BY DEF Init
<1>5. silence \in [Servers -> Silences] /\ crashes \in 0 .. MaxCrashes
  BY BoundsAssumption DEF Init, Silences, HEARTBEAT_TIMEOUT_SECONDS
<1>6. /\ up \in [Servers -> BOOLEAN]
      /\ global_server_mode \in [Servers -> Modes]
      /\ is_election_running \in [Servers -> BOOLEAN]
      /\ new_leader_decided \in [Servers -> BOOLEAN]
      /\ election_answer_received \in [Servers -> BOOLEAN]
      /\ unread \in [Servers -> SUBSET Servers]
  BY DEF Init, Modes
<1> QED BY <1>2, <1>3, <1>4, <1>5, <1>6 DEF TypeOK

LEMMA StepType == TypeOK /\ [Next]_vars => TypeOK'
<1> SUFFICES ASSUME TypeOK, [Next]_vars PROVE TypeOK'
  OBVIOUS
<1>1. CASE UNCHANGED vars
  BY <1>1 DEF vars, flags, threads, TypeOK
<1>2. CASE Tick
  BY <1>2, TickType
<1>3. CASE \E s \in Servers : MonitorStep(s)
  BY <1>3, MonitorStepType
<1>4. CASE \E s \in Servers, e \in Runs : ElectionStep(s, e)
  BY <1>4, ElectionStepType
<1>5. CASE \E s \in Servers, i \in Servers : ListenerStep(s, i)
  BY <1>5, ListenerStepType
<1>6. CASE \E s \in Servers, r \in Roles : RoleStep(s, r)
  BY <1>6, RoleStepType
<1>7. CASE \E s \in Servers, r \in Roles : ConnStep(s, r)
  BY <1>7, ConnStepType
<1>8. CASE \E s \in Servers : \/ Crash(s)
                              \/ \E r \in Roles : MisreadCoordinator(s, r) \/ FreedHostname(s, r)
  BY <1>8, CrashTypes
<1> QED BY <1>1, <1>2, <1>3, <1>4, <1>5, <1>6, <1>7, <1>8 DEF Next

(* Type correctness, for every group of servers.                            *)
THEOREM TypeCorrect == Spec => []TypeOK
<1>1. Init => TypeOK
  BY InitType
<1>2. TypeOK /\ [Next]_vars => TypeOK'
  BY StepType
<1> QED BY <1>1, <1>2, PTL DEF Spec

-----------------------------------------------------------------------------
(* Where elections and monitors are after a step.                           *)

LEMMA ElectionGoesTo ==
  ASSUME TypeOK, NEW s \in Servers, NEW e \in Runs, NEW place, NEW nap,
         ElectionGoes(s, e, place, nap)
  PROVE  \A t \in Servers, f \in Runs :
            election'[t][f].at = IF t = s /\ f = e THEN place ELSE election[t][f].at
BY DEF TypeOK, ElectionGoes

LEMMA MonitorGoesTo ==
  ASSUME TypeOK, NEW s \in Servers, NEW place, NEW nap, MonitorGoes(s, place, nap)
  PROVE  \A t \in Servers : monitor'[t].at = IF t = s THEN place ELSE monitor[t].at
BY DEF TypeOK, MonitorGoes

(* A second that passes moves no thread.                                    *)
LEMMA TickMovesNothing ==
  ASSUME TypeOK, Tick
  PROVE  /\ \A s \in Servers : monitor'[s].at = monitor[s].at
         /\ \A s \in Servers, e \in Runs : election'[s][e].at = election[s][e].at
<1>1. ASSUME NEW s \in Servers
      PROVE  monitor'[s].at = monitor[s].at
  <2>1. monitor[s] \in MonitorType
    BY DEF TypeOK
  <2> QED BY <2>1 DEF Tick, MonitorType
<1>2. ASSUME NEW s \in Servers, NEW e \in Runs
      PROVE  election'[s][e].at = election[s][e].at
  <2>1. election[s][e] \in ElectionType
    BY DEF TypeOK
  <2> QED BY <2>1 DEF Tick, ElectionType
<1> QED BY <1>1, <1>2

LEMMA JoinStep ==
  TypeOK /\ JoinHoldsElection /\ [Next]_vars => JoinHoldsElection'
<1> SUFFICES ASSUME TypeOK, JoinHoldsElection, [Next]_vars PROVE JoinHoldsElection'
  OBVIOUS
<1> USE DEF JoinHoldsElection
<1>0. "joined" \in Runs /\ "detached" \in Runs
  BY DEF Runs
<1>1. ASSUME UNCHANGED <<monitor, election>>
      PROVE  JoinHoldsElection'
  BY <1>1
<1>2. CASE UNCHANGED vars
  BY <1>1, <1>2 DEF vars, threads
<1>3. CASE Tick
  BY <1>0, <1>3, TickMovesNothing
<1>4. ASSUME NEW s \in Servers, MonitorStep(s)
      PROVE  JoinHoldsElection'
  <2>1. CASE MonitorCheck(s)
    <3>1. \E place, nap : MonitorGoes(s, place, nap)
      BY <2>1 DEF MonitorCheck
    <3> QED BY <2>1, <3>1, MonitorGoesTo DEF MonitorCheck
  <2>2. CASE MonitorElects(s)
    BY <1>0, <2>2, MonitorGoesTo, ElectionGoesTo DEF MonitorElects, NewElection
  <2>3. CASE MonitorRelents(s)
    BY <2>3, MonitorGoesTo DEF MonitorRelents, MonitorRests
  <2>4. CASE MonitorJoined(s)
    BY <2>4, MonitorGoesTo DEF MonitorJoined, MonitorRests, Joinable
  <2> QED BY <1>4, <2>1, <2>2, <2>3, <2>4 DEF MonitorStep
<1>5. ASSUME NEW s \in Servers, NEW e \in Runs, ElectionStep(s, e)
      PROVE  JoinHoldsElection'
  <2>1. /\ election[s][e].at # "none"
        /\ UNCHANGED monitor
        /\ \E place, nap : ElectionGoes(s, e, place, nap)
    BY <1>5 DEF ElectionStep, ElectionStart, ElectionTimeout, ElectionWon, ElectionUnflags,
                ElectionDecides, ElectionEnd, ElectionEnds
  <2> QED BY <1>0, <2>1, ElectionGoesTo
<1>6. ASSUME NEW j \in Servers, NEW i \in Servers, ListenerStep(j, i)
      PROVE  JoinHoldsElection'
  <2>1. CASE HandleElection(j, i)
    <3>1. CASE is_election_running[j]
      BY <1>1, <2>1, <3>1 DEF HandleElection
    <3>2. CASE ~is_election_running[j]
      BY <1>0, <2>1, <3>2, ElectionGoesTo DEF HandleElection, NewElection
    <3> QED BY <3>1, <3>2
  <2>2. CASE HandleCoordinator(j, i)
    BY <1>1, <2>2 DEF HandleCoordinator
  <2> QED BY <1>6, <2>1, <2>2 DEF ListenerStep
<1>7. ASSUME NEW s \in Servers, NEW r \in Roles, RoleStep(s, r) \/ ConnStep(s, r)
      PROVE  JoinHoldsElection'
  BY <1>1, <1>7
     DEF RoleStep, RoleStart, RoleClear, RoleLoop, RoleLeaves, RoleAnnounces, RoleCounts,
         RoleDestroys, RoleAwaits, ManagerStart, ManagerBeats, ManagerLeaves, ConnStep,
         ConnConnects, AcceptReplica, AcceptPeer, ConnReads, ConnCloses, ConnLeaves
<1>8. ASSUME NEW s \in Servers, Stops(s)
      PROVE  JoinHoldsElection'
  BY <1>0, <1>8 DEF Stops, TypeOK
<1> QED BY <1>2, <1>3, <1>4, <1>5, <1>6, <1>7, <1>8
        DEF Next, Crash, MisreadCoordinator, FreedHostname

(* A raised flag is owed to an election that has not lowered it yet; one    *)
(* that only has to decide has lowered it.                                  *)
FlagIsOwed ==
    \A s \in Servers :
       is_election_running[s] =>
          \E e \in Runs : election[s][e].at \notin {"none", "decide last"}

(* A step of one election keeps this if the server has lowered its flag, or *)
(* this election still owes it, or it did not owe it before.                *)
LEMMA OwedByOther ==
  ASSUME TypeOK, FlagIsOwed, NEW s \in Servers, NEW e \in Runs, NEW place, NEW nap,
         ElectionGoes(s, e, place, nap),
         \A t \in Servers : t # s => is_election_running'[t] = is_election_running[t],
         \/ ~is_election_running'[s]
         \/ place \notin {"none", "decide last"}
         \/ is_election_running[s] /\ election[s][e].at \in {"none", "decide last"}
  PROVE  FlagIsOwed'
<1> SUFFICES ASSUME NEW t \in Servers, is_election_running'[t]
             PROVE  \E f \in Runs : election'[t][f].at \notin {"none", "decide last"}
  BY DEF FlagIsOwed
<1>0. \A g \in Runs :
         election'[t][g].at = IF t = s /\ g = e THEN place ELSE election[t][g].at
  BY DEF TypeOK, ElectionGoes
<1>1. CASE t = s /\ place \notin {"none", "decide last"}
  <2>1. election'[s][e].at = place
    BY <1>0, <1>1
  <2> QED BY <1>1, <2>1
<1>2. CASE t # s \/ (is_election_running[s] /\ election[s][e].at \in {"none", "decide last"})
  <2>1. is_election_running[t]
    BY <1>2
  <2>2. PICK f \in Runs : election[t][f].at \notin {"none", "decide last"}
    BY <2>1 DEF FlagIsOwed
  <2>3. ~(t = s /\ f = e)
    BY <1>2, <2>2
  <2>4. election'[t][f].at = election[t][f].at
    BY <1>0, <2>3
  <2> QED BY <2>2, <2>4
<1> QED BY <1>1, <1>2

LEMMA RunningStep ==
  TypeOK /\ FlagIsOwed /\ [Next]_vars => FlagIsOwed'
<1> SUFFICES ASSUME TypeOK, FlagIsOwed, [Next]_vars PROVE FlagIsOwed'
  OBVIOUS
<1> USE DEF FlagIsOwed
<1>0. "joined" \in Runs /\ "detached" \in Runs
  BY DEF Runs
<1>1. ASSUME UNCHANGED <<is_election_running, election>>
      PROVE  FlagIsOwed'
  BY <1>1
<1>2. CASE UNCHANGED vars
  BY <1>1, <1>2 DEF vars, threads, flags
<1>3. CASE Tick
  BY <1>3, TickMovesNothing DEF Tick, flags
<1>4. ASSUME NEW s \in Servers, NEW e \in Runs, NewElection(s, e)
      PROVE  FlagIsOwed'
  <2>1. \A t \in Servers : t # s => is_election_running'[t] = is_election_running[t]
    BY <1>4 DEF NewElection, TypeOK
  <2>2. ElectionGoes(s, e, "start", 0)
    BY <1>4 DEF NewElection
  <2> QED BY <2>1, <2>2, OwedByOther
<1>5. ASSUME NEW s \in Servers, MonitorStep(s)
      PROVE  FlagIsOwed'
  BY <1>0, <1>1, <1>4, <1>5
     DEF MonitorStep, MonitorCheck, MonitorElects, MonitorRelents, MonitorJoined, flags
<1>6. ASSUME NEW s \in Servers, NEW e \in Runs, ElectionStep(s, e)
      PROVE  FlagIsOwed'
  <2>1. ASSUME UNCHANGED is_election_running, NEW place, NEW nap,
               place \notin {"none", "decide last"}, ElectionGoes(s, e, place, nap)
        PROVE  FlagIsOwed'
    BY <2>1, OwedByOther
  <2>2. ASSUME is_election_running' = [is_election_running EXCEPT ![s] = FALSE],
               NEW place, NEW nap, ElectionGoes(s, e, place, nap)
        PROVE  FlagIsOwed'
    <3>1. /\ ~is_election_running'[s]
          /\ \A t \in Servers : t # s => is_election_running'[t] = is_election_running[t]
      BY <2>2 DEF TypeOK
    <3> QED BY <2>2, <3>1, OwedByOther
  <2>3. CASE ElectionStart(s, e)
    BY <2>1, <2>3 DEF ElectionStart, flags
  <2>4. CASE ElectionTimeout(s, e)
    <3>1. PICK place \in {"end", "unanswered"} : ElectionGoes(s, e, place, 0)
      BY <2>4 DEF ElectionTimeout
    <3> QED BY <2>1, <2>4, <3>1 DEF ElectionTimeout
  <2>5. CASE ElectionWon(s, e)
    BY <2>1, <2>5 DEF ElectionWon
  <2>6. CASE ElectionUnflags(s, e)
    BY <2>2, <2>6 DEF ElectionUnflags
  <2>7. CASE ElectionDecides(s, e)
    <3>1. CASE election[s][e].at = "decide"
      BY <2>1, <2>7, <3>1 DEF ElectionDecides
    <3>2. CASE election[s][e].at = "decide last"
      <4>1. ElectionGoes(s, e, "none", 0) /\ UNCHANGED is_election_running
        BY <2>7, <3>2 DEF ElectionDecides
      <4>2. ~is_election_running'[s] \/ is_election_running[s]
        BY <4>1
      <4> QED BY <3>2, <4>1, <4>2, OwedByOther
    <3> QED BY <2>7, <3>1, <3>2 DEF ElectionDecides
  <2>8. CASE ElectionEnd(s, e)
    BY <2>2, <2>8 DEF ElectionEnd, ElectionEnds
  <2> QED BY <1>6, <2>3, <2>4, <2>5, <2>6, <2>7, <2>8 DEF ElectionStep
<1>7. ASSUME NEW j \in Servers, NEW i \in Servers, ListenerStep(j, i)
      PROVE  FlagIsOwed'
  BY <1>0, <1>1, <1>4, <1>7 DEF ListenerStep, HandleElection, HandleCoordinator
<1>8. ASSUME NEW s \in Servers, NEW r \in Roles, RoleStep(s, r) \/ ConnStep(s, r)
      PROVE  FlagIsOwed'
  BY <1>1, <1>8
     DEF RoleStep, RoleStart, RoleClear, RoleLoop, RoleLeaves, RoleAnnounces, RoleCounts,
         RoleDestroys, RoleAwaits, ManagerStart, ManagerBeats, ManagerLeaves, ConnStep,
         ConnConnects, AcceptReplica, AcceptPeer, ConnReads, ConnCloses, ConnLeaves, flags
<1>9. ASSUME NEW s \in Servers, Stops(s)
      PROVE  FlagIsOwed'
  BY <1>9 DEF Stops, TypeOK
<1> QED BY <1>2, <1>3, <1>5, <1>6, <1>7, <1>8, <1>9
        DEF Next, Crash, MisreadCoordinator, FreedHostname

(* The mutex is held only for an election that still runs.                  *)
THEOREM MutexHeldForElection == Spec => []JoinHoldsElection
<1>1. Init => JoinHoldsElection
  BY DEF Init, JoinHoldsElection, Runs
<1>2. TypeOK /\ JoinHoldsElection /\ [Next]_vars => JoinHoldsElection'
  BY JoinStep
<1> QED BY <1>1, <1>2, TypeCorrect, PTL DEF Spec

(* A raised is_election_running has an election that will lower it: by      *)
(* induction on the stronger FlagIsOwed.                                    *)
THEOREM RaisedFlagHasElection == Spec => []RunningMeansElection
<1>1. Init => FlagIsOwed
  BY DEF Init, FlagIsOwed
<1>2. TypeOK /\ FlagIsOwed /\ [Next]_vars => FlagIsOwed'
  BY RunningStep
<1>3. FlagIsOwed => RunningMeansElection
  BY DEF FlagIsOwed, RunningMeansElection
<1> QED BY <1>1, <1>2, <1>3, TypeCorrect, PTL DEF Spec

-----------------------------------------------------------------------------
(* ELECTION goes up.                                                        *)

GoesUp(i, j, q) == \A k \in 1 .. Len(q) : q[k].type = "ELECTION" => i < j

LEMMA GoesUpQueued ==
  ASSUME NEW i, NEW j, NEW q \in Seq(Messages), GoesUp(i, j, q),
         NEW m \in Messages, m.type = "ELECTION" => i < j
  PROVE  GoesUp(i, j, Queued(q, m))
<1>1. GoesUp(i, j, Append(q, m))
  BY DEF GoesUp
<1> QED BY <1>1 DEF Queued

LEMMA GoesUpTail ==
  ASSUME NEW i, NEW j, NEW q \in Seq(Messages), q # <<>>, GoesUp(i, j, q)
  PROVE  GoesUp(i, j, Tail(q))
<1>1. /\ Len(Tail(q)) = Len(q) - 1
      /\ \A k \in 1 .. Len(Tail(q)) : Tail(q)[k] = q[k + 1]
  OBVIOUS
<1>2. \A k \in 1 .. Len(q) - 1 : k + 1 \in 1 .. Len(q)
  OBVIOUS
<1> QED BY <1>1, <1>2 DEF GoesUp

LEMMA GoesUpPrefix ==
  ASSUME NEW i, NEW j, NEW q \in Seq(Messages), GoesUp(i, j, q), NEW p \in Prefixes(q)
  PROVE  GoesUp(i, j, p)
<1>1. PICK n \in 0 .. Len(q) : p = SubSeq(q, 1, n)
  BY DEF Prefixes
<1>2. Len(p) = n /\ \A k \in 1 .. n : p[k] = q[k]
  BY <1>1
<1> QED BY <1>2 DEF GoesUp

LEMMA GoesUpSend ==
  ASSUME TypeOK, ElectionsGoUp, NEW s \in Servers, NEW ids, NEW m \in Messages,
         Send(s, ids, m), \A j \in ids : m.type = "ELECTION" => s < j
  PROVE  \A i, j \in Servers : GoesUp(i, j, wire'[i][j])
<1> SUFFICES ASSUME NEW i \in Servers, NEW j \in Servers
             PROVE  GoesUp(i, j, wire'[i][j])
  OBVIOUS
<1>1. wire \in [Servers -> [Servers -> Seq(Messages)]]
  BY DEF TypeOK
<1>2. GoesUp(i, j, wire[i][j])
  BY DEF ElectionsGoUp, GoesUp
<1>3. \/ wire'[i][j] = wire[i][j]
      \/ i = s /\ j \in ids /\ wire'[i][j] = Queued(wire[i][j], m)
  BY <1>1 DEF Send
<1>4. CASE i = s /\ j \in ids /\ wire'[i][j] = Queued(wire[i][j], m)
  <2>1. m.type = "ELECTION" => i < j
    BY <1>4
  <2>2. wire[i][j] \in Seq(Messages)
    BY <1>1
  <2> QED BY <1>2, <1>4, <2>1, <2>2, GoesUpQueued
<1> QED BY <1>2, <1>3, <1>4

LEMMA GoesUpReceives ==
  ASSUME TypeOK, ElectionsGoUp, NEW a \in Servers, NEW b \in Servers, NEW type,
         Receives(b, a, type)
  PROVE  \A i, j \in Servers : GoesUp(i, j, wire'[i][j])
<1> SUFFICES ASSUME NEW i \in Servers, NEW j \in Servers
             PROVE  GoesUp(i, j, wire'[i][j])
  OBVIOUS
<1>1. wire \in [Servers -> [Servers -> Seq(Messages)]]
  BY DEF TypeOK
<1>2. GoesUp(i, j, wire[i][j])
  BY DEF ElectionsGoUp, GoesUp
<1>3. wire'[i][j] = IF i = a /\ j = b THEN Tail(wire[i][j]) ELSE wire[i][j]
  BY <1>1 DEF Receives
<1>4. wire[a][b] # <<>> /\ wire[i][j] \in Seq(Messages)
  BY <1>1 DEF Receives
<1> QED BY <1>2, <1>3, <1>4, GoesUpTail

LEMMA GoesUpStops ==
  ASSUME TypeOK, ElectionsGoUp, NEW s \in Servers, Stops(s)
  PROVE  ElectionsGoUp'
<1> SUFFICES ASSUME NEW i \in Servers, NEW j \in Servers
             PROVE  GoesUp(i, j, wire'[i][j]) /\ (j \in unread'[i] => i < j)
  BY DEF ElectionsGoUp, GoesUp
<1>1. wire \in [Servers -> [Servers -> Seq(Messages)]] /\ unread \in [Servers -> SUBSET Servers]
  BY DEF TypeOK
<1>2. GoesUp(i, j, wire[i][j])
  BY DEF ElectionsGoUp, GoesUp
<1>3. PICK kept \in [Servers -> UNION {Prefixes(wire[s][k]) : k \in Servers}] :
         /\ \A k \in Servers : kept[k] \in Prefixes(wire[s][k])
         /\ wire' = [k \in Servers |-> IF k = s THEN kept ELSE [wire[k] EXCEPT ![s] = <<>>]]
  BY DEF Stops
<1>4. GoesUp(i, j, wire'[i][j])
  <2>1. CASE i = s
    <3>1. wire'[i][j] = kept[j] /\ kept[j] \in Prefixes(wire[i][j]) /\ wire[i][j] \in Seq(Messages)
      BY <1>1, <1>3, <2>1
    <3> QED BY <1>2, <3>1, GoesUpPrefix
  <2>2. CASE i # s /\ j = s
    <3>1. wire'[i][j] = <<>>
      BY <1>1, <1>3, <2>2
    <3> QED BY <3>1 DEF GoesUp
  <2>3. CASE i # s /\ j # s
    <3>1. wire'[i][j] = wire[i][j]
      BY <1>1, <1>3, <2>3
    <3> QED BY <1>2, <3>1
  <2> QED BY <2>1, <2>2, <2>3
<1>5. j \in unread'[i] => i < j
  BY <1>1 DEF Stops, ElectionsGoUp
<1> QED BY <1>4, <1>5

LEMMA GoesUpStep ==
  TypeOK /\ ElectionsGoUp /\ [Next]_vars => ElectionsGoUp'
<1> SUFFICES ASSUME TypeOK, ElectionsGoUp, [Next]_vars PROVE ElectionsGoUp'
  OBVIOUS
<1>0. unread \in [Servers -> SUBSET Servers] /\ wire \in [Servers -> [Servers -> Seq(Messages)]]
  BY DEF TypeOK
<1>1. ASSUME UNCHANGED <<wire, unread>>
      PROVE  ElectionsGoUp'
  BY <1>1 DEF ElectionsGoUp
<1>2. ASSUME \A i, j \in Servers : GoesUp(i, j, wire'[i][j]),
             \A i \in Servers : unread'[i] \subseteq unread[i]
      PROVE  ElectionsGoUp'
  BY <1>2 DEF ElectionsGoUp, GoesUp
<1>3. CASE UNCHANGED vars
  BY <1>1, <1>3 DEF vars
<1>4. CASE Tick
  BY <1>1, <1>4 DEF Tick
<1>5. ASSUME NEW s \in Servers, MonitorStep(s)
      PROVE  ElectionsGoUp'
  BY <1>1, <1>5 DEF MonitorStep, MonitorCheck, MonitorElects, MonitorRelents, MonitorJoined
<1>6. ASSUME NEW s \in Servers, NEW e \in Runs, ElectionStep(s, e)
      PROVE  ElectionsGoUp'
  <2>1. CASE ElectionStart(s, e)
    <3>1. Send(s, Higher(s), ELECTION) /\ UNCHANGED unread
      BY <2>1 DEF ElectionStart
    <3>2. \A j \in Higher(s) : s < j
      BY ServersAssumption DEF Higher, TypeOK, Entries, Peer, Replica
    <3> QED BY <1>2, <3>1, <3>2, GoesUpSend, MessageTypes
  <2>2. CASE \/ ElectionTimeout(s, e) \/ ElectionWon(s, e) \/ ElectionUnflags(s, e)
             \/ ElectionDecides(s, e) \/ ElectionEnd(s, e)
    BY <1>1, <2>2 DEF ElectionTimeout, ElectionWon, ElectionUnflags, ElectionDecides, ElectionEnd
  <2> QED BY <1>6, <2>1, <2>2 DEF ElectionStep
<1>7. ASSUME NEW b \in Servers, NEW a \in Servers, ListenerStep(b, a)
      PROVE  ElectionsGoUp'
  <2>1. CASE HandleElection(b, a)
    <3>1. Receives(b, a, "ELECTION")
      BY <2>1 DEF HandleElection
    <3>2. \A i, j \in Servers : GoesUp(i, j, wire'[i][j])
      BY <3>1, GoesUpReceives
    <3>3. a < b
      <4>1. wire[a][b] \in Seq(Messages) /\ wire[a][b] # <<>> /\ wire[a][b][1].type = "ELECTION"
        BY <1>0, <3>1 DEF Receives
      <4>2. 1 \in 1 .. Len(wire[a][b])
        BY <4>1
      <4> QED BY <4>1, <4>2 DEF ElectionsGoUp
    <3>4. \A i, j \in Servers : j \in unread'[i] => j \in unread[i] \/ (i = a /\ j = b)
      BY <1>0, <2>1 DEF HandleElection
    <3> QED BY <3>2, <3>3, <3>4 DEF ElectionsGoUp, GoesUp
  <2>2. CASE HandleCoordinator(b, a)
    <3>1. \A i, j \in Servers : GoesUp(i, j, wire'[i][j])
      BY <2>2, GoesUpReceives DEF HandleCoordinator
    <3>2. \A i \in Servers : unread'[i] \subseteq unread[i]
      BY <1>0, <2>2 DEF HandleCoordinator, Drop
    <3> QED BY <1>2, <3>1, <3>2
  <2> QED BY <1>7, <2>1, <2>2 DEF ListenerStep
<1>8. ASSUME NEW s \in Servers, NEW r \in Roles, RoleStep(s, r)
      PROVE  ElectionsGoUp'
  <2>1. CASE RoleAnnounces(s, r)
    <3>1. COORDINATOR(role[s][r].listening) \in Messages
      BY MessageTypes DEF TypeOK, RoleType
    <3>2. COORDINATOR(role[s][r].listening).type # "ELECTION"
      BY DEF COORDINATOR
    <3> QED BY <1>2, <2>1, <3>1, <3>2, GoesUpSend DEF RoleAnnounces
  <2>2. CASE RoleDestroys(s, r)
    <3>1. \A i \in Servers : unread'[i] \subseteq unread[i]
      BY <1>0, <2>2 DEF RoleDestroys
    <3>2. \A i, j \in Servers : GoesUp(i, j, wire'[i][j])
      BY <2>2 DEF RoleDestroys, ElectionsGoUp, GoesUp
    <3> QED BY <1>2, <3>1, <3>2
  <2>3. CASE \/ RoleStart(s, r) \/ RoleClear(s, r) \/ RoleLoop(s, r) \/ RoleLeaves(s, r)
             \/ RoleCounts(s, r) \/ RoleAwaits(s, r) \/ ManagerStart(s, r)
             \/ ManagerBeats(s, r) \/ ManagerLeaves(s, r)
    BY <1>1, <2>3 DEF RoleStart, RoleClear, RoleLoop, RoleLeaves, RoleCounts, RoleAwaits,
                      ManagerStart, ManagerBeats, ManagerLeaves
  <2> QED BY <1>8, <2>1, <2>2, <2>3 DEF RoleStep
<1>9. ASSUME NEW s \in Servers, NEW r \in Roles, ConnStep(s, r)
      PROVE  ElectionsGoUp'
  BY <1>1, <1>9 DEF ConnStep, ConnConnects, AcceptReplica, AcceptPeer, ConnReads, ConnCloses,
                    ConnLeaves
<1>10. ASSUME NEW s \in Servers, Stops(s)
       PROVE  ElectionsGoUp'
  BY <1>10, GoesUpStops
<1> QED BY <1>3, <1>4, <1>5, <1>6, <1>7, <1>8, <1>9, <1>10
        DEF Next, Crash, MisreadCoordinator, FreedHostname

(* No listener is ever asked by a server with an id as high as its own.     *)
THEOREM ElectionsOnlyGoUp == Spec => []ElectionsGoUp
<1>1. Init => ElectionsGoUp
  BY DEF Init, ElectionsGoUp
<1>2. TypeOK /\ ElectionsGoUp /\ [Next]_vars => ElectionsGoUp'
  BY GoesUpStep
<1> QED BY <1>1, <1>2, TypeCorrect, PTL DEF Spec

-----------------------------------------------------------------------------
(* The replicas in a list chose this manager.                               *)

(* A role that has not started has no connection yet: the slot is fresh, or *)
(* its server is down.                                                      *)
FreshConns ==
    \A s \in Servers, r \in Roles :
       role[s][r].at \in {"none", "start"} => conn[s][r].at = "none"

ListInv == FreshConns /\ ListedReplicasChoseUs

LEMMA RoleGoesTo ==
  ASSUME TypeOK, NEW s \in Servers, NEW r \in Roles, NEW place, NEW nap,
         RoleGoes(s, r, place, nap)
  PROVE  \A t \in Servers, q \in Roles :
            /\ role'[t][q].at = IF t = s /\ q = r THEN place ELSE role[t][q].at
            /\ role'[t][q].manager = role[t][q].manager
<1> SUFFICES ASSUME NEW t \in Servers, NEW q \in Roles
             PROVE  /\ role'[t][q].at = IF t = s /\ q = r THEN place ELSE role[t][q].at
                    /\ role'[t][q].manager = role[t][q].manager
  OBVIOUS
<1>1. role \in [Servers -> [Roles -> RoleType]] /\ role[s][r] \in RoleType
  BY DEF TypeOK
<1>2. role' = [role EXCEPT ![s] = [role[s] EXCEPT ![r] =
                 [role[s][r] EXCEPT !.at = place, !.nap = nap]]]
  BY <1>1 DEF RoleGoes, RoleType
<1>3. CASE t = s /\ q = r
  <2>1. role'[t][q] = [role[s][r] EXCEPT !.at = place, !.nap = nap]
    BY <1>1, <1>2, <1>3
  <2> QED BY <1>1, <1>3, <2>1 DEF RoleType
<1>4. CASE ~(t = s /\ q = r)
  <2>1. role'[t][q] = role[t][q]
    BY <1>1, <1>2, <1>4
  <2> QED BY <1>4, <2>1
<1> QED BY <1>3, <1>4

LEMMA ConnGoesTo ==
  ASSUME TypeOK, NEW s \in Servers, NEW r \in Roles, NEW place, NEW nap,
         ConnGoes(s, r, place, nap)
  PROVE  \A t \in Servers, q \in Roles :
            conn'[t][q].at = IF t = s /\ q = r THEN place ELSE conn[t][q].at
BY DEF TypeOK, ConnGoes

LEMMA SendMovesNoConn ==
  ASSUME TypeOK, NEW s \in Servers, NEW ids, NEW m, Send(s, ids, m)
  PROVE  \A t \in Servers, q \in Roles : conn'[t][q].at = conn[t][q].at
<1> SUFFICES ASSUME NEW t \in Servers, NEW q \in Roles
             PROVE  conn'[t][q].at = conn[t][q].at
  OBVIOUS
<1>1. conn[t][q] \in ConnType
  BY DEF TypeOK
<1>2. conn'[t][q] = IF t \in ids /\ Connected(s, t, q)
                    THEN [conn[t][q] EXCEPT !.inbox = @ \cup {m.type}] ELSE conn[t][q]
  BY DEF Send
<1> QED BY <1>1, <1>2 DEF ConnType

LEMMA EntriesDiffer ==
  /\ \A j, k, q, r : Replica(j, q) = Replica(k, r) => j = k /\ q = r
  /\ \A j, k, q : Replica(j, q) # Peer(k)
BY DEF Replica, Peer

(* The lists shrink, and roles and connections keep what ListInv looks at.  *)
LEMMA ListInvQuiet ==
  ASSUME TypeOK, ListInv,
         \A i \in Servers : replicas'[i] \subseteq replicas[i],
         UNCHANGED up,
         \A t \in Servers, q \in Roles :
            /\ role'[t][q].manager = role[t][q].manager
            /\ conn'[t][q].at = conn[t][q].at
            /\ role'[t][q].at \in {"none", "start"} => role[t][q].at \in {"none", "start"}
  PROVE  ListInv'
BY DEF ListInv, FreshConns, ListedReplicasChoseUs

(* A new run_as_backup takes a slot that nobody lists.                      *)
LEMMA ListInvNewRole ==
  ASSUME TypeOK, ListInv, NEW s \in Servers, NEW manager, NewRole(s, manager),
         \A i \in Servers : replicas'[i] \subseteq replicas[i],
         UNCHANGED <<up, conn>>
  PROVE  ListInv'
<1>1. PICK r \in Roles : /\ role[s][r].at = "none"
                         /\ role' = [role EXCEPT ![s][r] = NewRoleUnder(manager)]
  BY DEF NewRole
<1>2. role \in [Servers -> [Roles -> RoleType]]
  BY DEF TypeOK
<1>3. conn[s][r].at = "none"
  BY <1>1 DEF ListInv, FreshConns
<1>4. ASSUME NEW t \in Servers, NEW q \in Roles, ~(t = s /\ q = r)
      PROVE  role'[t][q] = role[t][q]
  BY <1>1, <1>2, <1>4
<1>5. FreshConns'
  BY <1>3, <1>4 DEF ListInv, FreshConns
<1>6. ListedReplicasChoseUs'
  <2> SUFFICES ASSUME NEW i \in Servers, NEW j \in Servers, NEW q \in Roles,
                      Replica(j, q) \in replicas'[i], up'[j]
               PROVE  role'[j][q].manager = i /\ conn'[j][q].at \in {"connected", "closed"}
    BY DEF ListedReplicasChoseUs
  <2>1. role[j][q].manager = i /\ conn[j][q].at \in {"connected", "closed"}
    BY DEF ListInv, ListedReplicasChoseUs
  <2>2. ~(j = s /\ q = r)
    BY <1>3, <2>1
  <2> QED BY <1>4, <2>1, <2>2
<1> QED BY <1>5, <1>6 DEF ListInv

(* A connection that is not listed, or that closes, and is no fresh one.    *)
LEMMA ListInvConn ==
  ASSUME TypeOK, ListInv, NEW s \in Servers, NEW r \in Roles, NEW place, NEW nap,
         ConnGoes(s, r, place, nap), UNCHANGED <<up, replicas, role>>,
         role[s][r].at \notin {"none", "start"},
         conn[s][r].at \in {"connected", "closed"} => place \in {"connected", "closed"}
  PROVE  ListInv'
<1>1. \A t \in Servers, q \in Roles :
         conn'[t][q].at = IF t = s /\ q = r THEN place ELSE conn[t][q].at
  BY DEF TypeOK, ConnGoes
<1> QED BY <1>1 DEF ListInv, FreshConns, ListedReplicasChoseUs

LEMMA ListInvRole ==
  ASSUME TypeOK, ListInv, NEW s \in Servers, NEW r \in Roles, RoleStep(s, r)
  PROVE  ListInv'
<1>1. ASSUME NEW place, NEW nap, RoleGoes(s, r, place, nap), place \notin {"none", "start"}
      PROVE  \A t \in Servers, q \in Roles :
                /\ role'[t][q].manager = role[t][q].manager
                /\ role'[t][q].at \in {"none", "start"} => role[t][q].at \in {"none", "start"}
  <2>1. \A t \in Servers, q \in Roles :
           /\ role'[t][q].at = IF t = s /\ q = r THEN place ELSE role[t][q].at
           /\ role'[t][q].manager = role[t][q].manager
    BY <1>1, RoleGoesTo
  <2> QED BY <1>1, <2>1
<1>2. ASSUME NEW place, NEW nap, RoleGoes(s, r, place, nap), place \notin {"none", "start"},
             UNCHANGED <<up, conn>>, \A i \in Servers : replicas'[i] \subseteq replicas[i]
      PROVE  ListInv'
  BY <1>1, <1>2, ListInvQuiet
<1>3. CASE RoleStart(s, r)
  <2>1. RoleGoes(s, r, "clear", 0) /\ ConnGoes(s, r, "connecting", 0) /\ UNCHANGED <<up, replicas>>
    BY <1>3 DEF RoleStart
  <2>2. \A t \in Servers, q \in Roles :
           /\ role'[t][q].at = IF t = s /\ q = r THEN "clear" ELSE role[t][q].at
           /\ role'[t][q].manager = role[t][q].manager
    BY <2>1, RoleGoesTo
  <2>3. \A t \in Servers, q \in Roles :
           conn'[t][q].at = IF t = s /\ q = r THEN "connecting" ELSE conn[t][q].at
    BY <2>1, ConnGoesTo
  <2>4. conn[s][r].at = "none"
    BY <1>3 DEF RoleStart, RoleAt, ListInv, FreshConns
  <2> QED BY <2>1, <2>2, <2>3, <2>4 DEF ListInv, FreshConns, ListedReplicasChoseUs
<1>4. CASE RoleClear(s, r)
  BY <1>2, <1>4 DEF RoleClear
<1>5. CASE RoleLoop(s, r)
  <2>1. PICK place \in {"leaving", "loop"}, nap \in {0, Sleep(1)} : RoleGoes(s, r, place, nap)
    BY <1>5 DEF RoleLoop
  <2> QED BY <1>2, <1>5, <2>1 DEF RoleLoop
<1>6. CASE RoleLeaves(s, r)
  <2>1. PICK place \in {"announce", "done"} : RoleGoes(s, r, place, 0)
    BY <1>6 DEF RoleLeaves
  <2> QED BY <1>2, <1>6, <2>1 DEF RoleLeaves
<1>7. CASE RoleAnnounces(s, r)
  <2>1. \A t \in Servers, q \in Roles : conn'[t][q].at = conn[t][q].at
    BY <1>7, SendMovesNoConn DEF RoleAnnounces
  <2>2. RoleGoes(s, r, "snapshot", 0) /\ UNCHANGED <<up, replicas>>
    BY <1>7 DEF RoleAnnounces
  <2> QED BY <1>1, <2>1, <2>2, ListInvQuiet
<1>8. ASSUME NEW new, role' = [role EXCEPT ![s] = [role[s] EXCEPT ![r] = new]],
             new.manager = role[s][r].manager, new.at \notin {"none", "start"},
             UNCHANGED <<up, replicas, conn>>
      PROVE  ListInv'
  <2>1. ASSUME NEW t \in Servers, NEW q \in Roles
        PROVE  role'[t][q] = IF t = s /\ q = r THEN new ELSE role[t][q]
    BY <1>8 DEF TypeOK
  <2>2. \A t \in Servers, q \in Roles :
           /\ role'[t][q].manager = role[t][q].manager
           /\ role'[t][q].at \in {"none", "start"} => role[t][q].at \in {"none", "start"}
    BY <1>8, <2>1
  <2> QED BY <1>8, <2>2, ListInvQuiet
<1>9. CASE RoleCounts(s, r)
  <2> DEFINE new == [role[s][r] EXCEPT !.at = "destroy", !.count = Cardinality(replicas[s])]
  <2>1. role \in [Servers -> [Roles -> RoleType]] /\ role[s][r] \in RoleType
    BY DEF TypeOK
  <2>2. role' = [role EXCEPT ![s] = [role[s] EXCEPT ![r] = new]]
    BY <1>9, <2>1 DEF RoleCounts, RoleType
  <2>3. new.manager = role[s][r].manager /\ new.at = "destroy"
    BY <2>1 DEF RoleType
  <2>4. UNCHANGED <<up, replicas, conn>>
    BY <1>9 DEF RoleCounts
  <2> HIDE DEF new
  <2> QED BY <1>8, <2>2, <2>3, <2>4
<1>10. CASE RoleDestroys(s, r)
  <2>1. \A i \in Servers : replicas'[i] \subseteq replicas[i]
    BY <1>10 DEF RoleDestroys, TypeOK
  <2> QED BY <1>2, <1>10, <2>1 DEF RoleDestroys
<1>11. CASE RoleAwaits(s, r)
  <2>1. UNCHANGED <<up, replicas, conn>> /\ role[s][r].at \notin {"none", "start"}
    BY <1>11 DEF RoleAwaits, RoleAt
  <2>2. CASE Cardinality(replicas[s]) # role[s][r].count
    <3>1. RoleGoes(s, r, "await", Sleep(1))
      BY <1>11, <2>2 DEF RoleAwaits
    <3> QED BY <1>2, <2>1, <3>1
  <2>3. CASE Cardinality(replicas[s]) = role[s][r].count
    <3> DEFINE new == [role[s][r] EXCEPT !.at = "manage", !.count = 0]
    <3>1. role \in [Servers -> [Roles -> RoleType]] /\ role[s][r] \in RoleType
      BY DEF TypeOK
    <3>2. role' = [role EXCEPT ![s] = [role[s] EXCEPT ![r] = new]]
      BY <1>11, <2>3, <3>1 DEF RoleAwaits, RoleType
    <3>3. new.manager = role[s][r].manager /\ new.at = "manage"
      BY <3>1 DEF RoleType
    <3> HIDE DEF new
    <3> QED BY <1>8, <2>1, <3>2, <3>3
  <2> QED BY <2>2, <2>3
<1>12. CASE ManagerStart(s, r)
  BY <1>2, <1>12 DEF ManagerStart
<1>13. CASE ManagerBeats(s, r)
  <2>1. ASSUME NEW t \in Servers, NEW q \in Roles
        PROVE  conn'[t][q].at = conn[t][q].at
    <3>1. conn[t][q] \in ConnType
      BY DEF TypeOK
    <3>2. conn'[t][q] = IF Connected(s, t, q)
                        THEN [conn[t][q] EXCEPT !.inbox = @ \cup {"HEARTBEAT"}] ELSE conn[t][q]
      BY <1>13 DEF ManagerBeats
    <3> QED BY <3>1, <3>2 DEF ConnType
  <2>2. \A i \in Servers : replicas'[i] \subseteq replicas[i]
    BY <1>13 DEF ManagerBeats, TypeOK
  <2>3. RoleGoes(s, r, "managing", Sleep(2)) /\ UNCHANGED up
    BY <1>13 DEF ManagerBeats
  <2> QED BY <1>1, <2>1, <2>2, <2>3, ListInvQuiet
<1>14. CASE ManagerLeaves(s, r)
  BY <1>2, <1>14 DEF ManagerLeaves
<1> QED BY <1>3, <1>4, <1>5, <1>6, <1>7, <1>9, <1>10, <1>11, <1>12, <1>13, <1>14 DEF RoleStep

LEMMA ListInvConnStep ==
  ASSUME TypeOK, ListInv, NEW s \in Servers, NEW r \in Roles, ConnStep(s, r)
  PROVE  ListInv'
<1>1. conn[s][r].at # "none" => role[s][r].at \notin {"none", "start"}
  BY DEF ListInv, FreshConns
<1>2. CASE ConnConnects(s, r)
  <2>1. PICK place \in {"closed", "pending", "connecting"}, nap \in {0, Sleep(1)} :
           ConnGoes(s, r, place, nap)
    BY <1>2 DEF ConnConnects
  <2> QED BY <1>1, <1>2, <2>1, ListInvConn DEF ConnConnects, ConnAt
<1>3. CASE AcceptReplica(s, r)
  <2> DEFINE m == role[s][r].manager
  <2>1. conn[s][r].at = "pending" /\ m \in Servers
    BY <1>3 DEF AcceptReplica, ConnAt, Reachable
  <2>2. \A t \in Servers, q \in Roles :
           conn'[t][q].at = IF t = s /\ q = r THEN "connected" ELSE conn[t][q].at
    BY <1>3, ConnGoesTo DEF AcceptReplica
  <2>3. \A i \in Servers : replicas'[i] \subseteq replicas[i] \cup
                              (IF i = m THEN {Replica(s, r)} ELSE {})
    <3>1. PICK pruned : replicas' = [replicas EXCEPT ![m] = (@ \ pruned) \cup {Replica(s, r)}]
      BY <1>3 DEF AcceptReplica
    <3> QED BY <2>1, <3>1 DEF TypeOK
  <2>4. UNCHANGED <<up, role>>
    BY <1>3 DEF AcceptReplica
  <2>5. FreshConns'
    BY <1>1, <2>1, <2>2, <2>4 DEF ListInv, FreshConns
  <2>6. ListedReplicasChoseUs'
    <3> SUFFICES ASSUME NEW i \in Servers, NEW j \in Servers, NEW q \in Roles,
                        Replica(j, q) \in replicas'[i], up'[j]
                 PROVE  role'[j][q].manager = i /\ conn'[j][q].at \in {"connected", "closed"}
      BY DEF ListedReplicasChoseUs
    <3>1. CASE Replica(j, q) \in replicas[i]
      BY <2>2, <2>4, <3>1 DEF ListInv, ListedReplicasChoseUs
    <3>2. CASE Replica(j, q) = Replica(s, r) /\ i = m
      <4>1. j = s /\ q = r
        BY <3>2, EntriesDiffer
      <4> QED BY <2>2, <2>4, <3>2, <4>1
    <3> QED BY <2>3, <3>1, <3>2
  <2> QED BY <2>5, <2>6 DEF ListInv
<1>4. CASE AcceptPeer(s, r)
  <2> DEFINE m == role[s][r].manager
  <2>1. /\ conn[s][r].at = "pending" /\ m \in Servers
        /\ ConnGoes(s, r, "ignored", 0) /\ UNCHANGED <<up, replicas>>
    BY <1>4 DEF AcceptPeer, ConnAt, Reachable
  <2>2. \A t \in Servers, q \in Roles :
           conn'[t][q].at = IF t = s /\ q = r THEN "ignored" ELSE conn[t][q].at
    BY <2>1, ConnGoesTo
  <2>3. ASSUME NEW t \in Servers, NEW q \in Roles
        PROVE  role'[t][q] = role[t][q] \/ (role[t][q].at = "none" /\ conn[t][q].at = "none")
    <3>1. CASE UNCHANGED role
      BY <3>1
    <3>2. CASE NewRole(m, Nobody)
      <4>1. PICK n \in Roles : /\ role[m][n].at = "none"
                               /\ role' = [role EXCEPT ![m][n] = NewRoleUnder(Nobody)]
        BY <3>2 DEF NewRole
      <4>2. conn[m][n].at = "none"
        BY <2>1, <4>1 DEF ListInv, FreshConns
      <4>3. role'[t][q] = role[t][q] \/ (t = m /\ q = n)
        BY <2>1, <4>1 DEF TypeOK
      <4> QED BY <4>1, <4>2, <4>3
    <3> QED BY <1>4, <3>1, <3>2 DEF AcceptPeer
  <2>4. FreshConns'
    <3> SUFFICES ASSUME NEW t \in Servers, NEW q \in Roles, role'[t][q].at \in {"none", "start"}
                 PROVE  conn'[t][q].at = "none"
      BY DEF FreshConns
    <3>1. conn[t][q].at = "none"
      BY <2>3 DEF ListInv, FreshConns
    <3>2. ~(t = s /\ q = r)
      BY <2>1, <3>1
    <3> QED BY <2>2, <3>1, <3>2
  <2>5. ListedReplicasChoseUs'
    <3> SUFFICES ASSUME NEW i \in Servers, NEW j \in Servers, NEW q \in Roles,
                        Replica(j, q) \in replicas'[i], up'[j]
                 PROVE  role'[j][q].manager = i /\ conn'[j][q].at \in {"connected", "closed"}
      BY DEF ListedReplicasChoseUs
    <3>1. role[j][q].manager = i /\ conn[j][q].at \in {"connected", "closed"}
      BY <2>1 DEF ListInv, ListedReplicasChoseUs
    <3>2. ~(j = s /\ q = r)
      BY <2>1, <3>1
    <3>3. role'[j][q] = role[j][q]
      BY <2>3, <3>1
    <3> QED BY <2>2, <3>1, <3>2, <3>3
  <2> QED BY <2>4, <2>5 DEF ListInv
<1>5. CASE ConnReads(s, r)
  <2>1. ASSUME NEW t \in Servers, NEW q \in Roles
        PROVE  conn'[t][q].at = conn[t][q].at
    <3>1. conn \in [Servers -> [Roles -> ConnType]] /\ conn[s][r] \in ConnType
      BY DEF TypeOK
    <3>2. PICK m : conn' = [conn EXCEPT ![s][r].inbox = @ \ {m}, ![s][r].nap = Sleep(1)]
      BY <1>5 DEF ConnReads
    <3>3. conn'[t][q] = IF t = s /\ q = r
             THEN [conn[s][r] EXCEPT !.inbox = conn[s][r].inbox \ {m}, !.nap = Sleep(1)]
             ELSE conn[t][q]
      BY <3>1, <3>2 DEF ConnType
    <3> QED BY <3>1, <3>3 DEF ConnType
  <2>2. UNCHANGED <<up, replicas, role>>
    BY <1>5 DEF ConnReads
  <2> QED BY <2>1, <2>2, ListInvQuiet
<1>6. CASE ConnCloses(s, r) \/ ConnLeaves(s, r)
  <2>1. /\ ConnGoes(s, r, "closed", 0)
        /\ UNCHANGED <<up, replicas, role>>
        /\ conn[s][r].at # "none"
    BY <1>6 DEF ConnCloses, ConnLeaves, ConnAt
  <2> QED BY <1>1, <2>1, ListInvConn
<1> QED BY <1>2, <1>3, <1>4, <1>5, <1>6 DEF ConnStep

LEMMA ListInvStep ==
  TypeOK /\ ListInv /\ [Next]_vars => ListInv'
<1> SUFFICES ASSUME TypeOK, ListInv, [Next]_vars PROVE ListInv'
  OBVIOUS
<1>1. ASSUME UNCHANGED <<up, replicas, role, conn>>
      PROVE  ListInv'
  BY <1>1 DEF ListInv, FreshConns, ListedReplicasChoseUs
<1>2. CASE UNCHANGED vars
  BY <1>1, <1>2 DEF vars, threads
<1>3. CASE Tick
  <2>1. ASSUME NEW t \in Servers, NEW q \in Roles
        PROVE  /\ role'[t][q].at = role[t][q].at
               /\ role'[t][q].manager = role[t][q].manager
               /\ conn'[t][q].at = conn[t][q].at
    <3>1. role[t][q] \in RoleType /\ conn[t][q] \in ConnType
      BY DEF TypeOK
    <3>2. /\ role'[t][q] = [role[t][q] EXCEPT !.nap = Older(@)]
          /\ conn'[t][q] = [conn[t][q] EXCEPT !.nap = Older(@)]
      BY <1>3 DEF Tick
    <3> QED BY <3>1, <3>2 DEF RoleType, ConnType
  <2>2. UNCHANGED <<up, replicas>>
    BY <1>3 DEF Tick
  <2> QED BY <2>1, <2>2, ListInvQuiet
<1>4. ASSUME NEW s \in Servers, MonitorStep(s)
      PROVE  ListInv'
  BY <1>1, <1>4 DEF MonitorStep, MonitorCheck, MonitorElects, MonitorRelents, MonitorJoined
<1>5. ASSUME NEW s \in Servers, NEW e \in Runs, ElectionStep(s, e)
      PROVE  ListInv'
  <2>1. CASE ElectionStart(s, e)
    <3>1. \A t \in Servers, q \in Roles : conn'[t][q].at = conn[t][q].at
      BY <2>1, SendMovesNoConn DEF ElectionStart
    <3> QED BY <2>1, <3>1, ListInvQuiet DEF ElectionStart
  <2>2. CASE \/ ElectionTimeout(s, e) \/ ElectionWon(s, e) \/ ElectionUnflags(s, e)
             \/ ElectionDecides(s, e) \/ ElectionEnd(s, e)
    BY <1>1, <2>2 DEF ElectionTimeout, ElectionWon, ElectionUnflags, ElectionDecides, ElectionEnd
  <2> QED BY <1>5, <2>1, <2>2 DEF ElectionStep
<1>6. ASSUME NEW j \in Servers, NEW i \in Servers, ListenerStep(j, i)
      PROVE  ListInv'
  <2>1. CASE HandleElection(j, i)
    BY <1>1, <2>1 DEF HandleElection
  <2>2. CASE HandleCoordinator(j, i)
    <3>1. \A k \in Servers : replicas'[k] \subseteq replicas[k]
      <4>1. replicas' = replicas \/ \E entry : Drop(j, entry)
        BY <2>2 DEF HandleCoordinator
      <4>2. ASSUME NEW entry, Drop(j, entry)
            PROVE  \A k \in Servers : replicas'[k] \subseteq replicas[k]
        <5>1. replicas' = [replicas EXCEPT ![j] = @ \ {entry}]
          BY <4>2 DEF Drop
        <5>2. replicas \in [Servers -> SUBSET Entries]
          BY DEF TypeOK
        <5> QED BY <5>1, <5>2
      <4>3. CASE replicas' = replicas
        BY <4>3
      <4> QED BY <4>1, <4>2, <4>3
    <3> QED BY <2>2, <3>1, ListInvNewRole DEF HandleCoordinator
  <2> QED BY <1>6, <2>1, <2>2 DEF ListenerStep
<1>7. ASSUME NEW s \in Servers, Stops(s)
      PROVE  ListInv'
  <2>1. /\ up' = [up EXCEPT ![s] = FALSE]
        /\ replicas' = [replicas EXCEPT ![s] = {}]
        /\ role' = [role EXCEPT ![s] = [r \in Roles |-> NoRole]]
        /\ conn' = [conn EXCEPT ![s] = [r \in Roles |-> NoConn]]
    BY <1>7 DEF Stops
  <2>2. ASSUME NEW t \in Servers, NEW r \in Roles
        PROVE  IF t = s THEN conn'[t][r].at = "none"
               ELSE conn'[t][r] = conn[t][r] /\ role'[t][r] = role[t][r]
    BY <2>1 DEF TypeOK, NoConn
  <2>3. FreshConns'
    BY <2>2 DEF ListInv, FreshConns
  <2>4. ASSUME NEW i \in Servers, NEW j \in Servers, up'[j]
        PROVE  j # s /\ up[j] /\ replicas'[i] \subseteq replicas[i]
    BY <2>1, <2>4 DEF TypeOK
  <2>5. ListedReplicasChoseUs'
    BY <2>2, <2>4 DEF ListInv, ListedReplicasChoseUs
  <2> QED BY <2>3, <2>5 DEF ListInv
<1> QED BY <1>2, <1>3, <1>4, <1>5, <1>6, <1>7, ListInvRole, ListInvConnStep
        DEF Next, Crash, MisreadCoordinator, FreedHostname

(* Whoever is listed as a replica chose this server as its manager: by      *)
(* induction together with FreshConns.                                      *)
THEOREM ListedReplicasChose == Spec => []ListedReplicasChoseUs
<1>1. Init => ListInv
  <2>1. ASSUME Init, NEW i \in Servers, NEW j \in Servers, NEW r \in Roles,
               Replica(j, r) \in replicas[i]
        PROVE  i = First /\ j # First /\ r = 1
    BY <2>1, EntriesDiffer DEF Init
  <2>2. ASSUME Init
        PROVE  FreshConns
    BY <2>2 DEF Init, FreshConns, NoRole, NoConn
  <2>3. ASSUME Init
        PROVE  ListedReplicasChoseUs
    BY <2>1, <2>3 DEF Init, ListedReplicasChoseUs
  <2> QED BY <2>2, <2>3 DEF ListInv
<1>2. TypeOK /\ ListInv /\ [Next]_vars => ListInv'
  BY ListInvStep
<1>3. ListInv => ListedReplicasChoseUs
  BY DEF ListInv
<1> QED BY <1>1, <1>2, <1>3, TypeCorrect, PTL DEF Spec

-----------------------------------------------------------------------------
(* While the first manager lives.                                           *)

(* Heartbeats that are under way, the second in which the next is due and   *)
(* the second in which the backup reads again leave no room for silence.    *)
InTime(s) ==
  LET nap == role[First][1].nap
      reader == conn[s][1]
  IN  /\ reader.nap <= 1
      /\ reader.inbox \subseteq {"HEARTBEAT"}
      /\ reader.inbox = {} => silence[s] + nap <= 2
      /\ reader.inbox # {} => \/ nap = 2 /\ silence[s] <= 2
                              \/ nap = 1 /\ silence[s] <= 3 /\ reader.nap = 0

Follows(s) ==
  /\ global_server_mode[s] = "BACKUP"
  /\ monitor[s].at = "check"
  /\ role[s][1].at = "loop"
  /\ role[s][1].manager = First
  /\ conn[s][1].at = "connected"
  /\ Replica(s, 1) \in replicas[First]
  /\ InTime(s)

Manages ==
  /\ global_server_mode[First] = "BACKUP_MANAGER"
  /\ monitor[First].at = "off"
  /\ role[First][1].at = "managing"
  /\ role[First][1].nap <= 2
  /\ conn[First][1].at = "none"

(* Nobody has begun an election or taken another role.                      *)
Untroubled ==
  \A s \in Servers :
     /\ ~is_election_running[s]
     /\ ~new_leader_decided[s]
     /\ \A e \in Runs : election[s][e].at = "none"
     /\ \A j \in Servers : wire[s][j] = <<>>
     /\ \A r \in Roles \ {1} : role[s][r].at = "none" /\ conn[s][r].at = "none"
     /\ ~up[s] => monitor[s].at = "off"

Steady ==
  Timed /\ up[First] =>
     Manages /\ Untroubled /\ \A s \in Servers \ {First} : up[s] => Follows(s)

LEMMA NeverUpAgain ==
  ASSUME TypeOK, [Next]_vars, NEW s \in Servers, up'[s]
  PROVE  up[s]
<1>1. ASSUME NEW t \in Servers, Stops(t) PROVE up[s]
  BY <1>1 DEF Stops, TypeOK
<1>2. CASE UNCHANGED vars
  BY <1>2 DEF vars
<1>3. CASE Tick
  BY <1>3 DEF Tick
<1>4. ASSUME NEW t \in Servers, MonitorStep(t) PROVE up[s]
  BY <1>4 DEF MonitorStep, MonitorCheck, MonitorElects, MonitorRelents, MonitorJoined
<1>5. ASSUME NEW t \in Servers, NEW e \in Runs, ElectionStep(t, e) PROVE up[s]
  BY <1>5 DEF ElectionStep, ElectionStart, ElectionTimeout, ElectionWon, ElectionUnflags,
              ElectionDecides, ElectionEnd
<1>6. ASSUME NEW t \in Servers, NEW i \in Servers, ListenerStep(t, i) PROVE up[s]
  BY <1>6 DEF ListenerStep, HandleElection, HandleCoordinator
<1>7. ASSUME NEW t \in Servers, NEW r \in Roles, RoleStep(t, r) PROVE up[s]
  BY <1>7 DEF RoleStep, RoleStart, RoleClear, RoleLoop, RoleLeaves, RoleAnnounces, RoleCounts,
              RoleDestroys, RoleAwaits, ManagerStart, ManagerBeats, ManagerLeaves
<1>8. ASSUME NEW t \in Servers, NEW r \in Roles, ConnStep(t, r) PROVE up[s]
  BY <1>8 DEF ConnStep, ConnConnects, AcceptReplica, AcceptPeer, ConnReads, ConnCloses,
              ConnLeaves
<1> QED BY <1>1, <1>2, <1>3, <1>4, <1>5, <1>6, <1>7, <1>8
        DEF Next, Crash, MisreadCoordinator, FreedHostname

LEMMA FirstRole == 1 \in Roles /\ First \in Servers
BY ServersAssumption, BoundsAssumption DEF Roles

LEMMA InitSteady == Init => Steady
<1> SUFFICES ASSUME Init PROVE Steady
  OBVIOUS
<1>1. Manages
  BY FirstRole DEF Init, Manages, NoConn
<1>2. Untroubled
  BY DEF Init, Untroubled, NoRole, NoConn, Roles
<1>3. ASSUME NEW s \in Servers \ {First} PROVE Follows(s)
  <2>1. conn[s][1] = [at |-> "connected", nap |-> 0, inbox |-> {}]
    BY FirstRole DEF Init
  <2>2. role[First][1].nap = 0 /\ silence[s] = 0
    BY FirstRole DEF Init
  <2>3. role[s][1].at = "loop" /\ role[s][1].manager = First /\ monitor[s].at = "check"
        /\ global_server_mode[s] = "BACKUP" /\ Replica(s, 1) \in replicas[First]
    BY FirstRole DEF Init
  <2>4. InTime(s)
    BY <2>1, <2>2 DEF InTime
  <2> QED BY <2>1, <2>3, <2>4 DEF Follows
<1> QED BY <1>1, <1>2, <1>3 DEF Steady

(* What is left alone when no more than this changes.                       *)
LEMMA FollowsOn ==
  ASSUME TypeOK, NEW s \in Servers, Follows(s),
         UNCHANGED global_server_mode,
         monitor'[s].at = "check", role'[s][1].at = "loop",
         role'[s][1].manager = role[s][1].manager,
         conn'[s][1].at = "connected", Replica(s, 1) \in replicas'[First],
         InTime(s)'
  PROVE  Follows(s)'
BY DEF Follows

LEMMA SilenceShort ==
  ASSUME TypeOK, NEW s \in Servers, InTime(s)
  PROVE  silence[s] \in Nat /\ silence[s] <= 3 /\ role[First][1].nap \in Nat
         /\ conn[s][1].nap \in Nat
<1>1. /\ silence[s] \in 0 .. 6
      /\ role[First][1] \in RoleType /\ conn[s][1] \in ConnType
  BY FirstRole DEF TypeOK, Silences, HEARTBEAT_TIMEOUT_SECONDS
<1>2. role[First][1].nap \in 0 .. 3 /\ conn[s][1].nap \in 0 .. 3
  BY <1>1 DEF RoleType, ConnType, Naps
<1> QED BY <1>1, <1>2 DEF InTime

LEMMA MonitorSteady ==
  ASSUME TypeOK, Steady, Timed, up[First], NEW s \in Servers, MonitorStep(s)
  PROVE  Steady'
<1>1. Manages /\ Untroubled /\ \A t \in Servers \ {First} : up[t] => Follows(t)
  BY DEF Steady
<1>2. up[s] /\ monitor[s].at # "off"
  BY DEF MonitorStep, MonitorCheck, MonitorElects, MonitorRelents, MonitorJoined
<1>3. s # First /\ Follows(s)
  BY <1>1, <1>2 DEF Manages
<1>4. MonitorCheck(s)
  BY <1>3 DEF Follows, MonitorStep, MonitorElects, MonitorRelents, MonitorJoined
<1>5. silence[s] <= 3 /\ silence[s] \in Nat
  BY <1>3, SilenceShort DEF Follows
<1>6. \A late \in Late(s) : ~late
  <2>1. (silence[s] > HEARTBEAT_TIMEOUT_SECONDS) = FALSE
    BY <1>5 DEF HEARTBEAT_TIMEOUT_SECONDS
  <2>2. Late(s) = {silence[s] > HEARTBEAT_TIMEOUT_SECONDS}
    BY DEF Late
  <2> QED BY <2>1, <2>2, Zenon
<1>7. MonitorGoes(s, "check", Sleep(1))
  BY <1>1, <1>3, <1>4, <1>6 DEF MonitorCheck, ManagerMissing, Untroubled, Follows
<1>8. \A t \in Servers : monitor'[t].at = monitor[t].at
  BY <1>3, <1>7, MonitorGoesTo DEF Follows
<1>9. UNCHANGED <<up, flags, silence, replicas, wire, unread, election, role, conn>>
  BY <1>4 DEF MonitorCheck
<1>10. Manages'
  BY <1>1, <1>8, <1>9, FirstRole DEF Manages, flags
<1>11. Untroubled'
  BY <1>1, <1>8, <1>9 DEF Untroubled, flags
<1>12. ASSUME NEW t \in Servers \ {First}, up[t] PROVE Follows(t)'
  BY <1>1, <1>8, <1>9, <1>12 DEF Follows, InTime, flags
<1> QED BY <1>9, <1>10, <1>11, <1>12 DEF Steady

LEMMA LoopSteady ==
  ASSUME TypeOK, Steady, Timed, up[First], NEW s \in Servers \ {First}, RoleStep(s, 1)
  PROVE  Steady'
<1>1. Manages /\ Untroubled /\ \A t \in Servers \ {First} : up[t] => Follows(t)
  BY DEF Steady
<1>2. up[s]
  BY DEF RoleStep, RoleStart, RoleClear, RoleLoop, RoleLeaves, RoleAnnounces, RoleCounts,
         RoleDestroys, RoleAwaits, ManagerStart, ManagerBeats, ManagerLeaves, RoleAt
<1>3. Follows(s)
  BY <1>1, <1>2
<1>4. RoleLoop(s, 1)
  BY <1>3 DEF Follows, RoleStep, RoleStart, RoleClear, RoleLeaves, RoleAnnounces, RoleCounts,
              RoleDestroys, RoleAwaits, ManagerStart, ManagerBeats, ManagerLeaves, RoleAt
<1>5. RoleGoes(s, 1, "loop", Sleep(1))
  BY <1>1, <1>3, <1>4 DEF RoleLoop, Untroubled, Follows
<1>6. \A t \in Servers, q \in Roles :
         role'[t][q].at = role[t][q].at /\ role'[t][q].manager = role[t][q].manager
  BY <1>3, <1>5, RoleGoesTo, FirstRole DEF Follows
<1>7. role'[First] = role[First]
  BY <1>5, FirstRole DEF RoleGoes, TypeOK
<1>8. UNCHANGED <<up, flags, silence, replicas, wire, unread, monitor, election, conn>>
  BY <1>4 DEF RoleLoop
<1>9. Manages'
  BY <1>1, <1>7, <1>8, FirstRole DEF Manages, flags
<1>10. Untroubled'
  BY <1>1, <1>6, <1>8 DEF Untroubled, flags
<1>11. ASSUME NEW t \in Servers \ {First}, up[t] PROVE Follows(t)'
  BY <1>1, <1>6, <1>7, <1>8, <1>11, FirstRole DEF Follows, InTime, flags
<1> QED BY <1>8, <1>9, <1>10, <1>11 DEF Steady

LEMMA BeatSteady ==
  ASSUME TypeOK, Steady, Timed, up[First], RoleStep(First, 1)
  PROVE  Steady'
<1>1. Manages /\ Untroubled /\ \A t \in Servers \ {First} : up[t] => Follows(t)
  BY DEF Steady
<1>2. ManagerBeats(First, 1)
  BY <1>1 DEF Manages, RoleStep, RoleStart, RoleClear, RoleLoop, RoleLeaves, RoleAnnounces,
              RoleCounts, RoleDestroys, RoleAwaits, ManagerStart, ManagerLeaves, RoleAt
<1>3. /\ role[First][1].nap = 0
      /\ UNCHANGED <<up, flags, silence, wire, unread, monitor, election>>
  BY <1>2 DEF ManagerBeats, RoleAt
<1>4. RoleGoes(First, 1, "managing", 2)
  BY <1>2 DEF ManagerBeats, Sleep
<1>5. \A t \in Servers, q \in Roles :
         role'[t][q].at = role[t][q].at /\ role'[t][q].manager = role[t][q].manager
  BY <1>1, <1>4, RoleGoesTo, FirstRole DEF Manages
<1>6. role'[First][1].nap = 2
  <2>1. role[First][1] \in RoleType /\ role \in [Servers -> [Roles -> RoleType]]
    BY FirstRole DEF TypeOK
  <2> QED BY <1>4, <2>1, FirstRole DEF RoleGoes, RoleType
<1>7. ASSUME NEW t \in Servers, NEW q \in Roles
      PROVE  /\ conn'[t][q].at = conn[t][q].at /\ conn'[t][q].nap = conn[t][q].nap
             /\ conn'[t][q].inbox = IF Connected(First, t, q)
                                    THEN conn[t][q].inbox \cup {"HEARTBEAT"}
                                    ELSE conn[t][q].inbox
  <2>1. conn[t][q] \in ConnType
    BY DEF TypeOK
  <2>2. conn'[t][q] = IF Connected(First, t, q)
                      THEN [conn[t][q] EXCEPT !.inbox = @ \cup {"HEARTBEAT"}] ELSE conn[t][q]
    BY <1>2 DEF ManagerBeats
  <2> QED BY <2>1, <2>2 DEF ConnType
<1>a. \A t \in Servers, q \in Roles : conn'[t][q].at = conn[t][q].at
  BY <1>7
<1>8. Manages'
  BY <1>1, <1>3, <1>5, <1>6, <1>a, FirstRole DEF Manages, flags
<1>9. Untroubled'
  BY <1>1, <1>3, <1>5, <1>a DEF Untroubled, flags
<1>10. ASSUME NEW t \in Servers \ {First}, up[t] PROVE Follows(t)'
  <2>1. Follows(t) /\ Connected(First, t, 1)
    BY <1>1, <1>10 DEF Follows, Connected
  <2>2. silence[t] <= 2 /\ silence[t] \in Nat /\ conn[t][1].inbox = {}
        /\ conn[t][1].nap <= 1
    BY <1>3, <2>1, SilenceShort DEF Follows, InTime
  <2>3. conn'[t][1].inbox = {"HEARTBEAT"} /\ conn'[t][1].nap = conn[t][1].nap
    BY <1>7, <2>1, <2>2, FirstRole
  <2>4. InTime(t)'
    BY <1>3, <1>6, <2>2, <2>3 DEF InTime
  <2>5. Replica(t, 1) \in replicas'[First]
    <3>1. Replica(t, 1) \notin Dead(First)
      BY <1>10, <2>1 DEF Follows, Dead, Replica
    <3>2. Replica(t, 1) \in replicas[First]
      BY <2>1 DEF Follows
    <3> QED BY <1>2, <3>1, <3>2, FirstRole DEF ManagerBeats, TypeOK
  <2> QED BY <1>3, <1>5, <1>7, <2>1, <2>4, <2>5, FirstRole DEF Follows, flags
<1> QED BY <1>3, <1>8, <1>9, <1>10 DEF Steady

LEMMA ReadsSteady ==
  ASSUME TypeOK, Steady, Timed, up[First], NEW s \in Servers, ConnStep(s, 1)
  PROVE  Steady'
<1>1. Manages /\ Untroubled /\ \A t \in Servers \ {First} : up[t] => Follows(t)
  BY DEF Steady
<1>2. up[s] /\ conn[s][1].at # "none"
  BY DEF ConnStep, ConnConnects, AcceptReplica, AcceptPeer, ConnReads, ConnCloses, ConnLeaves,
         ConnAt
<1>3. s # First /\ Follows(s)
  BY <1>1, <1>2 DEF Manages
<1>4. ConnReads(s, 1)
  <2>1. ~ConnConnects(s, 1) /\ ~AcceptReplica(s, 1) /\ ~AcceptPeer(s, 1) /\ ~ConnLeaves(s, 1)
    BY <1>3 DEF Follows, ConnConnects, AcceptReplica, AcceptPeer, ConnLeaves, ConnAt
  <2>2. ~ConnCloses(s, 1)
    BY <1>3, FirstRole DEF Follows, ConnCloses, Reachable
  <2> QED BY <2>1, <2>2 DEF ConnStep
<1>5. UNCHANGED <<up, flags, replicas, wire, unread, monitor, election, role>>
  BY <1>4 DEF ConnReads
<1>6. /\ silence' = [silence EXCEPT ![s] = 0]
      /\ conn' = [conn EXCEPT ![s][1].inbox = @ \ {"HEARTBEAT"}, ![s][1].nap = Sleep(1)]
      /\ "HEARTBEAT" \in conn[s][1].inbox
  <2>1. conn[s][1].inbox \ {"COORDINATOR"} \subseteq {"HEARTBEAT"}
    BY <1>3 DEF Follows, InTime
  <2> QED BY <1>4, <2>1 DEF ConnReads
<1>7. /\ \A t \in Servers \ {s} : conn'[t] = conn[t] /\ silence'[t] = silence[t]
      /\ \A q \in Roles : conn'[s][q].at = conn[s][q].at
      /\ conn'[s][1].nap = 1 /\ conn'[s][1].inbox = conn[s][1].inbox \ {"HEARTBEAT"}
      /\ silence'[s] = 0
  <2>1. conn \in [Servers -> [Roles -> ConnType]] /\ conn[s][1] \in ConnType
        /\ silence \in [Servers -> Silences]
    BY FirstRole DEF TypeOK
  <2> QED BY <1>6, <2>1, FirstRole DEF ConnType, Sleep
<1>8. InTime(s)'
  <2>1. conn'[s][1].inbox = {}
    BY <1>3, <1>7 DEF Follows, InTime
  <2>2. role'[First][1].nap <= 2
    BY <1>1, <1>5 DEF Manages
  <2> QED BY <1>3, <1>7, <2>1, <2>2, SilenceShort, <1>5 DEF InTime, Follows
<1>9. Manages'
  BY <1>1, <1>3, <1>5, <1>7, FirstRole DEF Manages, flags
<1>10. Untroubled'
  BY <1>1, <1>5, <1>7 DEF Untroubled, flags
<1>11. ASSUME NEW t \in Servers \ {First}, up[t] PROVE Follows(t)'
  <2>1. CASE t = s
    BY <1>3, <1>5, <1>7, <1>8, <2>1, FirstRole DEF Follows, flags
  <2>2. CASE t # s
    BY <1>1, <1>5, <1>7, <1>11, <2>2 DEF Follows, InTime, flags
  <2> QED BY <2>1, <2>2
<1> QED BY <1>5, <1>9, <1>10, <1>11 DEF Steady

LEMMA StopsSteady ==
  ASSUME TypeOK, Steady, Timed, NEW s \in Servers, Stops(s), up'[First]
  PROVE  Steady'
<1>1. s # First /\ up[First] /\ \A t \in Servers \ {s} : up'[t] = up[t]
  BY FirstRole DEF Stops, TypeOK
<1>2. Manages /\ Untroubled /\ \A t \in Servers \ {First} : up[t] => Follows(t)
  BY <1>1 DEF Steady
<1>3. /\ \A t \in Servers \ {s} :
            /\ UNCHANGED <<global_server_mode[t], is_election_running[t], new_leader_decided[t],
                           silence[t], replicas[t], monitor[t], election[t], role[t], conn[t]>>
      /\ ~is_election_running'[s] /\ ~new_leader_decided'[s] /\ monitor'[s].at = "off"
      /\ \A e \in Runs : election'[s][e].at = "none"
      /\ \A r \in Roles : role'[s][r].at = "none" /\ conn'[s][r].at = "none"
      /\ ~up'[s]
  BY DEF Stops, TypeOK, NoRole, NoConn
<1>4. \A i, j \in Servers : wire'[i][j] = <<>>
  <2>1. \A i, j \in Servers : wire[i][j] = <<>>
    BY <1>2 DEF Untroubled
  <2>2. \A q : q \in Prefixes(<<>>) => q = <<>>
    BY DEF Prefixes
  <2>3. PICK kept : /\ \A j \in Servers : kept[j] \in Prefixes(wire[s][j])
                    /\ wire' = [i \in Servers |-> IF i = s THEN kept
                                                  ELSE [wire[i] EXCEPT ![s] = <<>>]]
    BY DEF Stops
  <2>4. \A j \in Servers : kept[j] = <<>>
    BY <2>1, <2>2, <2>3
  <2>5. wire \in [Servers -> [Servers -> Seq(Messages)]]
    BY DEF TypeOK
  <2> QED BY <2>1, <2>3, <2>4, <2>5
<1>5. Manages'
  BY <1>1, <1>2, <1>3, FirstRole DEF Manages
<1>6. Untroubled'
  BY <1>1, <1>2, <1>3, <1>4 DEF Untroubled
<1>7. ASSUME NEW t \in Servers \ {First}, up'[t] PROVE Follows(t)'
  BY <1>1, <1>2, <1>3, <1>7, FirstRole DEF Follows, InTime
<1> QED BY <1>5, <1>6, <1>7 DEF Steady

LEMMA TickSteady ==
  ASSUME TypeOK, Steady, Timed, up[First], Tick
  PROVE  Steady'
<1>1. Manages /\ Untroubled /\ \A t \in Servers \ {First} : up[t] => Follows(t)
  BY DEF Steady
<1>2. UNCHANGED <<up, flags, replicas, wire, unread>>
  BY DEF Tick
<1>3. ASSUME NEW t \in Servers, NEW q \in Roles
      PROVE  /\ role'[t][q].at = role[t][q].at /\ role'[t][q].manager = role[t][q].manager
             /\ role'[t][q].nap = Older(role[t][q].nap)
             /\ conn'[t][q].at = conn[t][q].at /\ conn'[t][q].inbox = conn[t][q].inbox
             /\ conn'[t][q].nap = Older(conn[t][q].nap)
  <2>1. role[t][q] \in RoleType /\ conn[t][q] \in ConnType
    BY DEF TypeOK
  <2>2. /\ role'[t][q] = [role[t][q] EXCEPT !.nap = Older(@)]
        /\ conn'[t][q] = [conn[t][q] EXCEPT !.nap = Older(@)]
    BY DEF Tick
  <2> QED BY <2>1, <2>2 DEF RoleType, ConnType
<1>4. /\ \A s \in Servers : monitor'[s].at = monitor[s].at
      /\ \A s \in Servers, e \in Runs : election'[s][e].at = election[s][e].at
  BY TickMovesNothing
<1>5. role[First][1].nap \in 1 .. 2 /\ role'[First][1].nap = role[First][1].nap - 1
  <2>1. role[First][1] \in RoleType
    BY FirstRole DEF TypeOK
  <2>2. role[First][1].nap \in 0 .. 2
    BY <1>1, <2>1 DEF RoleType, Naps, Manages
  <2>3. role[First][1].nap # 0
    <3>1. ~Busy(First)
      BY FirstRole DEF Tick
    <3> QED BY <1>1, <3>1, FirstRole DEF Busy, Manages, Unlocked
  <2> QED BY <1>3, <2>2, <2>3, FirstRole DEF Older
<1>6. Manages'
  BY <1>1, <1>2, <1>3, <1>4, <1>5, FirstRole DEF Manages, flags
<1>7. Untroubled'
  BY <1>1, <1>2, <1>3, <1>4 DEF Untroubled, flags
<1>8. ASSUME NEW s \in Servers \ {First}, up[s] PROVE Follows(s)'
  <2>1. Follows(s)
    BY <1>1, <1>8
  <2>2. silence[s] \in Nat /\ conn[s][1].nap \in Nat /\ conn[s][1].nap <= 1
    BY <2>1, SilenceShort DEF Follows, InTime
  <2>3. silence'[s] = silence[s] \/ silence'[s] = silence[s] + 1
    BY DEF Tick
  <2>4. conn'[s][1].nap = 0 /\ conn'[s][1].inbox = conn[s][1].inbox
    BY <1>3, <2>2, FirstRole DEF Older
  <2>5. conn[s][1].inbox # {} => conn[s][1].nap # 0
    <3>1. ~Busy(s)
      BY DEF Tick
    <3> QED BY <1>1, <1>8, <2>1, <3>1, FirstRole DEF Busy, Follows, Unlocked, Untroubled
  <2>6. InTime(s)'
    BY <1>5, <2>1, <2>2, <2>3, <2>4, <2>5 DEF Follows, InTime
  <2> QED BY <1>2, <1>3, <1>4, <2>1, <2>6, FirstRole DEF Follows, flags
<1> QED BY <1>2, <1>6, <1>7, <1>8 DEF Steady

LEMMA StepSteady == TypeOK /\ Steady /\ [Next]_vars => Steady'
<1> SUFFICES ASSUME TypeOK, Steady, [Next]_vars, Timed, up'[First] PROVE Steady'
  BY DEF Steady
<1>1. up[First]
  BY NeverUpAgain, FirstRole
<1>2. Manages /\ Untroubled /\ \A t \in Servers \ {First} : up[t] => Follows(t)
  BY <1>1 DEF Steady
<1>3. CASE UNCHANGED vars
  <2>1. /\ up' = up
        /\ global_server_mode' = global_server_mode
        /\ is_election_running' = is_election_running
        /\ new_leader_decided' = new_leader_decided
        /\ silence' = silence /\ replicas' = replicas /\ wire' = wire
        /\ monitor' = monitor /\ election' = election /\ role' = role /\ conn' = conn
    BY <1>3 DEF vars, flags, threads
  <2>2. Manages'
    BY <1>2, <2>1 DEF Manages
  <2>3. Untroubled'
    BY <1>2, <2>1 DEF Untroubled
  <2>4. ASSUME NEW s \in Servers \ {First}, up[s] PROVE Follows(s)'
    <3>1. Follows(s)
      BY <1>2, <2>4
    <3>2. InTime(s)'
      BY <2>1, <3>1 DEF Follows, InTime
    <3> QED BY <2>1, <3>1, <3>2 DEF Follows
  <2> QED BY <2>1, <2>2, <2>3, <2>4 DEF Steady
<1>4. ASSUME NEW s \in Servers, NEW e \in Runs PROVE ~ElectionStep(s, e)
  <2>1. election[s][e].at = "none"
    BY <1>2 DEF Untroubled
  <2> QED BY <2>1 DEF ElectionStep, ElectionStart, ElectionTimeout, ElectionWon,
                      ElectionUnflags, ElectionDecides, ElectionEnd
<1>5. ASSUME NEW s \in Servers, NEW i \in Servers PROVE ~ListenerStep(s, i)
  <2>1. wire[i][s] = <<>>
    BY <1>2 DEF Untroubled
  <2> QED BY <2>1 DEF ListenerStep, HandleElection, HandleCoordinator, Receives
<1>6. ASSUME NEW s \in Servers, NEW r \in Roles, r # 1 PROVE ~RoleStep(s, r) /\ ~ConnStep(s, r)
  <2>1. role[s][r].at = "none" /\ conn[s][r].at = "none"
    BY <1>2, <1>6 DEF Untroubled
  <2>2. ~RoleStep(s, r)
    BY <2>1 DEF RoleStep, RoleStart, RoleClear, RoleLoop, RoleLeaves, RoleAnnounces, RoleCounts,
                RoleDestroys, RoleAwaits, ManagerStart, ManagerBeats, ManagerLeaves, RoleAt
  <2>3. ~ConnStep(s, r)
    BY <2>1 DEF ConnStep, ConnConnects, AcceptReplica, AcceptPeer, ConnReads, ConnCloses,
                ConnLeaves, ConnAt
  <2> QED BY <2>2, <2>3
<1>7. ASSUME NEW s \in Servers, NEW r \in Roles, RoleStep(s, r) \/ ConnStep(s, r) PROVE Steady'
  BY <1>1, <1>6, <1>7, LoopSteady, BeatSteady, ReadsSteady
<1> QED BY <1>1, <1>3, <1>4, <1>5, <1>7, MonitorSteady, StopsSteady, TickSteady
        DEF Next, Crash, MisreadCoordinator, FreedHostname

(* While the first manager lives no backup suspects it or begins an         *)
(* election, for any number of backups and whoever else crashes: the manager *)
(* beats every two seconds, a backup reads an event a second, and a beat is *)
(* read within a second of its coming (serverRoles.c:48, 273, 360, 431).    *)
(* Seconds have to pass as they do: threads that are due run before the     *)
(* next one does.                                                           *)
THEOREM NoFalseAlarms == Spec => [](Timed => NoFalseAlarm)
<1>1. Steady => (Timed => NoFalseAlarm)
  <2> SUFFICES ASSUME Steady, Timed, up[First], NEW s \in Servers
               PROVE  ~is_election_running[s] /\ monitor[s].at # "suspect"
    BY DEF NoFalseAlarm
  <2>1. Manages /\ Untroubled /\ \A t \in Servers \ {First} : up[t] => Follows(t)
    BY DEF Steady
  <2> QED BY <2>1 DEF Manages, Untroubled, Follows
<1> QED BY InitSteady, StepSteady, <1>1, TypeCorrect, PTL DEF Spec
-----------------------------------------------------------------------------
(* The election of the highest id.                                          *)

AllElections(q) == \A k \in 1 .. Len(q) : q[k] = ELECTION
Carries(q) == \E k \in 1 .. Len(q) : q[k].type = "COORDINATOR"

(* A server that keeps up with time and has the highest id of all.          *)
Highest(j) == j \in Servers \ (Slow \cup {First}) /\ \A k \in Servers : k <= j

Others(j) == {i \in Servers \ {First, j} : up[i]}

PeersAreBackups ==
  \A i, j \in Servers : Peer(j) \in replicas[i] => i # First /\ j # First /\ i # j

(* With nobody above it, each of its elections is won as soon as it starts. *)
AtOnce(j) ==
  \A e \in Runs :
     /\ election[j][e].at \in {"none", "start", "alone", "unflag", "decide last"}
     /\ election[j][e].nap = 0

(* Nobody but j has left the role that the group was formed with.           *)
RolesAsFormed(j) ==
  \A s \in Servers, r \in Roles :
     /\ conn[s][r].at \in {"none", "connected", "closed"}
     /\ role[s][r].at \in IF r # 1 THEN {"none"}
                          ELSE IF s = First THEN {"none", "managing", "done"}
                          ELSE IF s = j THEN {"loop", "leaving", "announce"}
                          ELSE {"none", "loop"}

NothingAnnounced == \A a, b \in Servers : AllElections(wire[a][b])

(* j is a backup until it wins, and within a second of that it announces.   *)
Rises(j) ==
  /\ global_server_mode[j] = "BACKUP" =>
        /\ ~new_leader_decided[j]
        /\ \A e \in Runs : election[j][e].at \in {"none", "start", "alone"}
  /\ role[j][1].nap <= 1
  /\ role[j][1].at # "loop" =>
        role[j][1].nap = 0 /\ global_server_mode[j] = "BACKUP_MANAGER"

(* A lower id whose elections have two seconds or more to wait.             *)
Trails(i) ==
  /\ global_server_mode[i] = "BACKUP"
  /\ \A entry \in replicas[i] : entry.kind = "peer"
  /\ \A e \in Runs :
        /\ election[i][e].at \in {"none", "start", "waiting"}
        /\ election[i][e].at = "waiting" => election[i][e].nap \in {2, 3}

(* What an election of i that waits has set off at j by the time a second   *)
(* has passed, and by the time two have.                                    *)
Rouses(i, j) ==
  \/ global_server_mode[j] = "BACKUP_MANAGER"
  \/ wire[i][j] # <<>>
  \/ \E e \in Runs : election[j][e].at \in {"start", "alone"}

Heard(i, j) ==
  \A e \in Runs :
     election[i][e].at = "waiting" =>
        /\ election[i][e].nap = 3 => Rouses(i, j)
        /\ election[i][e].nap = 2 => /\ global_server_mode[j] = "BACKUP_MANAGER"
                                     /\ role[j][1].at = "loop" => role[j][1].nap = 0

KnowEachOther(i, j) == Peer(i) \in replicas[j] /\ Peer(j) \in replicas[i]

Unannounced(j) ==
  /\ RolesAsFormed(j) /\ NothingAnnounced /\ Rises(j)
  /\ \A i \in Others(j) :
        KnowEachOther(i, j) /\ ~new_leader_decided[i] /\ Trails(i) /\ Heard(i, j)

(* The announcement waits at i, which will remove j before a second passes. *)
Told(i, j) ==
  /\ Carries(wire[j][i])
  /\ Trails(i)
  /\ \A r \in Roles : role[i][r].at \notin Leading

Announced(j) == \A i \in Others(j) \ Slow : Peer(j) \in replicas[i] => Told(i, j)

HighestInv ==
  /\ PeersAreBackups
  /\ Timed => \A j \in Servers : Highest(j) /\ up[j] =>
                 AtOnce(j) /\ (Unannounced(j) \/ Announced(j))

(* Messages in a queue.                                                     *)
LEMMA AllElectionsQueued ==
  ASSUME NEW q \in Seq(Messages), AllElections(q), NEW m \in Messages, m = ELECTION
  PROVE  AllElections(Queued(q, m)) /\ Queued(q, m) # <<>>
<1>1. /\ Len(Append(q, m)) = Len(q) + 1
      /\ \A k \in 1 .. Len(q) + 1 : Append(q, m)[k] = IF k <= Len(q) THEN q[k] ELSE m
      /\ Append(q, m) # <<>>
  OBVIOUS
<1>2. AllElections(Append(q, m)) /\ Append(q, m) # <<>>
  BY <1>1 DEF AllElections
<1> QED BY <1>2 DEF Queued

LEMMA AllElectionsTail ==
  ASSUME NEW q \in Seq(Messages), q # <<>>, AllElections(q)
  PROVE  AllElections(Tail(q)) /\ Head(q) = ELECTION
<1>1. /\ Len(Tail(q)) = Len(q) - 1 /\ Len(q) >= 1 /\ Head(q) = q[1]
      /\ \A k \in 1 .. Len(Tail(q)) : Tail(q)[k] = q[k + 1]
  OBVIOUS
<1>2. \A k \in 1 .. Len(q) - 1 : k + 1 \in 1 .. Len(q)
  OBVIOUS
<1> QED BY <1>1, <1>2 DEF AllElections

LEMMA AllElectionsPrefix ==
  ASSUME NEW q \in Seq(Messages), AllElections(q), NEW p \in Prefixes(q)
  PROVE  AllElections(p)
<1>1. PICK n \in 0 .. Len(q) : p = SubSeq(q, 1, n)
  BY DEF Prefixes
<1>2. Len(p) = n /\ \A k \in 1 .. n : p[k] = q[k]
  BY <1>1
<1> QED BY <1>2 DEF AllElections

LEMMA CarriesQueued ==
  ASSUME NEW q \in Seq(Messages), NEW m \in Messages,
         Carries(q) \/ m.type = "COORDINATOR"
  PROVE  Carries(Queued(q, m))
<1>1. /\ Len(Append(q, m)) = Len(q) + 1
      /\ \A k \in 1 .. Len(q) : Append(q, m)[k] = q[k] /\ k \in 1 .. Len(q) + 1
      /\ Append(q, m)[Len(q) + 1] = m /\ Len(q) + 1 \in 1 .. Len(q) + 1
  OBVIOUS
<1>2. Carries(Append(q, m))
  BY <1>1 DEF Carries
<1>3. m = ELECTION => m.type # "COORDINATOR"
  BY DEF ELECTION
<1> QED BY <1>2, <1>3 DEF Queued

LEMMA CarriesTail ==
  ASSUME NEW q \in Seq(Messages), q # <<>>, Carries(q), Head(q).type # "COORDINATOR"
  PROVE  Carries(Tail(q))
<1>1. /\ Len(Tail(q)) = Len(q) - 1 /\ Head(q) = q[1]
      /\ \A k \in 1 .. Len(Tail(q)) : Tail(q)[k] = q[k + 1]
  OBVIOUS
<1>2. PICK k \in 1 .. Len(q) : q[k].type = "COORDINATOR"
  BY DEF Carries
<1>3. k # 1
  BY <1>1, <1>2
<1>4. k - 1 \in 1 .. Len(Tail(q)) /\ Tail(q)[k - 1] = q[(k - 1) + 1] /\ (k - 1) + 1 = k
  BY <1>1, <1>3
<1> QED BY <1>2, <1>4 DEF Carries

LEMMA HighestWins ==
  ASSUME TypeOK, NEW j, Highest(j)
  PROVE  Higher(j) = {}
<1>1. \A entry \in Entries : entry.id \in Servers
  BY DEF Entries, Peer, Replica
<1>2. \A k \in Servers : ~(k > j)
  BY ServersAssumption DEF Highest
<1> QED BY <1>1, <1>2 DEF Higher, TypeOK, Highest

LEMMA LowerWaits ==
  ASSUME TypeOK, NEW j, Highest(j), NEW i \in Servers, Peer(j) \in replicas[i], i # j
  PROVE  Higher(i) # {} /\ j \in Higher(i)
<1>1. Peer(j).id = j
  BY DEF Peer
<1>2. j > i
  BY ServersAssumption DEF Highest
<1> QED BY <1>1, <1>2 DEF Higher

LEMMA ElectionBecomes ==
  ASSUME TypeOK, NEW s \in Servers, NEW e \in Runs, NEW place, NEW nap,
         ElectionGoes(s, e, place, nap)
  PROVE  \A t \in Servers, f \in Runs :
            /\ election'[t][f].at = IF t = s /\ f = e THEN place ELSE election[t][f].at
            /\ election'[t][f].nap = IF t = s /\ f = e THEN nap ELSE election[t][f].nap
BY DEF TypeOK, ElectionGoes

(* Connections to other backups were all made when the group was formed.    *)
LEMMA PeersOnlyLeave ==
  ASSUME TypeOK, [Next]_vars, NEW i \in Servers, NEW j, Peer(j) \in replicas'[i]
  PROVE  Peer(j) \in replicas[i]
<1>0. replicas \in [Servers -> SUBSET Entries]
  BY DEF TypeOK
<1>1. ASSUME UNCHANGED replicas PROVE Peer(j) \in replicas[i]
  BY <1>1
<1>2. CASE UNCHANGED vars
  BY <1>1, <1>2 DEF vars
<1>3. CASE Tick
  BY <1>1, <1>3 DEF Tick
<1>4. ASSUME NEW s \in Servers, MonitorStep(s) PROVE Peer(j) \in replicas[i]
  BY <1>1, <1>4 DEF MonitorStep, MonitorCheck, MonitorElects, MonitorRelents, MonitorJoined
<1>5. ASSUME NEW s \in Servers, NEW e \in Runs, ElectionStep(s, e) PROVE Peer(j) \in replicas[i]
  BY <1>1, <1>5 DEF ElectionStep, ElectionStart, ElectionTimeout, ElectionWon, ElectionUnflags,
                    ElectionDecides, ElectionEnd
<1>6. ASSUME NEW s \in Servers, NEW k \in Servers, ListenerStep(s, k)
      PROVE  Peer(j) \in replicas[i]
  BY <1>0, <1>6 DEF ListenerStep, HandleElection, HandleCoordinator, Drop
<1>7. ASSUME NEW s \in Servers, NEW r \in Roles, RoleStep(s, r) PROVE Peer(j) \in replicas[i]
  <2>1. CASE ManagerBeats(s, r)
    BY <1>0, <2>1 DEF ManagerBeats
  <2>2. CASE RoleDestroys(s, r)
    BY <1>0, <2>2 DEF RoleDestroys
  <2> QED BY <1>1, <1>7, <2>1, <2>2
          DEF RoleStep, RoleStart, RoleClear, RoleLoop, RoleLeaves, RoleAnnounces, RoleCounts,
              RoleAwaits, ManagerStart, ManagerLeaves
<1>8. ASSUME NEW s \in Servers, NEW r \in Roles, ConnStep(s, r) PROVE Peer(j) \in replicas[i]
  <2>1. CASE AcceptReplica(s, r)
    BY <1>0, <2>1, EntriesDiffer DEF AcceptReplica
  <2> QED BY <1>1, <1>8, <2>1 DEF ConnStep, ConnConnects, AcceptPeer, ConnReads, ConnCloses,
                                  ConnLeaves
<1>9. ASSUME NEW s \in Servers, Stops(s) PROVE Peer(j) \in replicas[i]
  BY <1>0, <1>9 DEF Stops
<1> QED BY <1>2, <1>3, <1>4, <1>5, <1>6, <1>7, <1>8, <1>9
        DEF Next, Crash, MisreadCoordinator, FreedHostname

LEMMA PeersStep ==
  ASSUME TypeOK, [Next]_vars, PeersAreBackups
  PROVE  PeersAreBackups'
BY PeersOnlyLeave DEF PeersAreBackups

(* The elections of the highest id.                                         *)
LEMMA AtOnceStep ==
  ASSUME TypeOK, [Next]_vars, NEW j, Highest(j), AtOnce(j)
  PROVE  AtOnce(j)'
<1>0. j \in Servers /\ Higher(j) = {} /\ "joined" \in Runs /\ "detached" \in Runs
  BY HighestWins DEF Highest, Runs
<1>1. ASSUME UNCHANGED election PROVE AtOnce(j)'
  BY <1>1 DEF AtOnce
<1>2. ASSUME NEW s \in Servers, NEW e \in Runs, NEW place, ElectionGoes(s, e, place, 0),
             s = j => place \in {"none", "start", "alone", "unflag", "decide last"}
      PROVE  AtOnce(j)'
  <2>1. \A t \in Servers, f \in Runs :
           /\ election'[t][f].at = IF t = s /\ f = e THEN place ELSE election[t][f].at
           /\ election'[t][f].nap = IF t = s /\ f = e THEN 0 ELSE election[t][f].nap
    BY <1>2 DEF TypeOK, ElectionGoes
  <2> QED BY <1>0, <1>2, <2>1 DEF AtOnce
<1>3. CASE UNCHANGED vars
  BY <1>1, <1>3 DEF vars, threads
<1>4. CASE Tick
  <2>1. ASSUME NEW e \in Runs
        PROVE  election'[j][e].at = election[j][e].at /\ election'[j][e].nap = 0
    <3>1. election[j][e] \in ElectionType /\ election[j][e].nap = 0
      BY <1>0 DEF TypeOK, AtOnce
    <3>2. election'[j][e] = [election[j][e] EXCEPT !.nap = Older(@)]
      BY <1>0, <1>4 DEF Tick
    <3> QED BY <3>1, <3>2 DEF ElectionType, Older
  <2> QED BY <2>1 DEF AtOnce
<1>5. ASSUME NEW s \in Servers, MonitorStep(s) PROVE AtOnce(j)'
  BY <1>0, <1>1, <1>2, <1>5 DEF MonitorStep, MonitorCheck, MonitorElects, MonitorRelents,
                                MonitorJoined, NewElection
<1>6. ASSUME NEW s \in Servers, NEW e \in Runs, ElectionStep(s, e) PROVE AtOnce(j)'
  <2>1. CASE s # j
    <3>1. election'[j] = election[j]
      BY <1>0, <1>6, <2>1 DEF TypeOK, ElectionStep, ElectionStart, ElectionTimeout, ElectionWon,
            ElectionUnflags, ElectionDecides, ElectionEnd, ElectionEnds, ElectionGoes
    <3> QED BY <3>1 DEF AtOnce
  <2>2. CASE s = j
    <3>1. election[j][e].at \notin {"waiting", "unanswered", "decide", "end"}
      BY DEF AtOnce
    <3>2. \E place \in {"none", "start", "alone", "unflag", "decide last"} :
             ElectionGoes(j, e, place, 0)
      BY <1>0, <1>6, <2>2, <3>1 DEF ElectionStep, ElectionStart, ElectionTimeout, ElectionWon,
            ElectionUnflags, ElectionDecides, ElectionEnd
    <3> QED BY <1>0, <1>2, <3>2
  <2> QED BY <2>1, <2>2
<1>7. ASSUME NEW s \in Servers, NEW k \in Servers, ListenerStep(s, k) PROVE AtOnce(j)'
  BY <1>0, <1>1, <1>2, <1>7 DEF ListenerStep, HandleElection, HandleCoordinator, NewElection
<1>8. ASSUME NEW s \in Servers, NEW r \in Roles, RoleStep(s, r) \/ ConnStep(s, r)
      PROVE  AtOnce(j)'
  BY <1>1, <1>8
     DEF RoleStep, RoleStart, RoleClear, RoleLoop, RoleLeaves, RoleAnnounces, RoleCounts,
         RoleDestroys, RoleAwaits, ManagerStart, ManagerBeats, ManagerLeaves, ConnStep,
         ConnConnects, AcceptReplica, AcceptPeer, ConnReads, ConnCloses, ConnLeaves
<1>9. ASSUME NEW s \in Servers, Stops(s) PROVE AtOnce(j)'
  <2>1. \A e \in Runs :
           /\ election'[j][e].at = IF j = s THEN "none" ELSE election[j][e].at
           /\ election'[j][e].nap = IF j = s THEN 0 ELSE election[j][e].nap
    BY <1>0, <1>9 DEF Stops, TypeOK
  <2> QED BY <2>1 DEF AtOnce
<1> QED BY <1>3, <1>4, <1>5, <1>6, <1>7, <1>8, <1>9
        DEF Next, Crash, MisreadCoordinator, FreedHostname

LEMMA Sent ==
  ASSUME TypeOK, NEW s \in Servers, NEW ids, NEW m, Send(s, ids, m),
         NEW a \in Servers, NEW b \in Servers
  PROVE  wire'[a][b] = IF a = s /\ b \in ids /\ up[b] /\ Peer(b) \in replicas[s]
                       THEN Queued(wire[a][b], m) ELSE wire[a][b]
BY DEF Send, TypeOK

LEMMA Received ==
  ASSUME TypeOK, NEW i \in Servers, NEW j \in Servers, NEW type, Receives(j, i, type),
         NEW a \in Servers, NEW b \in Servers
  PROVE  wire'[a][b] = IF a = i /\ b = j THEN Tail(wire[a][b]) ELSE wire[a][b]
BY DEF Receives, TypeOK

LEMMA CarriesSent ==
  ASSUME TypeOK, NEW s \in Servers, NEW ids, NEW m \in Messages, Send(s, ids, m),
         NEW a \in Servers, NEW b \in Servers, Carries(wire[a][b])
  PROVE  Carries(wire'[a][b])
<1>1. wire[a][b] \in Seq(Messages)
  BY DEF TypeOK
<1> QED BY <1>1, Sent, CarriesQueued

(* A server trails on when it stays a backup, its list at most shrinks and  *)
(* its elections at most begin or begin to wait.                            *)
LEMMA TrailsOn ==
  ASSUME NEW i \in Servers, Trails(i),
         global_server_mode'[i] = "BACKUP", replicas'[i] \subseteq replicas[i],
         \A e \in Runs :
            \/ election'[i][e] = election[i][e]
            \/ election'[i][e].at = "start"
            \/ election'[i][e].at = "waiting" /\ election'[i][e].nap = 3
  PROVE  Trails(i)'
BY DEF Trails

LEMMA ToldOn ==
  ASSUME NEW i \in Servers, NEW j \in Servers, Told(i, j), Carries(wire'[j][i]),
         global_server_mode'[i] = "BACKUP", replicas'[i] \subseteq replicas[i],
         \A e \in Runs :
            \/ election'[i][e] = election[i][e]
            \/ election'[i][e].at = "start"
            \/ election'[i][e].at = "waiting" /\ election'[i][e].nap = 3,
         \A r \in Roles : role'[i][r].at \in Leading => role[i][r].at \in Leading
  PROVE  Told(i, j)'
<1>1. Trails(i)'
  BY TrailsOn DEF Told
<1>2. \A r \in Roles : role'[i][r].at \notin Leading
  BY DEF Told
<1> QED BY <1>1, <1>2 DEF Told

LEMMA Begun ==
  ASSUME TypeOK, NEW s \in Servers, NEW e \in Runs, NewElection(s, e),
         NEW t \in Servers, NEW f \in Runs
  PROVE  \/ election'[t][f] = election[t][f]
         \/ t = s /\ election'[t][f].at = "start" /\ election'[t][f].nap = 0
BY DEF NewElection, ElectionGoes, TypeOK

LEMMA NewRoleNotLeading ==
  ASSUME TypeOK, NEW s \in Servers, NEW manager, NewRole(s, manager),
         NEW i \in Servers, NEW r \in Roles, role'[i][r].at \in Leading
  PROVE  role[i][r].at \in Leading
<1>1. PICK q \in Roles : role' = [role EXCEPT ![s][q] = NewRoleUnder(manager)]
  BY DEF NewRole
<1>2. NewRoleUnder(manager).at \notin Leading
  BY DEF NewRoleUnder, Leading
<1>3. role'[i][r] = IF i = s /\ r = q THEN NewRoleUnder(manager) ELSE role[i][r]
  BY <1>1 DEF TypeOK
<1> QED BY <1>2, <1>3

LEMMA ListShrinks ==
  ASSUME TypeOK, NEW b \in Servers, NEW a \in Servers, HandleCoordinator(b, a),
         NEW i \in Servers
  PROVE  replicas'[i] \subseteq replicas[i]
<1>1. \/ replicas' = replicas
      \/ \E entry : replicas' = [replicas EXCEPT ![b] = @ \ {entry}]
  BY DEF HandleCoordinator, Drop
<1> QED BY <1>1 DEF TypeOK

LEMMA ToldListener ==
  ASSUME TypeOK, NEW i \in Servers, NEW j \in Servers, Told(i, j), Peer(j) \in replicas'[i],
         NEW b \in Servers, NEW a \in Servers, ListenerStep(b, a)
  PROVE  Told(i, j)'
<1>0. /\ Carries(wire[j][i]) /\ wire[j][i] \in Seq(Messages)
      /\ global_server_mode[i] = "BACKUP"
  BY DEF Told, Trails, TypeOK
<1>1. CASE HandleElection(b, a)
  <2>1. Carries(wire'[j][i])
    <3>1. wire'[j][i] = IF j = a /\ i = b THEN Tail(wire[j][i]) ELSE wire[j][i]
      BY <1>1, Received DEF HandleElection
    <3>2. j = a /\ i = b => wire[j][i] # <<>> /\ Head(wire[j][i]).type # "COORDINATOR"
      BY <1>1 DEF HandleElection, Receives
    <3> QED BY <1>0, <3>1, <3>2, CarriesTail
  <2>2. UNCHANGED <<global_server_mode, replicas, role>>
    BY <1>1 DEF HandleElection
  <2>3. \A e \in Runs : election'[i][e] = election[i][e] \/ election'[i][e].at = "start"
    <3>1. UNCHANGED election \/ NewElection(b, "detached")
      BY <1>1 DEF HandleElection
    <3>2. "detached" \in Runs
      BY DEF Runs
    <3> QED BY <3>1, <3>2, Begun
  <2> QED BY <1>0, <2>1, <2>2, <2>3, ToldOn
<1>2. CASE HandleCoordinator(b, a)
  <2>1. ~(j = a /\ i = b)
    <3> SUFFICES ASSUME j = a, i = b PROVE FALSE
      OBVIOUS
    <3>1. Peer(j) \in replicas[i] /\ Peer(j).id = j
      <4>1. replicas'[i] \subseteq replicas[i]
        BY <1>2, ListShrinks
      <4> QED BY <4>1 DEF Peer
    <3>2. PICK entry \in replicas[i] : entry.id = j /\ Drop(i, entry)
      BY <1>2, <3>1 DEF HandleCoordinator
    <3>3. entry.kind = "peer" /\ entry \in Entries
      BY DEF Told, Trails, TypeOK
    <3>4. entry = Peer(j)
      BY <3>2, <3>3 DEF Entries, Peer, Replica
    <3>5. Peer(j) \notin replicas'[i]
      BY <3>2, <3>4 DEF Drop, TypeOK
    <3> QED BY <3>5
  <2>2. Carries(wire'[j][i])
    BY <1>0, <1>2, <2>1, Received DEF HandleCoordinator
  <2>3. replicas'[i] \subseteq replicas[i]
    BY <1>2, ListShrinks
  <2>4. \A r \in Roles : role'[i][r].at \in Leading => role[i][r].at \in Leading
    <3>1. \E manager : NewRole(b, manager)
      BY <1>2 DEF HandleCoordinator
    <3> QED BY <3>1, NewRoleNotLeading
  <2>5. UNCHANGED <<global_server_mode, election>>
    BY <1>2 DEF HandleCoordinator
  <2> QED BY <1>0, <2>2, <2>3, <2>4, <2>5, ToldOn
<1> QED BY <1>1, <1>2 DEF ListenerStep

LEMMA ToldElection ==
  ASSUME TypeOK, Timed, NEW i \in Servers, NEW j \in Servers, Told(i, j), Higher(i) # {},
         NEW s \in Servers, NEW e \in Runs, ElectionStep(s, e)
  PROVE  Told(i, j)'
<1>0. Carries(wire[j][i]) /\ global_server_mode[i] = "BACKUP"
  BY DEF Told, Trails
<1>1. UNCHANGED <<replicas, role>>
  BY DEF ElectionStep, ElectionStart, ElectionTimeout, ElectionWon, ElectionUnflags,
         ElectionDecides, ElectionEnd
<1>2. CASE ElectionStart(s, e)
  <2>1. Carries(wire'[j][i])
    BY <1>0, <1>2, CarriesSent, MessageTypes DEF ElectionStart
  <2>2. s # i => \A f \in Runs : election'[i][f] = election[i][f]
    BY <1>2 DEF ElectionStart, ElectionGoes, TypeOK
  <2>3. s = i => \A f \in Runs : \/ election'[i][f] = election[i][f]
                                 \/ election'[i][f].at = "waiting" /\ election'[i][f].nap = 3
    <3>1. s = i => ElectionGoes(s, e, "waiting", 3)
      BY <1>2 DEF ElectionStart, AnswerWait, Sleep
    <3> QED BY <3>1 DEF ElectionGoes, TypeOK
  <2>4. UNCHANGED global_server_mode
    BY <1>2 DEF ElectionStart, flags
  <2> QED BY <1>0, <1>1, <2>1, <2>2, <2>3, <2>4, ToldOn
<1>3. CASE ~ElectionStart(s, e)
  <2>1. s # i
    <3>1. election[i][e].at \in {"none", "start", "waiting"}
          /\ (election[i][e].at = "waiting" => election[i][e].nap # 0)
      BY DEF Told, Trails
    <3> QED BY <1>3, <3>1 DEF ElectionStep, ElectionTimeout, ElectionWon, ElectionUnflags,
                              ElectionDecides, ElectionEnd
  <2>2. wire' = wire
    BY <1>3 DEF ElectionStep, ElectionTimeout, ElectionWon, ElectionUnflags, ElectionDecides,
                ElectionEnd
  <2>3. global_server_mode'[i] = global_server_mode[i]
    BY <1>3, <2>1 DEF ElectionStep, ElectionTimeout, ElectionWon, ElectionUnflags,
                      ElectionDecides, ElectionEnd, TypeOK
  <2>4. election'[i] = election[i]
    BY <1>3, <2>1 DEF ElectionStep, ElectionTimeout, ElectionWon, ElectionUnflags,
                      ElectionDecides, ElectionEnd, ElectionEnds, ElectionGoes, TypeOK
  <2> QED BY <1>0, <1>1, <2>2, <2>3, <2>4, ToldOn
<1> QED BY <1>2, <1>3

LEMMA ToldMonitor ==
  ASSUME TypeOK, NEW i \in Servers, NEW j \in Servers, Told(i, j),
         NEW s \in Servers, MonitorStep(s)
  PROVE  Told(i, j)'
<1>1. UNCHANGED <<global_server_mode, replicas, wire, role>>
  BY DEF MonitorStep, MonitorCheck, MonitorElects, MonitorRelents, MonitorJoined, flags
<1>2. UNCHANGED election \/ NewElection(s, "joined")
  BY DEF MonitorStep, MonitorCheck, MonitorElects, MonitorRelents, MonitorJoined
<1>3. \A e \in Runs : election'[i][e] = election[i][e] \/ election'[i][e].at = "start"
  <2>1. "joined" \in Runs
    BY DEF Runs
  <2> QED BY <1>2, <2>1, Begun
<1>4. Carries(wire[j][i]) /\ global_server_mode[i] = "BACKUP"
  BY DEF Told, Trails
<1> QED BY <1>1, <1>3, <1>4, ToldOn

(* A server that is in no leading place, and whose mode is that of a backup, *)
(* does not get to one.                                                     *)
LEMMA StaysBehind ==
  ASSUME TypeOK, NEW i \in Servers, global_server_mode[i] = "BACKUP",
         \A q \in Roles : role[i][q].at \notin Leading,
         NEW s \in Servers, NEW r \in Roles, RoleStep(s, r)
  PROVE  /\ global_server_mode'[i] = "BACKUP"
         /\ \A q \in Roles : role'[i][q].at \notin Leading
<1>1. CASE s # i
  <2>1. role'[i] = role[i]
    BY <1>1 DEF RoleStep, RoleStart, RoleClear, RoleLoop, RoleLeaves, RoleAnnounces, RoleCounts,
        RoleDestroys, RoleAwaits, ManagerStart, ManagerBeats, ManagerLeaves, RoleGoes, TypeOK
  <2>2. global_server_mode'[i] = global_server_mode[i]
    BY <1>1 DEF RoleStep, RoleStart, RoleClear, RoleLoop, RoleLeaves, RoleAnnounces, RoleCounts,
        RoleDestroys, RoleAwaits, ManagerStart, ManagerBeats, ManagerLeaves, TypeOK, flags
  <2> QED BY <2>1, <2>2
<1>2. CASE s = i
  <2>1. role[i][r].at \notin Leading
    OBVIOUS
  <2>2. RoleStart(i, r) \/ RoleClear(i, r) \/ RoleLoop(i, r) \/ RoleLeaves(i, r)
    BY <1>2, <2>1 DEF RoleStep, RoleAnnounces, RoleCounts, RoleDestroys, RoleAwaits,
        ManagerStart, ManagerBeats, ManagerLeaves, RoleAt, Leading
  <2>3. PICK place \in {"clear", "loop", "leaving", "done"}, nap \in {0, Sleep(1)} :
           RoleGoes(i, r, place, nap)
    BY <2>2 DEF RoleStart, RoleClear, RoleLoop, RoleLeaves
  <2>4. place \notin Leading
    BY DEF Leading
  <2>5. \A q \in Roles : role'[i][q].at = IF q = r THEN place ELSE role[i][q].at
    BY <2>3, RoleGoesTo
  <2>6. global_server_mode'[i] = "BACKUP"
    BY <2>2 DEF RoleStart, RoleClear, RoleLoop, RoleLeaves, flags, TypeOK
  <2> QED BY <2>4, <2>5, <2>6
<1> QED BY <1>1, <1>2

LEMMA RoleKeepsLists ==
  ASSUME TypeOK, NEW s \in Servers, NEW r \in Roles, RoleStep(s, r), NEW i \in Servers
  PROVE  replicas'[i] \subseteq replicas[i]
<1>1. CASE ManagerBeats(s, r)
  BY <1>1 DEF ManagerBeats, TypeOK
<1>2. CASE RoleDestroys(s, r)
  BY <1>2 DEF RoleDestroys, TypeOK
<1>3. CASE ~ManagerBeats(s, r) /\ ~RoleDestroys(s, r)
  BY <1>3 DEF RoleStep, RoleStart, RoleClear, RoleLoop, RoleLeaves, RoleAnnounces, RoleCounts,
              RoleAwaits, ManagerStart, ManagerLeaves
<1> QED BY <1>1, <1>2, <1>3

LEMMA ToldRole ==
  ASSUME TypeOK, NEW i \in Servers, NEW j \in Servers, Told(i, j),
         NEW s \in Servers, NEW r \in Roles, RoleStep(s, r)
  PROVE  Told(i, j)'
<1>1. /\ Carries(wire[j][i]) /\ global_server_mode[i] = "BACKUP"
      /\ \A q \in Roles : role[i][q].at \notin Leading
  BY DEF Told, Trails
<1>2. /\ global_server_mode'[i] = "BACKUP"
      /\ \A q \in Roles : role'[i][q].at \notin Leading
  BY <1>1, StaysBehind
<1>3. Carries(wire'[j][i])
  <2>1. CASE RoleAnnounces(s, r)
    <3>1. COORDINATOR(role[s][r].listening) \in Messages
      BY MessageTypes DEF TypeOK, RoleType
    <3>2. PICK ids : Send(s, ids, COORDINATOR(role[s][r].listening))
      BY <2>1 DEF RoleAnnounces
    <3> QED BY <1>1, <3>1, <3>2, CarriesSent
  <2>2. CASE ~RoleAnnounces(s, r)
    BY <1>1, <2>2 DEF RoleStep, RoleStart, RoleClear, RoleLoop, RoleLeaves, RoleCounts,
              RoleDestroys, RoleAwaits, ManagerStart, ManagerBeats, ManagerLeaves
  <2> QED BY <2>1, <2>2
<1>4. UNCHANGED election
  BY DEF RoleStep, RoleStart, RoleClear, RoleLoop, RoleLeaves, RoleAnnounces, RoleCounts,
         RoleDestroys, RoleAwaits, ManagerStart, ManagerBeats, ManagerLeaves
<1> QED BY <1>2, <1>3, <1>4, RoleKeepsLists, ToldOn

LEMMA ToldConn ==
  ASSUME TypeOK, NEW i \in Servers, NEW j \in Servers, Told(i, j),
         NEW s \in Servers, NEW r \in Roles, ConnStep(s, r)
  PROVE  Told(i, j)'
<1>1. Carries(wire[j][i]) /\ global_server_mode[i] = "BACKUP"
  BY DEF Told, Trails
<1>2. UNCHANGED <<global_server_mode, wire, election>>
  BY DEF ConnStep, ConnConnects, AcceptReplica, AcceptPeer, ConnReads, ConnCloses, ConnLeaves,
         flags
<1>3. replicas'[i] \subseteq replicas[i]
  <2>1. CASE AcceptReplica(s, r)
    <3>1. role[s][r].manager # i /\ role[s][r].manager \in Servers
      BY <1>1, <2>1 DEF AcceptReplica, Reachable
    <3> QED BY <2>1, <3>1 DEF AcceptReplica, TypeOK
  <2>2. CASE ~AcceptReplica(s, r)
    BY <2>2 DEF ConnStep, ConnConnects, AcceptPeer, ConnReads, ConnCloses, ConnLeaves
  <2> QED BY <2>1, <2>2
<1>4. \A q \in Roles : role'[i][q].at \in Leading => role[i][q].at \in Leading
  <2>1. CASE AcceptPeer(s, r)
    <3>1. role[s][r].manager \in Servers
      BY <2>1 DEF AcceptPeer, Reachable
    <3>2. UNCHANGED role \/ NewRole(role[s][r].manager, Nobody)
      BY <2>1 DEF AcceptPeer
    <3> QED BY <3>1, <3>2, NewRoleNotLeading
  <2>2. CASE ~AcceptPeer(s, r)
    BY <2>2 DEF ConnStep, ConnConnects, AcceptReplica, ConnReads, ConnCloses, ConnLeaves
  <2> QED BY <2>1, <2>2
<1> QED BY <1>1, <1>2, <1>3, <1>4, ToldOn

LEMMA StopsOthers ==
  ASSUME TypeOK, NEW s \in Servers, Stops(s), NEW i \in Servers, i # s
  PROVE  /\ global_server_mode'[i] = global_server_mode[i]
         /\ new_leader_decided'[i] = new_leader_decided[i]
         /\ replicas'[i] = replicas[i]
         /\ election'[i] = election[i] /\ role'[i] = role[i] /\ conn'[i] = conn[i]
         /\ up'[i] = up[i]
         /\ \A j \in Servers \ {s} : wire'[i][j] = wire[i][j]
BY DEF Stops, TypeOK

LEMMA ToldStep ==
  ASSUME TypeOK, [Next]_vars, Timed, NEW j, Highest(j), NEW i \in Servers \ (Slow \cup {j}),
         up'[i], up'[j], Peer(j) \in replicas'[i], Told(i, j)
  PROVE  Told(i, j)'
<1>0. j \in Servers /\ up[i] /\ up[j] /\ Peer(j) \in replicas[i]
  BY NeverUpAgain, PeersOnlyLeave DEF Highest
<1>1. Higher(i) # {}
  BY <1>0, LowerWaits
<1>2. CASE UNCHANGED vars
  <2>1. /\ global_server_mode' = global_server_mode /\ replicas' = replicas /\ wire' = wire
        /\ election' = election /\ role' = role
    BY <1>2 DEF vars, threads, flags
  <2> QED BY <2>1 DEF Told, Trails
<1>3. ~Tick
  <2>1. wire[j][i] # <<>>
    BY DEF Told, Carries
  <2>2. Busy(i)
    BY <1>0, <2>1 DEF Busy
  <2> QED BY <2>2 DEF Tick
<1>4. ASSUME NEW s \in Servers, Stops(s) PROVE Told(i, j)'
  <2>1. s # i /\ s # j
    BY <1>0, <1>4 DEF Stops, TypeOK
  <2>2. /\ global_server_mode'[i] = global_server_mode[i] /\ replicas'[i] = replicas[i]
        /\ election'[i] = election[i] /\ role'[i] = role[i] /\ wire'[j][i] = wire[j][i]
    BY <1>0, <1>4, <2>1, StopsOthers
  <2>3. Carries(wire[j][i]) /\ global_server_mode[i] = "BACKUP"
    BY DEF Told, Trails
  <2> QED BY <1>0, <2>2, <2>3, ToldOn
<1> QED BY <1>0, <1>1, <1>2, <1>3, <1>4, ToldMonitor, ToldElection, ToldListener, ToldRole,
           ToldConn
        DEF Next, Crash, MisreadCoordinator, FreedHostname

LEMMA AnnouncedStep ==
  ASSUME TypeOK, [Next]_vars, Timed, NEW j, Highest(j), up'[j], Announced(j)
  PROVE  Announced(j)'
<1> SUFFICES ASSUME NEW i \in Servers \ ({First, j} \cup Slow), up'[i], Peer(j) \in replicas'[i]
             PROVE  Told(i, j)'
  BY DEF Announced, Others
<1>1. up[i] /\ Peer(j) \in replicas[i]
  BY NeverUpAgain, PeersOnlyLeave
<1>2. Told(i, j)
  BY <1>1 DEF Announced, Others
<1> QED BY <1>2, ToldStep

(* What i has heard of j stays: i's elections do not begin to wait, and a   *)
(* j that has won does not sleep.                                           *)
LEMMA HeardOn ==
  ASSUME NEW i \in Servers, NEW j \in Servers, Heard(i, j),
         Rouses(i, j) => Rouses(i, j)',
         \A e \in Runs : election'[i][e] = election[i][e] \/ election'[i][e].at # "waiting",
         global_server_mode[j] = "BACKUP_MANAGER" =>
            /\ global_server_mode'[j] = "BACKUP_MANAGER"
            /\ role'[j][1].at = "loop" =>
                  role[j][1].at = "loop" /\ role'[j][1].nap = role[j][1].nap
  PROVE  Heard(i, j)'
BY DEF Heard

LEMMA UnannouncedMonitor ==
  ASSUME TypeOK, NEW j, Highest(j), Unannounced(j), NEW s \in Servers, MonitorStep(s)
  PROVE  Unannounced(j)'
<1>0. j \in Servers
  BY DEF Highest
<1>1. UNCHANGED <<up, global_server_mode, new_leader_decided, replicas, wire, role, conn>>
  BY DEF MonitorStep, MonitorCheck, MonitorElects, MonitorRelents, MonitorJoined, flags
<1>2. UNCHANGED election \/ NewElection(s, "joined")
  BY DEF MonitorStep, MonitorCheck, MonitorElects, MonitorRelents, MonitorJoined
<1>3. \A t \in Servers, e \in Runs :
         election'[t][e] = election[t][e] \/ election'[t][e].at = "start"
  <2>1. "joined" \in Runs
    BY DEF Runs
  <2> QED BY <1>2, <2>1, Begun
<1>4. RolesAsFormed(j)' /\ NothingAnnounced'
  BY <1>1 DEF Unannounced, RolesAsFormed, NothingAnnounced
<1>5. Rises(j)'
  BY <1>0, <1>1, <1>3 DEF Unannounced, Rises
<1>6. ASSUME NEW i \in Servers \ {First, j}, up'[i]
      PROVE  KnowEachOther(i, j)' /\ ~new_leader_decided'[i] /\ Trails(i)' /\ Heard(i, j)'
  <2>1. KnowEachOther(i, j) /\ ~new_leader_decided[i] /\ Trails(i) /\ Heard(i, j)
    BY <1>1, <1>6 DEF Unannounced, Others
  <2>2. Trails(i)'
    BY <1>1, <1>3, <2>1, TrailsOn DEF Trails
  <2>3. Rouses(i, j) => Rouses(i, j)'
    BY <1>0, <1>1, <1>3 DEF Rouses
  <2>4. Heard(i, j)'
    BY <1>0, <1>1, <1>3, <2>1, <2>3, HeardOn
  <2> QED BY <1>1, <2>1, <2>2, <2>4 DEF KnowEachOther
<1> QED BY <1>4, <1>5, <1>6 DEF Unannounced, Others

LEMMA UnannouncedListener ==
  ASSUME TypeOK, FlagIsOwed, NEW j, Highest(j), AtOnce(j), Unannounced(j),
         NEW b \in Servers, NEW a \in Servers, ListenerStep(b, a)
  PROVE  Unannounced(j)'
<1>0. j \in Servers /\ "detached" \in Runs
  BY DEF Highest, Runs
<1>1. \A c, d \in Servers : AllElections(wire[c][d]) /\ wire[c][d] \in Seq(Messages)
  BY DEF Unannounced, NothingAnnounced, TypeOK
<1>2. HandleElection(b, a)
  <2>1. ~HandleCoordinator(b, a)
    BY <1>1, AllElectionsTail DEF HandleCoordinator, Receives, ELECTION
  <2> QED BY <2>1 DEF ListenerStep
<1>3. /\ UNCHANGED <<up, global_server_mode, new_leader_decided, replicas, role, conn>>
      /\ IF is_election_running[b] THEN UNCHANGED election ELSE NewElection(b, "detached")
      /\ \A c, d \in Servers : wire'[c][d] = IF c = a /\ d = b THEN Tail(wire[c][d]) ELSE wire[c][d]
  BY <1>2, Received DEF HandleElection
<1>4. wire[a][b] # <<>>
  BY <1>2 DEF HandleElection, Receives
<1>5. \A t \in Servers, e \in Runs :
         election'[t][e] = election[t][e] \/ election'[t][e].at = "start"
  BY <1>0, <1>3, Begun
<1>6. NothingAnnounced'
  BY <1>1, <1>3, <1>4, AllElectionsTail DEF NothingAnnounced
<1>7. RolesAsFormed(j)'
  BY <1>3 DEF Unannounced, RolesAsFormed
<1>8. Rises(j)'
  BY <1>0, <1>3, <1>5 DEF Unannounced, Rises
<1>9. b = j => \/ global_server_mode[j] = "BACKUP_MANAGER"
               \/ \E e \in Runs : election'[j][e].at \in {"start", "alone"}
  <2>1. CASE b = j /\ is_election_running[j] /\ global_server_mode[j] = "BACKUP"
    <3>1. PICK e \in Runs : election[j][e].at \notin {"none", "decide last"}
      BY <1>0, <2>1 DEF FlagIsOwed
    <3>2. election[j][e].at \in {"start", "alone"}
      BY <2>1, <3>1 DEF Unannounced, Rises
    <3> QED BY <1>3, <2>1, <3>2
  <2>2. CASE b = j /\ ~is_election_running[j]
    <3>1. NewElection(j, "detached")
      BY <1>3, <2>2
    <3>2. election'[j]["detached"].at = "start"
      BY <1>0, <3>1 DEF NewElection, ElectionGoes, TypeOK
    <3> QED BY <1>0, <3>2
  <2>3. global_server_mode[j] \in {"BACKUP", "BACKUP_MANAGER"}
    BY <1>0 DEF TypeOK, Modes
  <2> QED BY <2>1, <2>2, <2>3
<1>10. ASSUME NEW i \in Servers \ {First, j}, up'[i]
       PROVE  KnowEachOther(i, j)' /\ ~new_leader_decided'[i] /\ Trails(i)' /\ Heard(i, j)'
  <2>1. KnowEachOther(i, j) /\ ~new_leader_decided[i] /\ Trails(i) /\ Heard(i, j)
    BY <1>3, <1>10 DEF Unannounced, Others
  <2>2. Trails(i)'
    BY <1>3, <1>5, <2>1, TrailsOn DEF Trails
  <2>3. Rouses(i, j) => Rouses(i, j)'
    BY <1>0, <1>3, <1>5, <1>9 DEF Rouses
  <2>4. Heard(i, j)'
    BY <1>0, <1>3, <1>5, <2>1, <2>3, HeardOn
  <2> QED BY <1>3, <2>1, <2>2, <2>4 DEF KnowEachOther
<1> QED BY <1>6, <1>7, <1>8, <1>10 DEF Unannounced, Others

LEMMA UnannouncedStart ==
  ASSUME TypeOK, Timed, NEW j, Highest(j), up[j], Unannounced(j),
         NEW s \in Servers, NEW e \in Runs, ElectionStart(s, e)
  PROVE  Unannounced(j)'
<1>0. j \in Servers
  BY DEF Highest
<1>1. /\ UNCHANGED <<up, global_server_mode, new_leader_decided, replicas, role>>
      /\ \A c, d \in Servers :
            wire'[c][d] = IF c = s /\ d \in Higher(s) /\ up[d] /\ Peer(d) \in replicas[s]
                          THEN Queued(wire[c][d], ELECTION) ELSE wire[c][d]
      /\ \A t \in Servers, q \in Roles : conn'[t][q].at = conn[t][q].at
  BY Sent, SendMovesNoConn DEF ElectionStart, flags
<1>2. \A c, d \in Servers : AllElections(wire[c][d]) /\ wire[c][d] \in Seq(Messages)
  BY DEF Unannounced, NothingAnnounced, TypeOK
<1>3. \A c, d \in Servers : /\ AllElections(wire'[c][d])
                            /\ wire[c][d] # <<>> => wire'[c][d] # <<>>
  BY <1>1, <1>2, AllElectionsQueued, MessageTypes
<1>4. RolesAsFormed(j)'
  BY <1>1 DEF Unannounced, RolesAsFormed
<1>5. NothingAnnounced'
  BY <1>3 DEF NothingAnnounced
<1>6. CASE s = j
  <2>1. ElectionGoes(j, e, "alone", 0) /\ election[j][e].at = "start"
    BY <1>6, HighestWins DEF ElectionStart
  <2>2. \A t \in Servers, f \in Runs :
           \/ election'[t][f] = election[t][f]
           \/ t = j /\ election'[t][f].at = "alone"
    BY <1>0, <2>1 DEF ElectionGoes, TypeOK
  <2>3. Rises(j)'
    BY <1>0, <1>1, <2>2 DEF Unannounced, Rises
  <2>4. ASSUME NEW i \in Servers \ {First, j}, up'[i]
        PROVE  KnowEachOther(i, j)' /\ ~new_leader_decided'[i] /\ Trails(i)' /\ Heard(i, j)'
    <3>1. KnowEachOther(i, j) /\ ~new_leader_decided[i] /\ Trails(i) /\ Heard(i, j)
      BY <1>1, <2>4 DEF Unannounced, Others
    <3>2. Trails(i)'
      BY <1>1, <2>2, <3>1, TrailsOn DEF Trails
    <3>3. Rouses(i, j) => Rouses(i, j)'
      BY <1>0, <1>1, <1>3, <2>2 DEF Rouses
    <3>4. Heard(i, j)'
      BY <1>0, <1>1, <2>2, <3>1, <3>3, HeardOn
    <3> QED BY <1>1, <3>1, <3>2, <3>4 DEF KnowEachOther
  <2> QED BY <1>4, <1>5, <2>3, <2>4 DEF Unannounced, Others
<1>7. CASE s # j
  <2>1. election'[j] = election[j]
    BY <1>0, <1>7 DEF ElectionStart, ElectionGoes, TypeOK
  <2>2. Rises(j)'
    BY <1>0, <1>1, <2>1 DEF Unannounced, Rises
  <2>3. ASSUME NEW i \in Servers \ {First, j}, up'[i]
        PROVE  KnowEachOther(i, j)' /\ ~new_leader_decided'[i] /\ Trails(i)' /\ Heard(i, j)'
    <3>1. KnowEachOther(i, j) /\ ~new_leader_decided[i] /\ Trails(i) /\ Heard(i, j)
      BY <1>1, <2>3 DEF Unannounced, Others
    <3>2. Rouses(i, j) => Rouses(i, j)'
      BY <1>0, <1>1, <1>3, <2>1 DEF Rouses
    <3>3. CASE i # s
      <4>1. election'[i] = election[i]
        BY <1>7, <3>3 DEF ElectionStart, ElectionGoes, TypeOK
      <4>2. Trails(i)'
        BY <1>1, <3>1, <4>1, TrailsOn DEF Trails
      <4>3. Heard(i, j)'
        BY <1>0, <1>1, <3>1, <3>2, <4>1, HeardOn
      <4> QED BY <1>1, <3>1, <4>2, <4>3 DEF KnowEachOther
    <3>4. CASE i = s
      <4>1. Higher(i) # {} /\ j \in Higher(i) /\ Peer(j) \in replicas[i]
        BY <1>0, <3>1, LowerWaits DEF KnowEachOther
      <4>2. ElectionGoes(i, e, "waiting", 3)
        BY <3>4, <4>1 DEF ElectionStart, AnswerWait, Sleep
      <4>3. \A f \in Runs : \/ election'[i][f] = election[i][f]
                            \/ election'[i][f].at = "waiting" /\ election'[i][f].nap = 3
        BY <4>2 DEF ElectionGoes, TypeOK
      <4>4. wire'[i][j] # <<>>
        BY <1>0, <1>1, <1>2, <3>4, <4>1, AllElectionsQueued, MessageTypes
      <4>5. Rouses(i, j)'
        BY <4>4 DEF Rouses
      <4>6. Trails(i)'
        BY <1>1, <3>1, <4>3, TrailsOn DEF Trails
      <4>7. Heard(i, j)'
        BY <1>1, <3>1, <4>3, <4>5 DEF Heard
      <4> QED BY <1>1, <3>1, <4>6, <4>7 DEF KnowEachOther
    <3> QED BY <3>3, <3>4
  <2> QED BY <1>4, <1>5, <2>2, <2>3 DEF Unannounced, Others
<1> QED BY <1>6, <1>7

(* The other steps of an election are j's or those of the first manager.    *)
LEMMA UnannouncedElection ==
  ASSUME TypeOK, NEW j, Highest(j), AtOnce(j), Unannounced(j),
         NEW s \in Servers, NEW e \in Runs, ElectionStep(s, e), ~ElectionStart(s, e)
  PROVE  Unannounced(j)'
<1>0. j \in Servers /\ j # First
  BY DEF Highest
<1>1. /\ UNCHANGED <<up, replicas, wire, role, conn>>
      /\ up[s] /\ election[s][e].at \notin {"none", "start"}
      /\ election[s][e].at = "waiting" => election[s][e].nap = 0
  BY DEF ElectionStep, ElectionTimeout, ElectionWon, ElectionUnflags, ElectionDecides,
         ElectionEnd
<1>2. RolesAsFormed(j)' /\ NothingAnnounced'
  BY <1>1 DEF Unannounced, RolesAsFormed, NothingAnnounced
<1>3. s \in {First, j}
  <2>1. ASSUME s \notin {First, j} PROVE FALSE
    <3>1. Trails(s)
      BY <1>1, <2>1 DEF Unannounced, Others
    <3> QED BY <1>1, <3>1 DEF Trails
  <2> QED BY <2>1
<1>4. \A t \in Servers \ {s} :
         /\ global_server_mode'[t] = global_server_mode[t]
         /\ new_leader_decided'[t] = new_leader_decided[t]
         /\ election'[t] = election[t]
  BY DEF ElectionStep, ElectionTimeout, ElectionWon, ElectionUnflags, ElectionDecides,
         ElectionEnd, ElectionEnds, ElectionGoes, TypeOK
<1>5. s = j => /\ global_server_mode'[j] = "BACKUP_MANAGER"
               /\ global_server_mode[j] = "BACKUP" => election[j][e].at = "alone"
  <2>1. CASE s = j
    <3>1. election[j][e].at \in {"alone", "unflag", "decide last"}
      BY <1>1, <2>1 DEF AtOnce
    <3>2. election[j][e].at = "alone" \/ global_server_mode[j] # "BACKUP"
      BY <3>1 DEF Unannounced, Rises
    <3>3. global_server_mode[j] \in {"BACKUP", "BACKUP_MANAGER"}
      BY <1>0 DEF TypeOK, Modes
    <3>4. CASE election[j][e].at = "alone"
      BY <1>0, <2>1, <3>4 DEF ElectionStep, ElectionTimeout, ElectionWon, ElectionUnflags,
                              ElectionDecides, ElectionEnd, TypeOK
    <3>5. CASE global_server_mode[j] = "BACKUP_MANAGER"
      BY <1>0, <2>1, <3>5 DEF ElectionStep, ElectionTimeout, ElectionWon, ElectionUnflags,
                              ElectionDecides, ElectionEnd, TypeOK
    <3> QED BY <3>2, <3>3, <3>4, <3>5
  <2> QED BY <2>1
<1>6. Rises(j)'
  <2>1. CASE s = j
    BY <1>1, <1>5, <2>1 DEF Unannounced, Rises
  <2>2. CASE s # j
    BY <1>0, <1>1, <1>4, <2>2 DEF Unannounced, Rises
  <2> QED BY <2>1, <2>2
<1>7. ASSUME NEW i \in Servers \ {First, j}, up'[i]
      PROVE  KnowEachOther(i, j)' /\ ~new_leader_decided'[i] /\ Trails(i)' /\ Heard(i, j)'
  <2>1. KnowEachOther(i, j) /\ ~new_leader_decided[i] /\ Trails(i) /\ Heard(i, j)
    BY <1>1, <1>7 DEF Unannounced, Others
  <2>2. /\ global_server_mode'[i] = global_server_mode[i]
        /\ new_leader_decided'[i] = new_leader_decided[i]
        /\ election'[i] = election[i]
    BY <1>3, <1>4, <1>7
  <2>3. Trails(i)'
    BY <1>1, <2>1, <2>2, TrailsOn DEF Trails
  <2>4. Rouses(i, j) => Rouses(i, j)'
    BY <1>0, <1>1, <1>4, <1>5 DEF Rouses
  <2>5. Heard(i, j)'
    BY <1>0, <1>1, <1>4, <1>5, <2>1, <2>2, <2>4, HeardOn
  <2> QED BY <1>1, <2>1, <2>2, <2>3, <2>5 DEF KnowEachOther
<1> QED BY <1>2, <1>6, <1>7 DEF Unannounced, Others

LEMMA UnannouncedConn ==
  ASSUME TypeOK, NEW j, Highest(j), Unannounced(j),
         NEW s \in Servers, NEW r \in Roles, ConnStep(s, r)
  PROVE  Unannounced(j)'
<1>0. j \in Servers
  BY DEF Highest
<1>1. conn[s][r].at \in {"none", "connected", "closed"}
  BY DEF Unannounced, RolesAsFormed
<1>2. ConnReads(s, r) \/ ConnCloses(s, r) \/ ConnLeaves(s, r)
  BY <1>1 DEF ConnStep, ConnConnects, AcceptReplica, AcceptPeer, ConnAt
<1>3. UNCHANGED <<up, global_server_mode, new_leader_decided, replicas, wire, election, role>>
  BY <1>2 DEF ConnReads, ConnCloses, ConnLeaves, flags
<1>4. \A t \in Servers, q \in Roles : conn'[t][q].at \in {conn[t][q].at, "closed"}
  <2>1. CASE ConnReads(s, r)
    <3>1. conn[s][r] \in ConnType /\ conn \in [Servers -> [Roles -> ConnType]]
      BY DEF TypeOK
    <3>2. PICK m : conn' = [conn EXCEPT ![s][r].inbox = @ \ {m}, ![s][r].nap = Sleep(1)]
      BY <2>1 DEF ConnReads
    <3> QED BY <3>1, <3>2 DEF ConnType
  <2>2. CASE ConnCloses(s, r) \/ ConnLeaves(s, r)
    <3>1. ConnGoes(s, r, "closed", 0)
      BY <2>2 DEF ConnCloses, ConnLeaves
    <3> QED BY <3>1, ConnGoesTo
  <2> QED BY <1>2, <2>1, <2>2
<1>5. RolesAsFormed(j)' /\ NothingAnnounced'
  BY <1>3, <1>4 DEF Unannounced, RolesAsFormed, NothingAnnounced
<1>6. Rises(j)'
  BY <1>0, <1>3 DEF Unannounced, Rises
<1>7. ASSUME NEW i \in Servers \ {First, j}, up'[i]
      PROVE  KnowEachOther(i, j)' /\ ~new_leader_decided'[i] /\ Trails(i)' /\ Heard(i, j)'
  <2>1. KnowEachOther(i, j) /\ ~new_leader_decided[i] /\ Trails(i) /\ Heard(i, j)
    BY <1>3, <1>7 DEF Unannounced, Others
  <2> QED BY <1>0, <1>3, <2>1 DEF KnowEachOther, Trails, Heard, Rouses
<1> QED BY <1>5, <1>6, <1>7 DEF Unannounced, Others

LEMMA UnannouncedStops ==
  ASSUME TypeOK, NEW j, Highest(j), up'[j], Unannounced(j), NEW s \in Servers, Stops(s)
  PROVE  Unannounced(j)'
<1>0. j \in Servers
  BY DEF Highest
<1>1. s # j /\ ~up'[s]
  BY DEF Stops, TypeOK
<1>2. NothingAnnounced'
  <2> SUFFICES ASSUME NEW a \in Servers, NEW b \in Servers
               PROVE  AllElections(wire'[a][b])
    BY DEF NothingAnnounced
  <2>1. AllElections(wire[a][b]) /\ wire[a][b] \in Seq(Messages)
    BY DEF Unannounced, NothingAnnounced, TypeOK
  <2>2. PICK kept : /\ \A k \in Servers : kept[k] \in Prefixes(wire[s][k])
                    /\ wire' = [k \in Servers |-> IF k = s THEN kept
                                                  ELSE [wire[k] EXCEPT ![s] = <<>>]]
    BY DEF Stops
  <2>3. CASE a = s
    BY <2>1, <2>2, <2>3, AllElectionsPrefix
  <2>4. CASE a # s
    <3>1. wire'[a][b] = wire[a][b] \/ wire'[a][b] = <<>>
      BY <2>2, <2>4 DEF TypeOK
    <3>2. AllElections(<<>>)
      BY DEF AllElections
    <3> QED BY <2>1, <3>1, <3>2
  <2> QED BY <2>3, <2>4
<1>3. RolesAsFormed(j)'
  <2>1. \A r \in Roles : role'[s][r].at = "none" /\ conn'[s][r].at = "none"
    BY DEF Stops, TypeOK, NoRole, NoConn
  <2>2. \A t \in Servers \ {s} : role'[t] = role[t] /\ conn'[t] = conn[t]
    BY StopsOthers
  <2> QED BY <1>1, <2>1, <2>2 DEF Unannounced, RolesAsFormed
<1>4. Rises(j)'
  BY <1>0, <1>1, StopsOthers DEF Unannounced, Rises
<1>5. ASSUME NEW i \in Servers \ {First, j}, up'[i]
      PROVE  KnowEachOther(i, j)' /\ ~new_leader_decided'[i] /\ Trails(i)' /\ Heard(i, j)'
  <2>1. i # s /\ up[i]
    BY <1>1, <1>5, StopsOthers
  <2>2. KnowEachOther(i, j) /\ ~new_leader_decided[i] /\ Trails(i) /\ Heard(i, j)
    BY <2>1 DEF Unannounced, Others
  <2>3. /\ global_server_mode'[i] = global_server_mode[i]
        /\ new_leader_decided'[i] = new_leader_decided[i]
        /\ replicas'[i] = replicas[i] /\ election'[i] = election[i]
        /\ wire'[i][j] = wire[i][j]
    BY <1>0, <1>1, <2>1, StopsOthers
  <2>4. /\ global_server_mode'[j] = global_server_mode[j]
        /\ replicas'[j] = replicas[j] /\ election'[j] = election[j] /\ role'[j] = role[j]
    BY <1>0, <1>1, StopsOthers
  <2> QED BY <2>2, <2>3, <2>4 DEF KnowEachOther, Trails, Heard, Rouses
<1> QED BY <1>2, <1>3, <1>4, <1>5 DEF Unannounced, Others

(* A second passes only when j has read, has decided what it began and      *)
(* sleeps in its loop: an election that has waited one finds it the manager, *)
(* and none waits two.                                                      *)
LEMMA UnannouncedTick ==
  ASSUME TypeOK, NEW j, Highest(j), up[j], AtOnce(j), Unannounced(j), Tick
  PROVE  Unannounced(j)'
<1>0. j \in Servers /\ 1 \in Roles /\ "joined" \in Runs
  BY FirstRole DEF Highest, Runs
<1>1. UNCHANGED <<up, global_server_mode, new_leader_decided, replicas, wire>>
  BY DEF Tick, flags
<1>2. ~Busy(j)
  BY <1>0 DEF Tick
<1>3. \A e \in Runs : election[j][e].at = "none"
  BY <1>0, <1>2 DEF Busy, AtOnce
<1>4. \A i \in Servers : wire[i][j] = <<>>
  BY <1>2 DEF Busy, Highest
<1>5. role[j][1].at = "loop" /\ role[j][1].nap = 1
  <2>1. role[j][1].at \in {"loop", "leaving", "announce"}
    BY <1>0 DEF Unannounced, RolesAsFormed, Highest
  <2>2. Unlocked(j)
    BY <1>0, <1>2, <1>3 DEF Busy, Unlocked
  <2>3. role[j][1].nap # 0
    BY <1>0, <1>2, <2>1, <2>2 DEF Busy
  <2>4. role[j][1].nap \in 0 .. 3 /\ role[j][1].nap <= 1
    BY <1>0 DEF TypeOK, RoleType, Naps, Unannounced, Rises
  <2> QED BY <2>1, <2>3, <2>4 DEF Unannounced, Rises
<1>6. ASSUME NEW t \in Servers, NEW q \in Roles
      PROVE  /\ role'[t][q].at = role[t][q].at /\ role'[t][q].nap = Older(role[t][q].nap)
             /\ conn'[t][q].at = conn[t][q].at
  <2>1. role[t][q] \in RoleType /\ conn[t][q] \in ConnType
    BY DEF TypeOK
  <2>2. /\ role'[t][q] = [role[t][q] EXCEPT !.nap = Older(@)]
        /\ conn'[t][q] = [conn[t][q] EXCEPT !.nap = Older(@)]
    BY DEF Tick
  <2> QED BY <2>1, <2>2 DEF RoleType, ConnType
<1>7. ASSUME NEW t \in Servers, NEW e \in Runs
      PROVE  /\ election'[t][e].at = election[t][e].at
             /\ election'[t][e].nap = Older(election[t][e].nap)
  <2>1. election[t][e] \in ElectionType
    BY DEF TypeOK
  <2>2. election'[t][e] = [election[t][e] EXCEPT !.nap = Older(@)]
    BY DEF Tick
  <2> QED BY <2>1, <2>2 DEF ElectionType
<1>8. RolesAsFormed(j)' /\ NothingAnnounced'
  BY <1>1, <1>6 DEF Unannounced, RolesAsFormed, NothingAnnounced
<1>9. role'[j][1].at = "loop" /\ role'[j][1].nap = 0
  BY <1>0, <1>5, <1>6 DEF Older
<1>10. Rises(j)'
  BY <1>0, <1>1, <1>3, <1>7, <1>9 DEF Unannounced, Rises
<1>11. ASSUME NEW i \in Servers \ {First, j}, up'[i]
       PROVE  KnowEachOther(i, j)' /\ ~new_leader_decided'[i] /\ Trails(i)' /\ Heard(i, j)'
  <2>1. KnowEachOther(i, j) /\ ~new_leader_decided[i] /\ Trails(i) /\ Heard(i, j)
    BY <1>1, <1>11 DEF Unannounced, Others
  <2>2. Rouses(i, j) => global_server_mode[j] = "BACKUP_MANAGER"
    BY <1>3, <1>4 DEF Rouses
  <2>3. ASSUME NEW e \in Runs, election[i][e].at = "waiting"
        PROVE  election'[i][e].nap = 2 /\ global_server_mode[j] = "BACKUP_MANAGER"
    <3>1. election[i][e].nap = 3
      BY <1>5, <2>1, <2>3 DEF Trails, Heard
    <3> QED BY <1>7, <2>1, <2>2, <2>3, <3>1 DEF Heard, Older
  <2>4. Trails(i)'
    BY <1>1, <1>7, <2>1, <2>3 DEF Trails
  <2>5. Heard(i, j)'
    BY <1>1, <1>7, <1>9, <2>3 DEF Heard
  <2> QED BY <1>1, <2>1, <2>4, <2>5 DEF KnowEachOther
<1> QED BY <1>8, <1>10, <1>11 DEF Unannounced, Others

(* The announcement itself reaches everybody who is up.                     *)
LEMMA Announces ==
  ASSUME TypeOK, NEW j, Highest(j), Unannounced(j), RoleAnnounces(j, 1)
  PROVE  Announced(j)'
<1> DEFINE m == COORDINATOR(role[j][1].listening)
<1>0. j \in Servers /\ j # First /\ 1 \in Roles
  BY FirstRole DEF Highest
<1>1. m \in Messages /\ m.type = "COORDINATOR"
  <2>1. role[j][1].listening \in BOOLEAN
    BY <1>0 DEF TypeOK, RoleType
  <2> QED BY <2>1, MessageTypes DEF COORDINATOR
<1>2. /\ UNCHANGED <<up, global_server_mode, replicas, election>>
      /\ Send(j, {entry.id : entry \in replicas[j]}, m)
      /\ RoleGoes(j, 1, "snapshot", 0)
  BY DEF RoleAnnounces, flags
<1> HIDE DEF m
<1> SUFFICES ASSUME NEW i \in Servers \ {First, j}, up[i]
             PROVE  Told(i, j)'
  BY <1>2 DEF Announced, Others
<1>3. KnowEachOther(i, j) /\ Trails(i)
  BY DEF Unannounced, Others
<1>4. Carries(wire'[j][i])
  <2>1. Peer(i) \in replicas[j] /\ Peer(i).id = i
    BY <1>3 DEF KnowEachOther, Peer
  <2>2. wire'[j][i] = Queued(wire[j][i], m)
    BY <1>0, <1>2, <2>1, Sent
  <2>3. wire[j][i] \in Seq(Messages)
    BY <1>0 DEF TypeOK
  <2> QED BY <1>1, <2>2, <2>3, CarriesQueued
<1>5. Trails(i)'
  BY <1>2, <1>3 DEF Trails
<1>6. ASSUME NEW r \in Roles PROVE role'[i][r].at \notin Leading
  <2>1. role'[i][r].at = role[i][r].at
    BY <1>0, <1>2, RoleGoesTo
  <2>2. role[i][r].at \in {"none", "loop"}
    BY DEF Unannounced, RolesAsFormed
  <2> QED BY <2>1, <2>2 DEF Leading
<1> QED BY <1>4, <1>5, <1>6 DEF Told

LEMMA RoleGoesNap ==
  ASSUME TypeOK, NEW s \in Servers, NEW r \in Roles, NEW place, NEW nap,
         RoleGoes(s, r, place, nap)
  PROVE  \A t \in Servers, q \in Roles :
            role'[t][q].nap = IF t = s /\ q = r THEN nap ELSE role[t][q].nap
<1> SUFFICES ASSUME NEW t \in Servers, NEW q \in Roles
             PROVE  role'[t][q].nap = IF t = s /\ q = r THEN nap ELSE role[t][q].nap
  OBVIOUS
<1>1. role \in [Servers -> [Roles -> RoleType]] /\ role[s][r] \in RoleType
  BY DEF TypeOK
<1>2. role' = [role EXCEPT ![s] = [role[s] EXCEPT ![r] =
                 [role[s][r] EXCEPT !.at = place, !.nap = nap]]]
  BY <1>1 DEF RoleGoes, RoleType
<1>3. role'[t][q] = IF t = s /\ q = r THEN [role[s][r] EXCEPT !.at = place, !.nap = nap]
                    ELSE role[t][q]
  BY <1>1, <1>2
<1> QED BY <1>1, <1>3 DEF RoleType

LEMMA UnannouncedRole ==
  ASSUME TypeOK, Timed, NEW j, Highest(j), PeersAreBackups, Unannounced(j),
         NEW s \in Servers, NEW r \in Roles, RoleStep(s, r), ~RoleAnnounces(s, r)
  PROVE  Unannounced(j)'
<1>0. j \in Servers /\ j # First /\ 1 \in Roles
  BY FirstRole DEF Highest
<1>1. role[s][r].at \in IF r # 1 THEN {"none"}
                        ELSE IF s = First THEN {"none", "managing", "done"}
                        ELSE IF s = j THEN {"loop", "leaving", "announce"}
                        ELSE {"none", "loop"}
  BY DEF Unannounced, RolesAsFormed
<1>2. /\ r = 1 /\ up[s]
      /\ \/ RoleLoop(s, 1) /\ s # First
         \/ RoleLeaves(s, 1) /\ s = j
         \/ (ManagerBeats(s, 1) \/ ManagerLeaves(s, 1)) /\ s = First
  BY <1>0, <1>1 DEF RoleStep, RoleStart, RoleClear, RoleLoop, RoleLeaves, RoleAnnounces,
     RoleCounts, RoleDestroys, RoleAwaits, ManagerStart, ManagerBeats, ManagerLeaves, RoleAt
<1>3. UNCHANGED <<up, global_server_mode, new_leader_decided, wire, election>>
  BY <1>2 DEF RoleLoop, RoleLeaves, ManagerBeats, ManagerLeaves, flags
<1>4. \A t \in Servers \ {First} : replicas'[t] = replicas[t]
  BY <1>2 DEF RoleLoop, RoleLeaves, ManagerBeats, ManagerLeaves, TypeOK
<1>5. \A t \in Servers, q \in Roles : conn'[t][q].at = conn[t][q].at
  <2>1. CASE ManagerBeats(s, 1)
    <3> SUFFICES ASSUME NEW t \in Servers, NEW q \in Roles
                 PROVE  conn'[t][q].at = conn[t][q].at
      OBVIOUS
    <3>1. conn[t][q] \in ConnType
      BY DEF TypeOK
    <3>2. conn'[t][q] = IF Connected(s, t, q)
                        THEN [conn[t][q] EXCEPT !.inbox = @ \cup {"HEARTBEAT"}] ELSE conn[t][q]
      BY <2>1 DEF ManagerBeats
    <3> QED BY <3>1, <3>2 DEF ConnType
  <2>2. CASE RoleLoop(s, 1) \/ RoleLeaves(s, 1) \/ ManagerLeaves(s, 1)
    BY <2>2 DEF RoleLoop, RoleLeaves, ManagerLeaves
  <2> QED BY <1>2, <2>1, <2>2
<1>6. PICK place, nap :
         /\ RoleGoes(s, 1, place, nap)
         /\ \/ s \notin {First, j} /\ place = "loop"
            \/ s = First /\ place \in {"managing", "done"}
            \/ /\ s = j /\ nap \in {0, 1}
               /\ \/ place = "loop" /\ global_server_mode[j] = "BACKUP"
                  \/ /\ place \in {"leaving", "announce"} /\ nap = 0
                     /\ global_server_mode[j] = "BACKUP_MANAGER"
  <2>1. CASE s = First
    BY <1>0, <1>2, <2>1 DEF ManagerBeats, ManagerLeaves
  <2>2. CASE s \notin {First, j}
    <3>1. global_server_mode[s] = "BACKUP" /\ ~new_leader_decided[s]
      BY <1>2, <2>2 DEF Unannounced, Others, Trails
    <3> QED BY <1>2, <2>2, <3>1 DEF RoleLoop
  <2>3. CASE s = j
    <3>1. global_server_mode[j] \in {"BACKUP", "BACKUP_MANAGER"}
      BY <1>0 DEF TypeOK, Modes
    <3>2. global_server_mode[j] = "BACKUP" => ~new_leader_decided[j]
      BY DEF Unannounced, Rises
    <3>3. CASE RoleLoop(j, 1)
      BY <3>1, <3>2, <3>3, <2>3 DEF RoleLoop, Sleep
    <3>4. CASE RoleLeaves(j, 1)
      <4>1. global_server_mode[j] = "BACKUP_MANAGER"
        BY <3>4 DEF RoleLeaves, RoleAt, Unannounced, Rises
      <4> QED BY <3>4, <4>1, <2>3 DEF RoleLeaves
    <3> QED BY <1>0, <1>2, <2>3, <3>3, <3>4
  <2> QED BY <2>1, <2>2, <2>3
<1>7. \A t \in Servers, q \in Roles :
         /\ role'[t][q].at = IF t = s /\ q = 1 THEN place ELSE role[t][q].at
         /\ role'[t][q].nap = IF t = s /\ q = 1 THEN nap ELSE role[t][q].nap
  BY <1>0, <1>6, RoleGoesTo, RoleGoesNap
<1>8. RolesAsFormed(j)'
  BY <1>0, <1>5, <1>6, <1>7 DEF Unannounced, RolesAsFormed
<1>9. NothingAnnounced'
  BY <1>3 DEF Unannounced, NothingAnnounced
<1>10. Rises(j)'
  BY <1>0, <1>3, <1>6, <1>7 DEF Unannounced, Rises
<1>11. ASSUME NEW i \in Servers \ {First, j}, up'[i]
       PROVE  KnowEachOther(i, j)' /\ ~new_leader_decided'[i] /\ Trails(i)' /\ Heard(i, j)'
  <2>1. KnowEachOther(i, j) /\ ~new_leader_decided[i] /\ Trails(i) /\ Heard(i, j)
    BY <1>3, <1>11 DEF Unannounced, Others
  <2>2. Trails(i)'
    BY <1>3, <1>4, <2>1 DEF Trails
  <2>3. Rouses(i, j) => Rouses(i, j)'
    BY <1>3 DEF Rouses
  <2>4. global_server_mode[j] = "BACKUP_MANAGER" =>
           (role'[j][1].at = "loop" => role[j][1].at = "loop" /\ role'[j][1].nap = role[j][1].nap)
    BY <1>0, <1>6, <1>7
  <2>5. Heard(i, j)'
    BY <1>0, <1>3, <2>1, <2>3, <2>4, HeardOn
  <2> QED BY <1>0, <1>3, <1>4, <2>1, <2>2, <2>5 DEF KnowEachOther
<1> QED BY <1>8, <1>9, <1>10, <1>11 DEF Unannounced, Others

LEMMA UnannouncedStep ==
  ASSUME TypeOK, FlagIsOwed, [Next]_vars, Timed, NEW j, Highest(j), up'[j],
         PeersAreBackups, AtOnce(j), Unannounced(j)
  PROVE  Unannounced(j)' \/ Announced(j)'
<1>0. j \in Servers /\ up[j]
  BY NeverUpAgain DEF Highest
<1>1. CASE UNCHANGED vars
  <2>1. /\ up' = up /\ global_server_mode' = global_server_mode
        /\ new_leader_decided' = new_leader_decided
        /\ replicas' = replicas /\ wire' = wire
        /\ election' = election /\ role' = role /\ conn' = conn
    BY <1>1 DEF vars, threads, flags
  <2> QED BY <2>1 DEF Unannounced, RolesAsFormed, NothingAnnounced, Rises, Others, KnowEachOther,
                      Trails, Heard, Rouses
<1>2. ASSUME NEW s \in Servers, NEW r \in Roles, RoleStep(s, r)
      PROVE  Unannounced(j)' \/ Announced(j)'
  <2>1. CASE RoleAnnounces(s, r)
    <3>1. s = j /\ r = 1
      BY <2>1 DEF RoleAnnounces, RoleAt, Unannounced, RolesAsFormed
    <3> QED BY <2>1, <3>1, Announces
  <2>2. CASE ~RoleAnnounces(s, r)
    BY <1>2, <2>2, UnannouncedRole
  <2> QED BY <2>1, <2>2
<1>3. ASSUME NEW s \in Servers, NEW e \in Runs, ElectionStep(s, e)
      PROVE  Unannounced(j)'
  BY <1>0, <1>3, UnannouncedStart, UnannouncedElection
<1> QED BY <1>0, <1>1, <1>2, <1>3, UnannouncedMonitor, UnannouncedListener, UnannouncedConn,
           UnannouncedStops, UnannouncedTick
        DEF Next, Crash, MisreadCoordinator, FreedHostname

LEMMA HighestStep == TypeOK /\ FlagIsOwed /\ HighestInv /\ [Next]_vars => HighestInv'
<1> SUFFICES ASSUME TypeOK, FlagIsOwed, HighestInv, [Next]_vars PROVE HighestInv'
  OBVIOUS
<1>1. PeersAreBackups /\ PeersAreBackups'
  BY PeersStep DEF HighestInv
<1>2. ASSUME Timed, NEW j \in Servers, Highest(j), up'[j]
      PROVE  AtOnce(j)' /\ (Unannounced(j)' \/ Announced(j)')
  <2>1. up[j]
    BY <1>2, NeverUpAgain
  <2>2. AtOnce(j) /\ (Unannounced(j) \/ Announced(j))
    BY <1>2, <2>1 DEF HighestInv
  <2> QED BY <1>1, <1>2, <2>2, AtOnceStep, UnannouncedStep, AnnouncedStep
<1> QED BY <1>1, <1>2 DEF HighestInv, Highest

LEMMA HighestInit == Init => HighestInv
<1> SUFFICES ASSUME Init PROVE HighestInv
  OBVIOUS
<1>1. \A i, j : Peer(i) = Peer(j) => i = j
  BY DEF Peer
<1>2. PeersAreBackups
  BY <1>1, EntriesDiffer DEF Init, PeersAreBackups
<1>3. ASSUME NEW j, Highest(j) PROVE AtOnce(j) /\ Unannounced(j)
  <2>0. j \in Servers \ {First} /\ 1 \in Roles
    BY <1>3, FirstRole DEF Highest
  <2>1. AtOnce(j)
    BY <2>0 DEF Init, AtOnce
  <2>2. RolesAsFormed(j)
    BY <2>0 DEF Init, RolesAsFormed, NoRole, NoConn
  <2>3. NothingAnnounced
    BY DEF Init, NothingAnnounced, AllElections
  <2>4. Rises(j)
    <3>1. role[j][1].at = "loop" /\ role[j][1].nap = 0
      BY <2>0 DEF Init
    <3> QED BY <2>0, <3>1 DEF Init, Rises
  <2>5. ASSUME NEW i \in Servers \ {First, j}
        PROVE  KnowEachOther(i, j) /\ ~new_leader_decided[i] /\ Trails(i) /\ Heard(i, j)
    <3>1. KnowEachOther(i, j)
      BY <2>0, <2>5 DEF Init, KnowEachOther
    <3>2. Trails(i)
      <4>1. replicas[i] = {Peer(k) : k \in Servers \ {i, First}}
        BY <2>5 DEF Init
      <4> QED BY <2>5, <4>1 DEF Init, Trails, Peer
    <3>3. Heard(i, j)
      BY <2>5 DEF Init, Heard
    <3> QED BY <2>5, <3>1, <3>2, <3>3 DEF Init
  <2> QED BY <2>1, <2>2, <2>3, <2>4, <2>5 DEF Unannounced, Others
<1> QED BY <1>2, <1>3 DEF HighestInv

(* Of two managers that both keep up with time, one of which has the        *)
(* highest id of all, the lower one has the higher one in its list no more. *)
LEMMA HighestIsHeard ==
  ASSUME TypeOK, HighestInv, Timed,
         NEW i \in Managers \ Slow, NEW j \in Managers \ Slow, i < j, \A k \in Servers : k <= j
  PROVE  Peer(j) \notin replicas[i]
<1> SUFFICES ASSUME Peer(j) \in replicas[i] PROVE FALSE
  OBVIOUS
<1>1. /\ i \in Servers /\ up[i] /\ global_server_mode[i] = "BACKUP_MANAGER"
      /\ j \in Servers /\ up[j]
  BY DEF Managers
<1>2. i # j
  BY <1>1, ServersAssumption
<1>3. Highest(j) /\ i # First
  BY <1>1 DEF HighestInv, PeersAreBackups, Highest
<1>4. CASE Unannounced(j)
  BY <1>1, <1>2, <1>3, <1>4 DEF Unannounced, Others, Trails
<1>5. CASE Announced(j)
  BY <1>1, <1>2, <1>3, <1>5 DEF Announced, Others, Told, Trails
<1> QED BY <1>1, <1>3, <1>4, <1>5 DEF HighestInv

(* A server that keeps up with time and has the highest id of all announces *)
(* itself before a lower one that keeps up can win against it, and the      *)
(* announcement takes it out of the lower one's list before the lower one   *)
(* can win without it: of two such managers the lower does not list the     *)
(* higher (election.c:97-124, 243-254, serverRoles.c:562-563).              *)
THEOREM HighestIsRemoved ==
  Spec => [](Timed => \A i, j \in Managers \ Slow :
                         i < j /\ (\A k \in Servers : k <= j) => Peer(j) \notin replicas[i])
<1>1. Init => FlagIsOwed
  BY DEF Init, FlagIsOwed
<1>2. TypeOK /\ HighestInv =>
        (Timed => \A i, j \in Managers \ Slow :
                     i < j /\ (\A k \in Servers : k <= j) => Peer(j) \notin replicas[i])
  BY HighestIsHeard
<1> QED BY <1>1, <1>2, RunningStep, HighestInit, HighestStep, TypeCorrect, PTL DEF Spec

(* When everybody keeps up with time, a manager beside the one with the     *)
(* highest id has heard of it (election.c:114-124, 254), for any number of  *)
(* servers and of crashes.                                                  *)
THEOREM HighestIsKnown == Spec => [](Timed /\ Slow = {} => LowerKnewOfHighest)
<1>1. (Timed => \A i, j \in Managers \ Slow :
                   i < j /\ (\A k \in Servers : k <= j) => Peer(j) \notin replicas[i])
        => (Timed /\ Slow = {} => LowerKnewOfHighest)
  BY DEF LowerKnewOfHighest
<1> QED BY <1>1, HighestIsRemoved, PTL
=============================================================================
