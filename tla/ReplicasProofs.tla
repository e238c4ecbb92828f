---------------------------- MODULE ReplicasProofs ----------------------------
(***************************************************************************)
(* What is proved of the group for any number of backups, packets and       *)
(* files: its types, that replica_list_mutex excludes until the listener    *)
(* unlocks it for somebody else, and that before that no thread that holds  *)
(* it looks at a node that was freed, the list and its count are those of   *)
(* the replicas that joined, a walk of it is a notification of ReplicaGroup,*)
(* and a backup takes each packet for what it is.                           *)
(*                                                                          *)
(* The list needs its shape: the nodes that joined and were not freed are   *)
(* linked among themselves, each but the head from one other, and never in  *)
(* a circle, so that all of them follow from the head; and the thread that  *)
(* holds the mutex has the two neighbours in its hands.  The packets need   *)
(* the places between them: what is on its way to a backup leads it from    *)
(* the packet it expects to the one the manager sends it next.  A walk has  *)
(* ahead of it what no link behind it can change.                           *)
(***************************************************************************)
EXTENDS Replicas, FiniteSetTheorems, WellFoundedInduction, TLAPS

Counting == \A b \in Backups : backup[b].at = "chunks" => backup[b].left > 0

Telling == writer["listener"].at # "idle" => writer["listener"].kind = "REPLICA_ADDED"

(* Only the listener adds nodes and tells newcomers.                        *)
Roles == \A w \in Writers \ {"listener"} : writer[w].at \notin {"insert", "count", "tell"}

Joining ==
    /\ \A b \in arriving : backup[b].at # "out"
    /\ writer["listener"].at = "insert" =>
          /\ writer["listener"].new \in Backups \ arriving
          /\ backup[writer["listener"].new].at # "out"

Acyclic == \E rank \in [Backups -> Nat] :
              \A b \in Members : next[b] # NULL => rank[next[b]] < rank[b]

Linked ==
    /\ freed \subseteq {b \in Backups : Inserted(b)}
    /\ head \in Members \cup {NULL}
    /\ \A b \in Members : next[b] \in Members \cup {NULL}
    /\ \A b \in Members : next[b] # NULL => next[b] # head
    /\ \A a, b \in Members : next[a] = next[b] /\ next[a] # NULL => a = b
    /\ \A b \in Members \ {head} : \E a \in Members : next[a] = b
    /\ Acyclic

(* A thread in notify_replicas is at a node of the list, or at its end, and *)
(* knows the node before.                                                   *)
PlacedAt(w) ==
    /\ writer[w].current \in Members \cup {NULL}
    /\ writer[w].prev = NULL => writer[w].current = head
    /\ writer[w].prev # NULL =>
          writer[w].prev \in Members /\ next[writer[w].prev] = writer[w].current

Placed == \A w \in Writers : Inside(w) => PlacedAt(w)

Types == TypeOK /\ Counting /\ Telling

IInv ==
    /\ Types
    /\ Roles
    /\ Joining
    /\ Exclusive
    /\ ~breached => Linked /\ Placed
    /\ DanglesOnlyUnlocked

-----------------------------------------------------------------------------
(* Types.                                                                   *)

LEMMA NullApart == NULL \notin Writers /\ NULL \notin Backups
BY NullAssumption DEF Writers

LEMMA MadePackets ==
    /\ \A kind \in Kinds, b \in Nodes :
          (kind = "REPLICA_ADDED" => b # NULL) => Event(kind, b) \in Packets
    /\ \A n \in Nat : Packet("send", n) \in Packets
    /\ Packet("data", 0) \in Packets /\ Packet("delete", 0) \in Packets
BY NullApart DEF Event, Packet, Packets, Kinds, Nodes

(* The ways in which the threads' records are made and changed.             *)
LEMMA WorkChanged ==
    ASSUME NEW t \in Work
    PROVE  /\ \A p \in WriterPlaces : [t EXCEPT !.at = p] \in Work
           /\ \A n \in Nodes : [t EXCEPT !.current = n] \in Work
           /\ \A p \in WriterPlaces, n \in Nodes : [t EXCEPT !.at = p, !.current = n] \in Work
           /\ \A p \in WriterPlaces, n, m \in Nodes :
                 [t EXCEPT !.at = p, !.current = n, !.prev = m] \in Work
           /\ \A p \in WriterPlaces, n, m \in Nodes :
                 [t EXCEPT !.at = p, !.prev = m, !.current = n] \in Work
           /\ \A n \in 0 .. MaxChunks : [t EXCEPT !.size = n] \in Work
           /\ \A p \in WriterPlaces, n \in 0 .. MaxChunks :
                 [t EXCEPT !.at = p, !.size = n, !.sent = 0] \in Work
           /\ [t EXCEPT !.sent = @ + 1] \in Work
<1> USE DEF Work
<1>1. ASSUME NEW p \in WriterPlaces PROVE [t EXCEPT !.at = p] \in Work
  OBVIOUS
<1>2. ASSUME NEW n \in Nodes PROVE [t EXCEPT !.current = n] \in Work
  OBVIOUS
<1>3. ASSUME NEW p \in WriterPlaces, NEW n \in Nodes
      PROVE  [t EXCEPT !.at = p, !.current = n] \in Work
  OBVIOUS
<1>4. ASSUME NEW p \in WriterPlaces, NEW n \in Nodes, NEW m \in Nodes
      PROVE  [t EXCEPT !.at = p, !.current = n, !.prev = m] \in Work
  OBVIOUS
<1>5. ASSUME NEW p \in WriterPlaces, NEW n \in Nodes, NEW m \in Nodes
      PROVE  [t EXCEPT !.at = p, !.prev = m, !.current = n] \in Work
  OBVIOUS
<1>6. ASSUME NEW n \in 0 .. MaxChunks PROVE [t EXCEPT !.size = n] \in Work
  OBVIOUS
<1>7. ASSUME NEW p \in WriterPlaces, NEW n \in 0 .. MaxChunks
      PROVE  [t EXCEPT !.at = p, !.size = n, !.sent = 0] \in Work
  OBVIOUS
<1>8. [t EXCEPT !.sent = @ + 1] \in Work
  OBVIOUS
<1> QED BY <1>1, <1>2, <1>3, <1>4, <1>5, <1>6, <1>7, <1>8

LEMMA WorkMade ==
    /\ Idle \in Work
    /\ \A b \in Backups :
          [Idle EXCEPT !.at = "insert", !.kind = "REPLICA_ADDED", !.new = b] \in Work
    /\ [Idle EXCEPT !.at = "lock", !.kind = "FILE_UPLOADED"] \in Work
    /\ [Idle EXCEPT !.at = "lock", !.kind = "FILE_DELETED"] \in Work
<1>1. Idle \in Work
  BY NullApart, BoundsAssumption DEF Idle, Work, Nodes, Kinds, WriterPlaces
<1>2. ASSUME NEW t \in Work, NEW b \in Backups
      PROVE  [t EXCEPT !.at = "insert", !.kind = "REPLICA_ADDED", !.new = b] \in Work
  BY NullApart DEF Work, Nodes, Kinds, WriterPlaces
<1>3. ASSUME NEW t \in Work, NEW kind \in Kinds \ {"REPLICA_ADDED"}
      PROVE  [t EXCEPT !.at = "lock", !.kind = kind] \in Work
  BY DEF Work, WriterPlaces
<1>4. {"FILE_UPLOADED", "FILE_DELETED"} \subseteq Kinds \ {"REPLICA_ADDED"}
  BY DEF Kinds
<1> QED BY <1>1, <1>2, <1>3, <1>4

LEMMA WriterChanged ==
    ASSUME writer \in [Writers -> Work], NEW w \in Writers, NEW t \in Work,
           writer' = [writer EXCEPT ![w] = t]
    PROVE  writer' \in [Writers -> Work]
OBVIOUS

LEMMA SendTypes ==
    ASSUME TypeOK, NEW b, NEW p \in Packets, Send(b, p)
    PROVE  wire' \in [Backups -> Seq(Packets)]
<1>1. wire \in [Backups -> Seq(Packets)]
  BY DEF TypeOK
<1>2. CASE Down(b)
  BY <1>1, <1>2 DEF Send
<1>3. CASE ~Down(b)
  <2>1. wire' = [wire EXCEPT ![b] = Append(@, p)]
    BY <1>3 DEF Send
  <2>2. \A s \in Seq(Packets) : Append(s, p) \in Seq(Packets)
    OBVIOUS
  <2> QED BY <1>1, <2>1, <2>2
<1> QED BY <1>2, <1>3

LEMMA GoesTypes ==
    ASSUME TypeOK, NEW w \in Writers, NEW place \in WriterPlaces, Goes(w, place)
    PROVE  writer' \in [Writers -> Work]
<1>1. writer \in [Writers -> Work] /\ writer[w] \in Work
  BY DEF TypeOK
<1>2. [writer[w] EXCEPT !.at = place] \in Work
  BY <1>1, WorkChanged
<1> QED BY <1>1, <1>2, WriterChanged DEF Goes

LEMMA OnToTypes ==
    ASSUME TypeOK, NEW w \in Writers, Sound(w), OnTo(w)
    PROVE  writer' \in [Writers -> Work]
<1>1. writer \in [Writers -> Work] /\ writer[w] \in Work
  BY DEF TypeOK
<1>2. writer[w].current \in Backups
  BY <1>1 DEF Sound, Work, Nodes
<1>3. next[writer[w].current] \in Nodes /\ writer[w].current \in Nodes /\ "node" \in WriterPlaces
  BY <1>2 DEF TypeOK, Nodes, WriterPlaces
<1> DEFINE t == [writer[w] EXCEPT !.at = "node", !.prev = writer[w].current,
                                  !.current = next[writer[w].current]]
<1>4. t \in Work
  BY <1>1, <1>3, WorkChanged
<1>5. writer' = [writer EXCEPT ![w] = t]
  BY <1>1 DEF OnTo
<1> QED BY <1>1, <1>4, <1>5, WriterChanged

LEMMA InitTypes == Init => TypeOK /\ Counting /\ Telling
<1> SUFFICES ASSUME Init PROVE TypeOK /\ Counting /\ Telling
  OBVIOUS
<1>1. writer \in [Writers -> Work]
  BY WorkMade DEF Init
<1>2. backup \in [Backups -> Seat]
  BY DEF Init, Seat, BackupPlaces
<1>3. wire \in [Backups -> Seq(Packets)]
  BY DEF Init
<1>4. Counting /\ Telling
  BY DEF Init, Counting, Telling, Idle, Writers
<1>5. file \in {NoFile} \cup 0 .. MaxChunks /\ files \in 0 .. MaxFiles
  BY BoundsAssumption DEF Init
<1>6. owner \in Writers \cup {NULL} /\ head \in Nodes /\ next \in [Backups -> Nodes]
  BY DEF Init, Nodes
<1>7. peers \in [Backups -> SUBSET Backups] /\ replica_count \in Int
  BY DEF Init
<1>8. freed = {} /\ arriving = {} /\ misread = {} /\ mingled = {}
      /\ running \in BOOLEAN /\ altered \in BOOLEAN /\ breached \in BOOLEAN
  BY DEF Init
<1> QED BY <1>1, <1>2, <1>3, <1>4, <1>5, <1>6, <1>7, <1>8 DEF TypeOK

LEMMA ListenerTypes ==
    ASSUME TypeOK, Counting, Telling, Telling,
           \/ \E b \in Backups : ListenerAccepts(b)
           \/ ListenerInserts \/ ListenerCounts \/ ListenerTells \/ ListenerUnlocks
    PROVE  TypeOK' /\ Counting'
<1>1. "listener" \in Writers /\ writer \in [Writers -> Work] /\ writer["listener"] \in Work
  BY DEF TypeOK, Writers
<1>2. ASSUME NEW b \in Backups, ListenerAccepts(b) PROVE TypeOK' /\ Counting'
  <2>1. writer' \in [Writers -> Work]
    BY <1>1, <1>2, WorkMade, WriterChanged DEF ListenerAccepts
  <2> QED BY <1>2, <2>1 DEF TypeOK, Counting, ListenerAccepts, list, disk, backups, history
<1>3. CASE ListenerInserts
  <2>1. writer' \in [Writers -> Work]
    BY <1>1, <1>3, GoesTypes DEF ListenerInserts, WriterPlaces
  <2>2. writer["listener"].new \in Nodes
    BY <1>1 DEF Work
  <2> QED BY <1>3, <2>1, <2>2
          DEF TypeOK, Counting, ListenerInserts, Nodes, disk, backups, history
<1>4. CASE ListenerCounts
  <2>1. writer' \in [Writers -> Work]
    BY <1>1, <1>4, GoesTypes DEF ListenerCounts, WriterPlaces
  <2> QED BY <1>4, <2>1 DEF TypeOK, Counting, ListenerCounts, disk, backups, history
<1>5. CASE ListenerTells
  <2>1. writer["listener"].current \in Backups
    BY <1>1, <1>5 DEF Work, Nodes, ListenerTells, Sound
  <2>2. wire' \in [Backups -> Seq(Packets)]
    BY <1>5, <2>1, NullApart, SendTypes, MadePackets DEF ListenerTells, Nodes, Kinds
  <2>3. next[writer["listener"].current] \in Nodes
    BY <2>1 DEF TypeOK
  <2>4. writer' \in [Writers -> Work]
    <3>1. [writer["listener"] EXCEPT !.current = next[writer["listener"].current]] \in Work
      BY <1>1, <2>3, WorkChanged
    <3> QED BY <1>1, <1>5, <3>1, WriterChanged DEF ListenerTells
  <2>5. mingled' \in SUBSET Backups
    <3>1. CASE MidFile(writer["listener"].new)
      <4>1. writer["listener"].new \in Backups
        BY <1>1, <1>5 DEF Telling, ListenerTells, At, Work, Nodes
      <4> QED BY <1>5, <3>1, <4>1 DEF TypeOK, ListenerTells
    <3>2. CASE ~MidFile(writer["listener"].new)
      BY <1>5, <3>2 DEF TypeOK, ListenerTells
    <3> QED BY <3>1, <3>2
  <2> QED BY <1>5, <2>2, <2>4, <2>5 DEF TypeOK, Counting, ListenerTells, list, disk
<1>6. CASE ListenerUnlocks
  <2>1. writer' \in [Writers -> Work]
    BY <1>1, <1>6, WorkMade, WriterChanged DEF ListenerUnlocks
  <2> QED BY <1>6, <2>1 DEF TypeOK, Counting, ListenerUnlocks, list, disk, backups
<1> QED BY <1>2, <1>3, <1>4, <1>5, <1>6

LEMMA UserTypes ==
    ASSUME TypeOK, Counting, Telling, HeartbeatDue \/ UserUploads \/ UserDeletes \/ FileChanges
    PROVE  TypeOK' /\ Counting'
<1>1. "heartbeat" \in Writers /\ "user" \in Writers /\ writer \in [Writers -> Work]
      /\ writer["user"] \in Work
  BY DEF TypeOK, Writers
<1>2. CASE HeartbeatDue
  <2>1. writer' \in [Writers -> Work]
    BY <1>1, <1>2, GoesTypes DEF HeartbeatDue, WriterPlaces
  <2> QED BY <1>2, <2>1 DEF TypeOK, Counting, HeartbeatDue, list, disk, backups, history
<1>3. CASE UserUploads
  <2>1. writer' \in [Writers -> Work]
    BY <1>1, <1>3, WorkMade, WriterChanged DEF UserUploads
  <2> QED BY <1>3, <2>1, BoundsAssumption
          DEF TypeOK, Counting, UserUploads, list, backups, history
<1>4. CASE UserDeletes
  <2>1. writer' \in [Writers -> Work]
    BY <1>1, <1>4, WorkMade, WriterChanged DEF UserDeletes
  <2> QED BY <1>4, <2>1, BoundsAssumption
          DEF TypeOK, Counting, UserDeletes, list, backups, history
<1>5. CASE FileChanges
  <2>1. writer' \in [Writers -> Work]
    <3>1. CASE writer["user"].at = "chunks" /\ file' # NoFile
      <4>1. file' \in 0 .. MaxChunks
        BY <1>5, <3>1 DEF FileChanges
      <4>2. [writer["user"] EXCEPT !.size = file'] \in Work
        BY <1>1, <4>1, WorkChanged
      <4> QED BY <1>1, <1>5, <3>1, <4>2, WriterChanged DEF FileChanges
    <3>2. CASE ~(writer["user"].at = "chunks" /\ file' # NoFile)
      BY <1>1, <1>5, <3>2 DEF FileChanges
    <3> QED BY <3>1, <3>2
  <2> QED BY <1>5, <2>1, BoundsAssumption DEF TypeOK, Counting, FileChanges, list, backups
<1> QED BY <1>2, <1>3, <1>4, <1>5

LEMMA NotifyTypes ==
    ASSUME TypeOK, Counting, NEW w \in Writers, NotifyLocks(w) \/ NotifyStep(w)
    PROVE  TypeOK' /\ Counting'
<1>1. writer \in [Writers -> Work] /\ writer[w] \in Work /\ writer[w].new \in Nodes
      /\ writer[w].kind \in Kinds /\ writer[w].sent \in Nat
      /\ (writer[w].kind = "REPLICA_ADDED" => writer[w].new # NULL)
  BY DEF TypeOK, Work
<1>2. CASE NotifyLocks(w)
  <2>1. [writer[w] EXCEPT !.at = "node", !.current = head, !.prev = NULL] \in Work
    BY <1>1, WorkChanged DEF TypeOK, Nodes, WriterPlaces
  <2>2. writer' \in [Writers -> Work]
    BY <1>1, <1>2, <2>1, WriterChanged DEF NotifyLocks
  <2> QED BY <1>2, <2>2 DEF TypeOK, Counting, NotifyLocks, list, disk, backups, history
<1>3. CASE NotifySends(w)
  <2>1. wire' \in [Backups -> Seq(Packets)]
    BY <1>1, <1>3, SendTypes, MadePackets DEF NotifySends
  <2>2. writer' \in [Writers -> Work]
    BY <1>3, GoesTypes, OnToTypes DEF NotifySends, WriterPlaces
  <2> QED BY <1>3, <2>1, <2>2 DEF TypeOK, Counting, NotifySends, list, disk, history
<1>4. CASE NotifyRemoves(w)
  <2>1. writer[w].current \in Backups
    BY <1>1, <1>4 DEF NotifyRemoves, Sound, Work, Nodes
  <2>2. next[writer[w].current] \in Nodes
    BY <2>1 DEF TypeOK
  <2>3. [writer[w] EXCEPT !.current = next[writer[w].current]] \in Work
    BY <1>1, <2>2, WorkChanged
  <2>4. writer' \in [Writers -> Work]
    BY <1>1, <1>4, <2>3, WriterChanged DEF NotifyRemoves
  <2>5. head' \in Nodes /\ next' \in [Backups -> Nodes]
    <3>1. CASE writer[w].prev = NULL
      BY <1>4, <2>2, <3>1 DEF TypeOK, NotifyRemoves, Unlink
    <3>2. CASE writer[w].prev # NULL
      BY <1>4, <2>2, <3>2 DEF TypeOK, NotifyRemoves, Unlink
    <3> QED BY <3>1, <3>2
  <2>6. freed' \in SUBSET Backups /\ replica_count' \in Int
    BY <1>4, <2>1 DEF TypeOK, NotifyRemoves
  <2> QED BY <1>4, <2>4, <2>5, <2>6 DEF TypeOK, Counting, NotifyRemoves, disk, backups, history
<1>5. CASE NotifyOpens(w)
  <2>1. CASE file = NoFile
    BY <1>5, <2>1, OnToTypes DEF TypeOK, Counting, NotifyOpens, list, disk, history
  <2>2. CASE file # NoFile
    <3>1. file \in 0 .. MaxChunks /\ file \in Nat
      BY <2>2, BoundsAssumption DEF TypeOK
    <3>2. wire' \in [Backups -> Seq(Packets)]
      BY <1>5, <2>2, <3>1, SendTypes, MadePackets DEF NotifyOpens
    <3>3. [writer[w] EXCEPT !.at = "chunks", !.size = file, !.sent = 0] \in Work
      BY <1>1, <3>1, WorkChanged DEF WriterPlaces
    <3>4. writer' \in [Writers -> Work]
      BY <1>1, <1>5, <2>2, <3>3, WriterChanged DEF NotifyOpens
    <3> QED BY <1>5, <3>2, <3>4 DEF TypeOK, Counting, NotifyOpens, list, disk, history
  <2> QED BY <2>1, <2>2
<1>6. CASE NotifyChunks(w)
  <2>1. wire' \in [Backups -> Seq(Packets)]
    BY <1>6, SendTypes, MadePackets DEF TypeOK, NotifyChunks
  <2>2. writer' \in [Writers -> Work]
    <3>1. [writer[w] EXCEPT !.sent = @ + 1] \in Work
      BY <1>1, WorkChanged
    <3> QED BY <1>1, <1>6, <3>1, WriterChanged, OnToTypes DEF NotifyChunks
  <2> QED BY <1>6, <2>1, <2>2 DEF TypeOK, Counting, NotifyChunks, list, disk, history
<1>7. CASE NotifyDeletes(w)
  <2>1. wire' \in [Backups -> Seq(Packets)]
    BY <1>7, SendTypes, MadePackets DEF NotifyDeletes
  <2>2. writer' \in [Writers -> Work]
    BY <1>7, OnToTypes DEF NotifyDeletes
  <2> QED BY <1>7, <2>1, <2>2 DEF TypeOK, Counting, NotifyDeletes, list, disk, history
<1>8. CASE NotifyUnlocks(w)
  <2>1. [writer[w] EXCEPT !.at = "tell", !.current = head] \in Work
    BY <1>1, WorkChanged DEF TypeOK, WriterPlaces
  <2>2. writer' \in [Writers -> Work]
    BY <1>1, <1>8, <2>1, WorkMade, WriterChanged DEF NotifyUnlocks
  <2> QED BY <1>8, <2>2 DEF TypeOK, Counting, NotifyUnlocks, list, disk, backups, history
<1> QED BY <1>2, <1>3, <1>4, <1>5, <1>6, <1>7, <1>8 DEF NotifyStep

LEMMA BackupTypes ==
    ASSUME TypeOK, Counting, Telling, NEW b \in Backups,
           BackupConnects(b) \/ BackupCrashes(b) \/ BackupStep(b)
    PROVE  TypeOK' /\ Counting'
<1>1. backup \in [Backups -> Seat] /\ backup[b].at \in BackupPlaces /\ backup[b].left \in Nat
      /\ wire \in [Backups -> Seq(Packets)] /\ wire[b] \in Seq(Packets)
  BY DEF TypeOK, Seat
<1>2. ASSUME NEW place \in {"loop", "file", "chunks"}, Reads(b, place)
      PROVE  Head(wire[b]) \in Packets /\ wire' \in [Backups -> Seq(Packets)]
  <2>1. wire[b] # <<>> /\ wire' = [wire EXCEPT ![b] = Tail(@)]
    BY <1>2 DEF Reads
  <2>2. Head(wire[b]) \in Packets /\ Tail(wire[b]) \in Seq(Packets)
    BY <1>1, <2>1
  <2> QED BY <1>1, <2>1, <2>2
<1>3. ASSUME backup' \in [Backups -> Seat],
             \A c \in Backups : backup'[c].at = "chunks" => backup'[c].left > 0
      PROVE  Counting'
  BY <1>3 DEF Counting
<1>4. CASE BackupConnects(b)
  <2>1. backup' \in [Backups -> Seat] /\ Counting'
    BY <1>1, <1>4 DEF BackupConnects, Counting, Seat, BackupPlaces
  <2> QED BY <1>4, <2>1 DEF TypeOK, BackupConnects, list, disk, history
<1>5. CASE BackupCrashes(b)
  <2>1. backup' \in [Backups -> Seat] /\ Counting'
    BY <1>1, <1>5 DEF BackupCrashes, Counting, Seat, BackupPlaces
  <2>2. wire' \in [Backups -> Seq(Packets)]
    BY <1>1, <1>5 DEF BackupCrashes
  <2> QED BY <1>5, <2>1, <2>2 DEF TypeOK, BackupCrashes, list, disk, history
<1>6. CASE BackupReadsEvent(b)
  <2>1. Reads(b, "loop")
    BY <1>6 DEF BackupReadsEvent
  <2>2. backup' \in [Backups -> Seat] /\ Counting'
    BY <1>1, <1>6, <2>1 DEF BackupReadsEvent, Counting, Seat, BackupPlaces
  <2>3. Head(wire[b]).about \in Nodes /\ wire' \in [Backups -> Seq(Packets)]
    BY <1>2, <2>1 DEF Packets
  <2>4. Head(wire[b]).kind = "REPLICA_ADDED" => Head(wire[b]).about \in Backups
    BY <1>2, <2>1 DEF Packets, Nodes
  <2>5. peers' \in [Backups -> SUBSET Backups]
    BY <1>6, <2>4 DEF TypeOK, BackupReadsEvent
  <2>6. misread' \in SUBSET Backups
    BY <1>6 DEF TypeOK, BackupReadsEvent
  <2> QED BY <2>1, <2>2, <2>3, <2>5, <2>6 DEF TypeOK, Reads, list, disk
<1>7. CASE BackupReadsFile(b)
  <2>1. Reads(b, "file")
    BY <1>7 DEF BackupReadsFile
  <2>2. Head(wire[b]).packets \in Nat /\ wire' \in [Backups -> Seq(Packets)]
    BY <1>2, <2>1 DEF Packets
  <2>3. backup' \in [Backups -> Seat] /\ Counting'
    <3>1. CASE Head(wire[b]).type \in {"send", "delete"}
      <4>1. backup' = [backup EXCEPT ![b] =
                          [at |-> IF Head(wire[b]).packets > 0 THEN "chunks" ELSE "loop",
                           left |-> Head(wire[b]).packets]]
        BY <1>7, <3>1 DEF BackupReadsFile
      <4> QED BY <1>1, <2>2, <4>1 DEF Counting, Seat, BackupPlaces
    <3>2. CASE Head(wire[b]).type \notin {"send", "delete"}
      <4>1. backup' = [backup EXCEPT ![b] = [at |-> "down", left |-> 0]]
        BY <1>7, <3>2 DEF BackupReadsFile
      <4> QED BY <1>1, <4>1 DEF Counting, Seat, BackupPlaces
    <3> QED BY <3>1, <3>2
  <2>4. misread' \in SUBSET Backups
    BY <1>7 DEF TypeOK, BackupReadsFile
  <2> QED BY <1>7, <2>1, <2>2, <2>3, <2>4 DEF TypeOK, BackupReadsFile, Reads, list, disk
<1>8. CASE BackupReadsChunk(b)
  <2>1. Reads(b, "chunks") /\ backup[b].left > 0
    BY <1>8 DEF BackupReadsChunk, Reads, Counting
  <2>2. wire' \in [Backups -> Seq(Packets)]
    BY <1>2, <2>1
  <2>3. backup' \in [Backups -> Seat] /\ Counting'
    BY <1>1, <1>8, <2>1 DEF BackupReadsChunk, Counting, Seat, BackupPlaces
  <2>4. misread' \in SUBSET Backups
    BY <1>8 DEF TypeOK, BackupReadsChunk
  <2> QED BY <1>8, <2>1, <2>2, <2>3, <2>4 DEF TypeOK, BackupReadsChunk, Reads, list, disk
<1> QED BY <1>4, <1>5, <1>6, <1>7, <1>8 DEF BackupStep

(* The listener keeps the news it accepted a replica for.                   *)
LEMMA TellingKept ==
    ASSUME TypeOK, Telling, [Next]_vars
    PROVE  Telling'
<1>1. "listener" \in Writers /\ writer \in [Writers -> Work] /\ writer["listener"] \in Work
  BY DEF TypeOK, Writers
<1>2. ASSUME writer' = writer PROVE Telling'
  BY <1>2 DEF Telling
<1>3. ASSUME NEW w \in Writers \ {"listener"}, NEW t, writer' = [writer EXCEPT ![w] = t]
      PROVE  Telling'
  BY <1>1, <1>3 DEF Telling
<1>4. ASSUME NEW t, t.kind = writer["listener"].kind, writer["listener"].at # "idle",
             writer' = [writer EXCEPT !["listener"] = t]
      PROVE  Telling'
  BY <1>1, <1>4 DEF Telling
<1>5. ASSUME writer'["listener"] = Idle PROVE Telling'
  BY <1>5 DEF Telling, Idle
<1>6. ASSUME NEW b \in Backups, ListenerAccepts(b) PROVE Telling'
  <2>1. writer'["listener"] = [Idle EXCEPT !.at = "insert", !.kind = "REPLICA_ADDED", !.new = b]
    BY <1>1, <1>6 DEF ListenerAccepts
  <2> QED BY <2>1 DEF Telling, Idle
<1>7. CASE ListenerInserts \/ ListenerCounts \/ ListenerTells
  BY <1>1, <1>7 DEF Telling, ListenerInserts, ListenerCounts, ListenerTells, Goes, At, Work
<1>8. CASE ListenerUnlocks
  BY <1>1, <1>5, <1>8 DEF ListenerUnlocks
<1>9. CASE HeartbeatDue \/ UserUploads \/ UserDeletes \/ FileChanges
  BY <1>1, <1>9 DEF Telling, HeartbeatDue, UserUploads, UserDeletes, FileChanges, Goes
<1>10. ASSUME NEW w \in Writers, NotifyLocks(w) PROVE Telling'
  BY <1>1, <1>10 DEF TypeOK, Telling, NotifyLocks, At, Work
<1>11. ASSUME NEW w \in Writers, OnTo(w), writer[w].at # "idle" PROVE Telling'
  BY <1>1, <1>11 DEF TypeOK, Telling, OnTo, Work
<1>12. ASSUME NEW w \in Writers, NEW place, Goes(w, place), writer[w].at # "idle" PROVE Telling'
  BY <1>1, <1>12 DEF TypeOK, Telling, Goes, Work
<1>13. ASSUME NEW w \in Writers, NotifyStep(w) PROVE Telling'
  <2>1. CASE NotifySends(w)
    BY <2>1, <1>11, <1>12 DEF NotifySends, At
  <2>2. CASE NotifyRemoves(w)
    BY <1>1, <2>2 DEF TypeOK, Telling, NotifyRemoves, At, Work
  <2>3. CASE NotifyOpens(w)
    <3>1. CASE file = NoFile
      BY <2>3, <3>1, <1>11 DEF NotifyOpens, At
    <3>2. CASE file # NoFile
      <4>1. writer[w].at = "open"
            /\ writer' = [writer EXCEPT ![w].at = "chunks", ![w].size = file, ![w].sent = 0]
        BY <2>3, <3>2 DEF NotifyOpens, At
      <4> QED BY <1>1, <4>1 DEF TypeOK, Telling, Work
    <3> QED BY <3>1, <3>2
  <2>4. CASE NotifyChunks(w)
    <3>1. CASE OnTo(w)
      BY <2>4, <3>1, <1>11 DEF NotifyChunks, At
    <3>2. CASE writer' = [writer EXCEPT ![w].sent = @ + 1]
      BY <1>1, <2>4, <3>2 DEF TypeOK, Telling, NotifyChunks, At, Work
    <3> QED BY <2>4, <3>1, <3>2 DEF NotifyChunks
  <2>5. CASE NotifyDeletes(w)
    BY <2>5, <1>11 DEF NotifyDeletes, At
  <2>6. CASE NotifyUnlocks(w)
    BY <1>1, <2>6 DEF TypeOK, Telling, NotifyUnlocks, Idle, At, Work
  <2> QED BY <1>13, <2>1, <2>2, <2>3, <2>4, <2>5, <2>6 DEF NotifyStep
<1>14. ASSUME NEW w \in Writers, Dangling(w) PROVE Telling'
  BY <1>2, <1>14 DEF Dangling
<1>15. ASSUME NEW b \in Backups, BackupConnects(b) \/ BackupCrashes(b) \/ BackupStep(b)
       PROVE  Telling'
  BY <1>2, <1>15 DEF BackupConnects, BackupCrashes, BackupStep, BackupReadsEvent,
                     BackupReadsFile, BackupReadsChunk, Reads
<1>16. CASE UNCHANGED vars
  BY <1>2, <1>16 DEF vars
<1>17. "heartbeat" \in Writers /\ "user" \in Writers
  BY DEF Writers
<1> QED BY <1>1, <1>6, <1>7, <1>8, <1>9, <1>10, <1>13, <1>14, <1>15, <1>16, <1>17
        DEF Next, ListenerStep, HeartbeatStep

LEMMA StepTypes ==
    TypeOK /\ Counting /\ Telling /\ [Next]_vars => TypeOK' /\ Counting' /\ Telling'
<1> SUFFICES ASSUME TypeOK, Counting, Telling, [Next]_vars PROVE TypeOK' /\ Counting'
  BY TellingKept
<1>1. ASSUME NEW w \in Writers, Dangling(w) PROVE TypeOK' /\ Counting'
  BY <1>1 DEF TypeOK, Counting, Dangling, list, disk, backups, history
<1>2. CASE UNCHANGED vars
  BY <1>2 DEF TypeOK, Counting, vars, list, disk, backups, history
<1>3. "listener" \in Writers /\ "heartbeat" \in Writers /\ "user" \in Writers
  BY DEF Writers
<1> QED BY <1>1, <1>2, <1>3, ListenerTypes, UserTypes, NotifyTypes, BackupTypes
        DEF Next, ListenerStep, HeartbeatStep

(* Every field of the list, the threads, the connections and the backups    *)
(* keeps its type: for one, a backup that counts packets down stops at 0.   *)
THEOREM TypeCorrect == Spec => []TypeOK
<1>1. TypeOK /\ Counting /\ Telling /\ [Next]_vars => (TypeOK /\ Counting /\ Telling)'
  BY StepTypes
<1> QED BY InitTypes, <1>1, PTL DEF Spec


-----------------------------------------------------------------------------
(* The mutex and the list.                                                  *)

LEMMA ThreadNames ==
    "listener" \in Writers /\ "heartbeat" \in Writers /\ "user" \in Writers
BY DEF Writers

LEMMA InitIInv == Init => IInv
<1> SUFFICES ASSUME Init PROVE IInv
  OBVIOUS
<1>1. \A w \in Writers : writer[w].at = "idle"
  BY DEF Init, Idle
<1>2. Members = {}
  BY DEF Init, Members, Inserted
<1>3. Roles /\ Joining /\ Exclusive /\ Placed /\ DanglesOnlyUnlocked
  BY <1>1, ThreadNames DEF Init, Roles, Joining, Exclusive, Inside, Placed, DanglesOnlyUnlocked
<1>4. Linked
  <2>1. Acyclic
    <3>1. [b \in Backups |-> 0] \in [Backups -> Nat]
      OBVIOUS
    <3> QED BY <1>2, <3>1 DEF Acyclic
  <2> QED BY <1>2, <2>1 DEF Init, Linked
<1> QED BY InitTypes, <1>3, <1>4 DEF IInv, Types

(* What Members and Inserted depend on.                                        *)
LEMMA SameInserted ==
    ASSUME \A b \in Backups : backup'[b].at = "out" <=> backup[b].at = "out",
           arriving' = arriving,
           writer'["listener"].at = "insert" <=> writer["listener"].at = "insert",
           writer["listener"].at = "insert" => writer'["listener"].new = writer["listener"].new
    PROVE  \A b \in Backups : Inserted(b)' <=> Inserted(b)
BY DEF Inserted

LEMMA SameList ==
    ASSUME Linked, UNCHANGED <<head, next, freed>>,
           \A b \in Backups : Inserted(b)' <=> Inserted(b)
    PROVE  Linked' /\ Members' = Members
<1>1. Members' = Members
  BY DEF Members
<1>2. Acyclic'
  BY <1>1 DEF Linked, Acyclic
<1> QED BY <1>1, <1>2 DEF Linked

(* A thread that neither takes the mutex nor changes the list.              *)
LEMMA QuietStep ==
    ASSUME IInv, running, Types', NEW w \in Writers,
           \A v \in Writers \ {w} : writer'[v] = writer[v],
           UNCHANGED <<running, owner, head, next, freed, arriving, breached>>,
           \A b \in Backups : backup'[b].at = "out" <=> backup[b].at = "out",
           writer[w].at # "insert" /\ writer'[w].at # "insert",
           w # "listener" => writer'[w].at \notin {"count", "tell"},
           Inside(w)' => Inside(w) /\ (Linked /\ PlacedAt(w) => PlacedAt(w)')
    PROVE  IInv'
<1>1. \A b \in Backups : Inserted(b)' <=> Inserted(b)
  BY SameInserted, ThreadNames
<1>2. Roles'
  BY DEF IInv, Roles
<1>3. Joining'
  BY ThreadNames DEF IInv, Types, TypeOK, Joining
<1>4. Exclusive'
  BY DEF IInv, Exclusive, Inside
<1>5. ASSUME ~breached' PROVE Linked' /\ Placed'
  <2>1. Linked /\ Placed
    BY <1>5 DEF IInv
  <2>2. Linked' /\ Members' = Members
    BY <2>1, <1>1, SameList
  <2>3. ASSUME NEW v \in Writers, Inside(v)' PROVE PlacedAt(v)'
    <3>1. CASE v = w
      BY <3>1, <2>1, <2>3 DEF Placed
    <3>2. CASE v # w
      BY <3>2, <2>1, <2>2, <2>3 DEF Placed, PlacedAt, Inside
    <3> QED BY <3>1, <3>2
  <2> QED BY <2>2, <2>3 DEF Placed
<1>6. DanglesOnlyUnlocked'
  BY DEF DanglesOnlyUnlocked
<1> QED BY <1>2, <1>3, <1>4, <1>5, <1>6 DEF IInv

LEMMA WriterIsFunction ==
    ASSUME Types
    PROVE  /\ writer \in [Writers -> Work]
           /\ \A w \in Writers : writer[w] \in Work
BY DEF Types, TypeOK

LEMMA AcceptsKeeps ==
    ASSUME IInv, Types', NEW b \in Backups, ListenerAccepts(b)
    PROVE  IInv'
<1>1. /\ writer["listener"].at = "idle"
      /\ writer'["listener"].at = "insert" /\ writer'["listener"].new = b
      /\ \A v \in Writers \ {"listener"} : writer'[v] = writer[v]
  BY ThreadNames, WriterIsFunction DEF IInv, ListenerAccepts, At, Idle
<1>2. UNCHANGED <<running, owner, head, next, freed, backup, breached>>
  BY DEF ListenerAccepts, list, backups, history
<1>3. \A c \in Backups : Inserted(c)' <=> Inserted(c)
  BY <1>1, <1>2 DEF Inserted, ListenerAccepts
<1>4. Roles'
  BY <1>1 DEF IInv, Roles
<1>5. Joining'
  BY <1>1, <1>2 DEF IInv, Joining, ListenerAccepts
<1>6. Exclusive'
  BY <1>1, <1>2 DEF IInv, Exclusive, Inside
<1>7. ASSUME ~breached' PROVE Linked' /\ Placed'
  <2>1. Linked /\ Placed
    BY <1>2, <1>7 DEF IInv
  <2>2. Linked' /\ Members' = Members
    BY <2>1, <1>2, <1>3, SameList
  <2> QED BY <2>1, <2>2, <1>1, <1>2 DEF Placed, PlacedAt, Inside
<1>8. DanglesOnlyUnlocked'
  BY <1>2 DEF DanglesOnlyUnlocked, ListenerAccepts, At
<1> QED BY <1>4, <1>5, <1>6, <1>7, <1>8 DEF IInv

LEMMA InsertsKeeps ==
    ASSUME IInv, Types', ListenerInserts
    PROVE  IInv'
<1> DEFINE new == writer["listener"].new
<1>1. /\ writer["listener"].at = "insert" /\ running /\ owner = NULL
      /\ writer'["listener"].at = "count"
      /\ \A v \in Writers \ {"listener"} : writer'[v] = writer[v]
  BY ThreadNames, WriterIsFunction DEF IInv, ListenerInserts, At, Goes, Work
<1>2. UNCHANGED <<running, owner, freed, arriving, backup, breached>>
      /\ head' = new /\ next' = [next EXCEPT ![new] = head]
  BY DEF ListenerInserts, backups, history
<1>3. new \in Backups \ arriving /\ backup[new].at # "out"
  BY <1>1 DEF IInv, Joining
<1>4. Roles' /\ Joining' /\ DanglesOnlyUnlocked'
  BY <1>1, <1>2 DEF IInv, Roles, Joining, DanglesOnlyUnlocked
<1>5. \A w \in Writers : Inside(w) => breached
  BY <1>1, NullApart DEF IInv, Exclusive
<1>6. \A w \in Writers : Inside(w)' => Inside(w)
  BY <1>1 DEF Inside
<1>7. Exclusive'
  BY <1>2, <1>5, <1>6 DEF Exclusive
<1>8. ASSUME ~breached' PROVE Linked' /\ Placed'
  <2>1. Linked
    BY <1>2, <1>8 DEF IInv
  <2>2. Placed'
    BY <1>2, <1>5, <1>6, <1>8 DEF Placed
  <2>3. \A c \in Backups : Inserted(c)' <=> Inserted(c) \/ c = new
    BY <1>1, <1>2, <1>3 DEF Inserted
  <2>4. ~Inserted(new)
    BY <1>1 DEF Inserted
  <2>5. new \notin freed /\ new \notin Members /\ Members' = Members \cup {new}
    BY <2>1, <2>3, <2>4, <1>2, <1>3 DEF Linked, Members
  <2>6. next \in [Backups -> Nodes] /\ Members \subseteq Backups
    BY DEF IInv, Types, TypeOK, Members
  <2>7. \A c \in Members : next'[c] = next[c]
    BY <2>5, <2>6, <1>2
  <2>8. next'[new] = head
    BY <2>6, <1>2, <1>3
  <2>9. freed' \subseteq {c \in Backups : Inserted(c)'}
    BY <2>1, <2>3, <1>2 DEF Linked
  <2>10. head' \in Members' \cup {NULL}
    BY <2>5, <1>2
  <2>11. \A c \in Members' : next'[c] \in Members' \cup {NULL}
    BY <2>1, <2>5, <2>7, <2>8 DEF Linked
  <2>12. \A c \in Members' : next'[c] # NULL => next'[c] # head'
    BY <2>1, <2>5, <2>7, <2>8, <1>2, <1>3, NullApart DEF Linked
  <2>13. \A c, d \in Members' : next'[c] = next'[d] /\ next'[c] # NULL => c = d
    BY <2>1, <2>5, <2>7, <2>8 DEF Linked
  <2>14. \A c \in Members' \ {head'} : \E d \in Members' : next'[d] = c
    BY <2>1, <2>5, <2>7, <2>8, <1>2 DEF Linked
  <2>15. Acyclic'
    <3>1. PICK rank \in [Backups -> Nat] :
             \A c \in Members : next[c] # NULL => rank[next[c]] < rank[c]
      BY <2>1 DEF Linked, Acyclic
    <3> DEFINE top == IF head = NULL THEN 0 ELSE rank[head] + 1
               higher == [rank EXCEPT ![new] = top]
    <3>2. head # NULL => head \in Members
      BY <2>1 DEF Linked
    <3>3. top \in Nat
      BY <3>1, <3>2, <2>6
    <3>4. higher \in [Backups -> Nat] /\ higher[new] = top
          /\ \A c \in Members : higher[c] = rank[c]
      BY <3>1, <3>3, <2>5, <2>6, <1>3
    <3>5. ASSUME NEW c \in Members', next'[c] # NULL PROVE higher[next'[c]] < higher[c]
      <4>1. CASE c = new
        BY <4>1, <3>1, <3>2, <3>4, <3>5, <2>6, <2>8
      <4>2. CASE c # new
        <5>1. c \in Members /\ next[c] \in Members
          BY <4>2, <3>5, <2>1, <2>5, <2>7 DEF Linked
        <5> QED BY <5>1, <3>1, <3>4, <3>5, <2>7
      <4> QED BY <4>1, <4>2
    <3> HIDE DEF top, higher
    <3> QED BY <3>4, <3>5 DEF Acyclic
  <2> QED BY <2>2, <2>9, <2>10, <2>11, <2>12, <2>13, <2>14, <2>15
         DEF Linked
<1> QED BY <1>4, <1>7, <1>8 DEF IInv

LEMMA ListenerQuietKeeps ==
    ASSUME IInv, Types', ListenerCounts \/ ListenerTells
    PROVE  IInv'
<1>1. running /\ writer["listener"].at \in {"count", "tell"}
  BY DEF ListenerCounts, ListenerTells, At
<1>2. /\ writer'["listener"].at \in {"lock", "tell"}
      /\ \A v \in Writers \ {"listener"} : writer'[v] = writer[v]
  BY <1>1, ThreadNames, WriterIsFunction
     DEF IInv, ListenerCounts, ListenerTells, Goes, At, Work
<1>3. UNCHANGED <<running, owner, head, next, freed, arriving, backup, breached>>
  BY DEF ListenerCounts, ListenerTells, list, backups, history
<1> QED BY <1>1, <1>2, <1>3, QuietStep, ThreadNames DEF Inside

LEMMA ListenerUnlocksKeeps ==
    ASSUME IInv, Types', ListenerUnlocks
    PROVE  IInv'
<1>1. running /\ writer["listener"].at = "tell" /\ writer'["listener"].at = "idle"
      /\ \A v \in Writers \ {"listener"} : writer'[v] = writer[v]
  BY ThreadNames, WriterIsFunction DEF IInv, ListenerUnlocks, Idle, At
<1>2. UNCHANGED <<running, head, next, freed, arriving, backup>>
      /\ breached' = (breached \/ owner # NULL)
  BY DEF ListenerUnlocks, list, backups
<1>3. \A w \in Writers : Inside(w)' => Inside(w)
  BY <1>1 DEF Inside
<1>4. ~breached' => \A w \in Writers : ~Inside(w)
  BY <1>2, NullApart DEF IInv, Exclusive
<1>5. \A b \in Backups : Inserted(b)' <=> Inserted(b)
  BY <1>1, <1>2, SameInserted
<1>6. Roles' /\ Joining' /\ DanglesOnlyUnlocked'
  BY <1>1, <1>2 DEF IInv, Roles, Joining, DanglesOnlyUnlocked
<1>7. Types => breached \in BOOLEAN
  BY DEF Types, TypeOK
<1>8. Exclusive'
  BY <1>3, <1>4 DEF Exclusive
<1>9. ASSUME ~breached' PROVE Linked' /\ Placed'
  <2>1. Linked
    BY <1>2, <1>9 DEF IInv
  <2>2. Linked'
    BY <2>1, <1>2, <1>5, SameList
  <2> QED BY <2>2, <1>3, <1>4, <1>9 DEF Placed
<1> QED BY <1>6, <1>8, <1>9 DEF IInv

LEMMA DueKeeps ==
    ASSUME IInv, Types', HeartbeatDue \/ UserUploads \/ UserDeletes
    PROVE  IInv'
<1>1. PICK w \in Writers \ {"listener"} :
         /\ running /\ writer[w].at = "idle" /\ writer'[w].at = "lock"
         /\ \A v \in Writers \ {w} : writer'[v] = writer[v]
  <2>1. CASE HeartbeatDue
    BY <2>1, WriterIsFunction, ThreadNames DEF IInv, HeartbeatDue, Goes, At, Work
  <2>2. CASE UserUploads \/ UserDeletes
    <3>1. /\ running /\ writer["user"].at = "idle"
          /\ \E kind \in Kinds :
                writer' = [writer EXCEPT !["user"] = [Idle EXCEPT !.at = "lock", !.kind = kind]]
      BY <2>2 DEF UserUploads, UserDeletes, At, Kinds
    <3>2. writer'["user"].at = "lock" /\ \A v \in Writers \ {"user"} : writer'[v] = writer[v]
      BY <3>1, WriterIsFunction, ThreadNames DEF IInv, Idle
    <3> QED BY <3>1, <3>2, ThreadNames
  <2> QED BY <2>1, <2>2
<1>2. UNCHANGED <<running, owner, head, next, freed, arriving, backup, breached>>
  BY DEF HeartbeatDue, UserUploads, UserDeletes, list, backups, history
<1> QED BY <1>1, <1>2, QuietStep DEF Inside

LEMMA FileChangesKeeps ==
    ASSUME IInv, Types', FileChanges
    PROVE  IInv'
<1>1. writer'["user"].at = writer["user"].at /\ writer'["user"].current = writer["user"].current
      /\ writer'["user"].prev = writer["user"].prev
      /\ \A v \in Writers \ {"user"} : writer'[v] = writer[v]
  BY WriterIsFunction, ThreadNames DEF IInv, FileChanges, Work
<1>2. UNCHANGED <<running, owner, head, next, freed, arriving, backup, breached>> /\ running
  BY DEF FileChanges, list, backups
<1>3. Members' = Members
  BY <1>1, <1>2, ThreadNames DEF Members, Inserted
<1>4. writer["user"].at \notin {"insert", "count", "tell"}
  BY ThreadNames DEF IInv, Roles
<1>5. PlacedAt("user") => PlacedAt("user")'
  BY <1>1, <1>2, <1>3 DEF PlacedAt
<1> QED BY <1>1, <1>2, <1>4, <1>5, QuietStep, ThreadNames DEF Inside

LEMMA LocksKeeps ==
    ASSUME IInv, Types', NEW w \in Writers, NotifyLocks(w)
    PROVE  IInv'
<1>1. /\ running /\ writer[w].at = "lock" /\ owner = NULL /\ owner' = w
      /\ writer'[w].at = "node" /\ writer'[w].current = head /\ writer'[w].prev = NULL
      /\ \A v \in Writers \ {w} : writer'[v] = writer[v]
  BY WriterIsFunction DEF IInv, NotifyLocks, At, Work
<1>2. UNCHANGED <<running, head, next, freed, arriving, backup, breached>>
  BY DEF NotifyLocks, list, backups, history
<1>3. \A v \in Writers : Inside(v) => breached
  BY <1>1, NullApart DEF IInv, Exclusive
<1>4. \A v \in Writers \ {w} : Inside(v)' => Inside(v)
  BY <1>1 DEF Inside
<1>5. Roles' /\ Joining' /\ DanglesOnlyUnlocked'
  BY <1>1, <1>2, ThreadNames DEF IInv, Roles, Joining, DanglesOnlyUnlocked
<1>6. Exclusive'
  BY <1>1, <1>2, <1>3, <1>4 DEF Exclusive
<1>7. ASSUME ~breached' PROVE Linked' /\ Placed'
  <2>1. Linked
    BY <1>2, <1>7 DEF IInv
  <2>2. \A b \in Backups : Inserted(b)' <=> Inserted(b)
    BY <1>1, <1>2, SameInserted, ThreadNames
  <2>3. Linked' /\ Members' = Members
    BY <2>1, <2>2, <1>2, SameList
  <2>4. PlacedAt(w)'
    BY <1>1, <1>2, <2>1, <2>3 DEF PlacedAt, Linked
  <2> QED BY <2>3, <2>4, <1>2, <1>3, <1>4, <1>7 DEF Placed
<1> QED BY <1>5, <1>6, <1>7 DEF IInv

(* On to the next node, the mutex held.                                     *)
LEMMA OnToPlaced ==
    ASSUME Types, Linked, NEW w \in Writers, PlacedAt(w), Sound(w),
           writer'[w].current = next[writer[w].current],
           writer'[w].prev = writer[w].current,
           UNCHANGED <<head, next>>, Members' = Members
    PROVE  PlacedAt(w)'
BY DEF Linked, PlacedAt, Sound

LEMMA PassesKeeps ==
    ASSUME IInv, Types', NEW w \in Writers,
           NotifySends(w) \/ NotifyOpens(w) \/ NotifyChunks(w) \/ NotifyDeletes(w)
    PROVE  IInv'
<1>1. running /\ writer[w].at \in {"node", "open", "chunks", "delete"} /\ Sound(w)
  BY DEF NotifySends, NotifyOpens, NotifyChunks, NotifyDeletes, At
<1>2. UNCHANGED <<running, owner, head, next, freed, arriving, backup, breached>>
  BY DEF NotifySends, NotifyOpens, NotifyChunks, NotifyDeletes, list, history
<1>3. /\ writer'[w].at \in {"node", "open", "chunks", "delete"}
      /\ \A v \in Writers \ {w} : writer'[v] = writer[v]
      /\ \/ /\ writer'[w].current = next[writer[w].current]
            /\ writer'[w].prev = writer[w].current
         \/ writer'[w].current = writer[w].current /\ writer'[w].prev = writer[w].prev
  <2>1. CASE OnTo(w)
    BY <2>1, WriterIsFunction DEF IInv, OnTo, Work
  <2>2. CASE \E place \in {"open", "delete"} : Goes(w, place)
    BY <2>2, WriterIsFunction DEF IInv, Goes, Work
  <2>3. CASE writer' = [writer EXCEPT ![w].at = "chunks", ![w].size = file, ![w].sent = 0]
    BY <2>3, WriterIsFunction DEF IInv, Work
  <2>4. CASE writer' = [writer EXCEPT ![w].sent = @ + 1]
    BY <1>1, <2>4, WriterIsFunction DEF IInv, Work
  <2> QED BY <2>1, <2>2, <2>3, <2>4 DEF NotifySends, NotifyOpens, NotifyChunks, NotifyDeletes
<1>4. Members' = Members
  BY <1>1, <1>2, <1>3, ThreadNames DEF Members, Inserted
<1>5. Linked /\ PlacedAt(w) => PlacedAt(w)'
  <2>1. SUFFICES ASSUME Linked, PlacedAt(w) PROVE PlacedAt(w)'
    OBVIOUS
  <2>2. CASE /\ writer'[w].current = next[writer[w].current]
             /\ writer'[w].prev = writer[w].current
    BY <1>1, <1>2, <1>4, <2>1, <2>2, OnToPlaced DEF IInv
  <2>3. CASE writer'[w].current = writer[w].current /\ writer'[w].prev = writer[w].prev
    BY <1>2, <1>4, <2>1, <2>3 DEF PlacedAt
  <2> QED BY <1>3, <2>2, <2>3
<1> QED BY <1>1, <1>2, <1>3, <1>5, QuietStep DEF Inside

LEMMA NotifyUnlocksKeeps ==
    ASSUME IInv, Types', NEW w \in Writers, NotifyUnlocks(w)
    PROVE  IInv'
<1>1. /\ running /\ writer[w].at = "node" /\ owner' = NULL
      /\ writer'[w].at = (IF w = "listener" THEN "tell" ELSE "idle")
      /\ \A v \in Writers \ {w} : writer'[v] = writer[v]
  BY WriterIsFunction DEF IInv, NotifyUnlocks, At, Idle, Work
<1>2. UNCHANGED <<running, head, next, freed, arriving, backup, breached>>
  BY DEF NotifyUnlocks, list, backups, history
<1>3. \A v \in Writers \ {w} : Inside(v) => breached
  BY <1>1, NullApart DEF IInv, Exclusive, Inside
<1>4. \A v \in Writers : Inside(v)' => Inside(v) /\ v # w
  BY <1>1 DEF Inside
<1>5. Roles' /\ Joining' /\ DanglesOnlyUnlocked'
  BY <1>1, <1>2, ThreadNames DEF IInv, Roles, Joining, DanglesOnlyUnlocked
<1>6. Exclusive'
  BY <1>2, <1>3, <1>4 DEF Exclusive
<1>7. ASSUME ~breached' PROVE Linked' /\ Placed'
  <2>1. Linked
    BY <1>2, <1>7 DEF IInv
  <2>2. \A b \in Backups : Inserted(b)' <=> Inserted(b)
    BY <1>1, <1>2, SameInserted, ThreadNames
  <2> QED BY <2>1, <2>2, <1>2, <1>3, <1>4, <1>7, SameList DEF Placed
<1> QED BY <1>5, <1>6, <1>7 DEF IInv

(* replica_list_remove_node keeps the list in one piece.                    *)
LEMMA UnlinkKeepsLinked ==
    ASSUME Types, Linked, NEW w \in Writers, PlacedAt(w), Sound(w),
           Unlink(writer[w].prev, writer[w].current),
           freed' = freed \cup {writer[w].current},
           writer'[w].current = next[writer[w].current], writer'[w].prev = writer[w].prev,
           \A c \in Backups : Inserted(c)' <=> Inserted(c)
    PROVE  Linked' /\ PlacedAt(w)'
<1> DEFINE b == writer[w].current
           prev == writer[w].prev
<1>1. b \in Members /\ b \in Backups /\ b # NULL
  BY NullApart DEF PlacedAt, Sound, Members
<1>2. Members' = Members \ {b} /\ Members \subseteq Backups
  BY DEF Members
<1>3. next \in [Backups -> Nodes]
  BY DEF Types, TypeOK
<1>4. PICK rank \in [Backups -> Nat] : \A c \in Members : next[c] # NULL => rank[next[c]] < rank[c]
  BY DEF Linked, Acyclic
<1>5. next[b] \in Members \cup {NULL} /\ next[b] # b
  BY <1>1, <1>2, <1>4 DEF Linked
<1>6. freed' \subseteq {c \in Backups : Inserted(c)'}
  BY <1>1 DEF Linked, Members
<1>7. CASE prev = NULL
  <2>1. head = b /\ head' = next[b] /\ next' = next
    BY <1>7 DEF PlacedAt, Unlink
  <2>2. \A c \in Members' : next[c] # b
    BY <1>1, <1>2, <2>1 DEF Linked
  <2>3. \A c \in Members' : next[c] # NULL => next[c] # next[b]
    BY <1>1, <1>2 DEF Linked
  <2>4. Acyclic'
    BY <1>2, <1>4, <2>1 DEF Acyclic
  <2>5. \A c \in Members' \ {head'} : \E d \in Members' : next'[d] = c
    BY <1>2, <2>1 DEF Linked
  <2>6. Linked'
    BY <1>2, <1>5, <1>6, <2>1, <2>2, <2>3, <2>4, <2>5 DEF Linked
  <2> QED BY <1>2, <1>5, <1>7, <2>1, <2>6 DEF PlacedAt
<1>8. CASE prev # NULL
  <2>1. /\ prev \in Members /\ next[prev] = b
        /\ head' = head /\ next' = [next EXCEPT ![prev] = next[b]]
    BY <1>8 DEF PlacedAt, Unlink
  <2>2. prev # b
    BY <1>5, <2>1
  <2>3. next'[prev] = next[b] /\ \A c \in Backups \ {prev} : next'[c] = next[c]
    BY <1>2, <1>3, <2>1
  <2>4. head # b
    BY <1>1, <2>1 DEF Linked
  <2>5. \A c \in Members \ {prev} : next[c] # b
    BY <1>1, <2>1 DEF Linked
  <2>6. \A c \in Members : next[c] = next[b] /\ next[b] # NULL => c = b
    BY <1>1 DEF Linked
  <2>7. \A c \in Members' : next'[c] \in Members' \cup {NULL}
    BY <1>2, <1>5, <2>3, <2>5 DEF Linked
  <2>8. \A c \in Members' : next'[c] # NULL => next'[c] # head'
    BY <1>1, <1>2, <2>1, <2>3 DEF Linked
  <2>9. \A c, d \in Members' : next'[c] = next'[d] /\ next'[c] # NULL => c = d
    BY <1>2, <2>3, <2>6 DEF Linked
  <2>10. \A c \in Members' : next'[c] # NULL => rank[next'[c]] < rank[c]
    <3>1. ASSUME next[b] # NULL PROVE rank[next[b]] < rank[prev]
      <4>1. rank[next[b]] < rank[b] /\ rank[b] < rank[prev]
        BY <1>1, <1>4, <2>1, <3>1
      <4>2. next[b] \in Backups /\ prev \in Backups
        BY <1>2, <1>5, <2>1, <3>1
      <4> QED BY <1>1, <4>1, <4>2
    <3> QED BY <1>2, <1>4, <2>3, <3>1
  <2>11. Acyclic'
    BY <2>10 DEF Acyclic
  <2>12. head' \in Members' \cup {NULL}
    BY <1>2, <2>1, <2>4 DEF Linked
  <2>13. \A c \in Members' \ {head'} : \E d \in Members' : next'[d] = c
    <3> SUFFICES ASSUME NEW c \in Members' \ {head'} PROVE \E d \in Members' : next'[d] = c
      OBVIOUS
    <3>1. PICK a \in Members : next[a] = c
      BY <1>2, <2>1 DEF Linked
    <3>2. CASE a = b
      BY <1>2, <2>1, <2>2, <2>3, <3>1, <3>2
    <3>3. CASE a # b
      BY <1>2, <2>1, <2>3, <3>1, <3>3
    <3> QED BY <3>2, <3>3
  <2>14. Linked'
    BY <1>6, <2>7, <2>8, <2>9, <2>11, <2>12, <2>13 DEF Linked
  <2>15. PlacedAt(w)'
    BY <1>2, <1>5, <1>8, <2>1, <2>2, <2>3 DEF PlacedAt
  <2> QED BY <2>14, <2>15
<1> QED BY <1>7, <1>8

LEMMA RemovesKeeps ==
    ASSUME IInv, Types', NEW w \in Writers, NotifyRemoves(w)
    PROVE  IInv'
<1>1. /\ running /\ writer[w].at = "node" /\ writer'[w].at = "node" /\ Sound(w)
      /\ writer'[w].current = next[writer[w].current] /\ writer'[w].prev = writer[w].prev
      /\ \A v \in Writers \ {w} : writer'[v] = writer[v]
  BY WriterIsFunction DEF IInv, NotifyRemoves, At, Work
<1>2. UNCHANGED <<running, owner, arriving, backup, breached>>
  BY DEF NotifyRemoves, backups, history
<1>3. \A v \in Writers : Inside(v) => breached \/ v = w
  BY <1>1 DEF IInv, Exclusive, Inside
<1>4. \A v \in Writers : Inside(v)' <=> Inside(v)
  BY <1>1 DEF Inside
<1>5. Roles' /\ Joining' /\ DanglesOnlyUnlocked'
  BY <1>1, <1>2, ThreadNames DEF IInv, Roles, Joining, DanglesOnlyUnlocked
<1>6. Exclusive'
  BY <1>2, <1>4 DEF IInv, Exclusive
<1>7. ASSUME ~breached' PROVE Linked' /\ Placed'
  <2>1. Linked /\ PlacedAt(w)
    BY <1>1, <1>2, <1>7 DEF IInv, Placed, Inside
  <2>2. \A b \in Backups : Inserted(b)' <=> Inserted(b)
    BY <1>1, <1>2, SameInserted, ThreadNames
  <2>3. Linked' /\ PlacedAt(w)'
    BY <1>1, <2>1, <2>2, UnlinkKeepsLinked DEF IInv, NotifyRemoves
  <2> QED BY <2>3, <1>2, <1>3, <1>4, <1>7 DEF Placed
<1> QED BY <1>5, <1>6, <1>7 DEF IInv

LEMMA BackupInserts ==
    ASSUME TypeOK, NEW b \in Backups,
           BackupConnects(b) \/ BackupCrashes(b) \/ BackupStep(b)
    PROVE  /\ \A c \in Backups \ {b} : backup'[c] = backup[c]
           /\ backup'[b].at # "out"
           /\ \/ backup[b].at # "out" /\ arriving' = arriving
              \/ backup[b].at = "out" /\ arriving' = arriving \cup {b}
           /\ \A c \in Backups : Inserted(c)' <=> Inserted(c)
<1>1. UNCHANGED writer
  BY DEF BackupConnects, BackupCrashes, BackupStep, BackupReadsEvent, BackupReadsFile,
         BackupReadsChunk, Reads
<1>2. backup \in [Backups -> Seat] /\ arriving \subseteq Backups
  BY DEF TypeOK
<1>3. /\ \A c \in Backups \ {b} : backup'[c] = backup[c]
      /\ backup'[b].at # "out"
      /\ \/ backup[b].at # "out" /\ arriving' = arriving
         \/ backup[b].at = "out" /\ arriving' = arriving \cup {b}
  <2>1. CASE BackupConnects(b)
    BY <1>2, <2>1 DEF BackupConnects, Seat
  <2>2. CASE BackupCrashes(b)
    BY <1>2, <2>2 DEF BackupCrashes, Seat
  <2>3. CASE BackupReadsEvent(b)
    BY <1>2, <2>3 DEF BackupReadsEvent, Reads, Seat
  <2>4. CASE BackupReadsFile(b)
    BY <1>2, <2>4 DEF BackupReadsFile, Reads, Seat
  <2>5. CASE BackupReadsChunk(b)
    BY <1>2, <2>5 DEF BackupReadsChunk, Reads, Seat
  <2> QED BY <2>1, <2>2, <2>3, <2>4, <2>5 DEF BackupStep
<1>4. \A c \in Backups : Inserted(c)' <=> Inserted(c)
  BY <1>1, <1>3 DEF Inserted
<1> QED BY <1>3, <1>4

LEMMA BackupKeeps ==
    ASSUME IInv, Types', NEW b \in Backups,
           BackupConnects(b) \/ BackupCrashes(b) \/ BackupStep(b)
    PROVE  IInv'
<1>1. UNCHANGED <<running, owner, head, next, freed, writer, breached>> /\ running
  BY DEF BackupConnects, BackupCrashes, BackupStep, BackupReadsEvent, BackupReadsFile,
         BackupReadsChunk, Reads, list, history
<1>2. backup \in [Backups -> Seat] /\ arriving \subseteq Backups
  BY DEF IInv, Types, TypeOK
<1>3. /\ \A c \in Backups \ {b} : backup'[c] = backup[c]
      /\ backup'[b].at # "out"
      /\ \/ backup[b].at # "out" /\ arriving' = arriving
         \/ backup[b].at = "out" /\ arriving' = arriving \cup {b}
      /\ \A c \in Backups : Inserted(c)' <=> Inserted(c)
  BY BackupInserts DEF IInv, Types
<1>4. \A c \in Backups : Inserted(c)' <=> Inserted(c)
  BY <1>3
<1>5. Joining'
  BY <1>1, <1>2, <1>3 DEF IInv, Joining
<1>6. Roles' /\ Exclusive' /\ DanglesOnlyUnlocked'
  BY <1>1 DEF IInv, Roles, Exclusive, Inside, DanglesOnlyUnlocked
<1>7. ASSUME ~breached' PROVE Linked' /\ Placed'
  <2>1. Linked /\ Placed
    BY <1>1, <1>7 DEF IInv
  <2>2. Linked' /\ Members' = Members
    BY <2>1, <1>1, <1>4, SameList
  <2> QED BY <1>1, <2>1, <2>2 DEF Placed, PlacedAt, Inside
<1> QED BY <1>5, <1>6, <1>7 DEF IInv

(* A thread that holds the mutex is at a node that was not freed.           *)
LEMMA DanglingKeeps ==
    ASSUME IInv, Types', NEW w \in Writers, Dangling(w)
    PROVE  IInv'
<1>1. UNCHANGED <<owner, head, next, freed, writer, arriving, backup, breached>>
  BY DEF Dangling, list, backups, history
<1>2. \A c \in Backups : Inserted(c)' <=> Inserted(c)
  BY <1>1 DEF Inserted
<1>3. Roles' /\ Joining' /\ Exclusive'
  BY <1>1 DEF IInv, Roles, Joining, Exclusive, Inside
<1>4. ASSUME ~breached' PROVE Linked' /\ Placed'
  <2>1. Linked /\ Placed
    BY <1>1, <1>4 DEF IInv
  <2>2. Linked' /\ Members' = Members
    BY <2>1, <1>1, <1>2, SameList
  <2> QED BY <1>1, <2>1, <2>2 DEF Placed, PlacedAt, Inside
<1>5. DanglesOnlyUnlocked'
  <2>1. CASE Inside(w) /\ ~breached
    <3>1. PlacedAt(w)
      BY <2>1 DEF IInv, Placed
    <3>2. writer[w].current \notin freed
      BY <3>1, NullApart DEF PlacedAt, Members, IInv, Types, TypeOK
    <3> QED BY <3>2 DEF Dangling
  <2>2. CASE ~Inside(w)
    BY <2>2, <1>1 DEF IInv, Roles, Inside, Dangling, DanglesOnlyUnlocked
  <2>3. CASE breached
    BY <2>3, <1>1 DEF DanglesOnlyUnlocked
  <2> QED BY <2>1, <2>2, <2>3
<1> QED BY <1>3, <1>4, <1>5 DEF IInv

LEMMA StepIInv == IInv /\ [Next]_vars => IInv'
<1> SUFFICES ASSUME IInv, [Next]_vars PROVE IInv'
  OBVIOUS
<1>1. Types'
  BY StepTypes DEF IInv, Types
<1>2. CASE UNCHANGED vars
  <2>1. UNCHANGED <<running, owner, head, next, freed, writer, arriving, backup, breached>>
    BY <1>2 DEF vars, list, backups, history
  <2>2. \A c \in Backups : Inserted(c)' <=> Inserted(c)
    BY <2>1 DEF Inserted
  <2>3. Roles' /\ Joining' /\ Exclusive' /\ DanglesOnlyUnlocked'
    BY <2>1 DEF IInv, Roles, Joining, Exclusive, Inside, DanglesOnlyUnlocked
  <2>4. ASSUME ~breached' PROVE Linked' /\ Placed'
    <3>1. Linked /\ Placed
      BY <2>1, <2>4 DEF IInv
    <3>2. Linked' /\ Members' = Members
      BY <3>1, <2>1, <2>2, SameList
    <3> QED BY <2>1, <3>1, <3>2 DEF Placed, PlacedAt, Inside
  <2> QED BY <1>1, <2>3, <2>4 DEF IInv
<1>3. ASSUME NEW w \in Writers, NotifyStep(w) PROVE IInv'
  BY <1>1, <1>3, PassesKeeps, RemovesKeeps, NotifyUnlocksKeeps DEF NotifyStep
<1> QED BY <1>1, <1>2, <1>3, ThreadNames, AcceptsKeeps, InsertsKeeps, ListenerQuietKeeps,
           ListenerUnlocksKeeps, DueKeeps, FileChangesKeeps, LocksKeeps, BackupKeeps,
           DanglingKeeps
        DEF Next, ListenerStep, HeartbeatStep

LEMMA Invariance == Spec => []IInv
BY InitIInv, StepIInv, PTL DEF Spec

(* replica_list_mutex excludes: of the threads that walk the list to send   *)
(* or to unlink, only one is in notify_replicas, as long as the listener    *)
(* has not unlocked the mutex while another thread held it (replica.c:187). *)
THEOREM MutexExcludes == Spec => []Exclusive
<1>1. IInv => Exclusive
  BY DEF IInv
<1> QED BY Invariance, <1>1, PTL

(* The manager uses a freed node (replica.c:86) only where its listener     *)
(* walks the list without the mutex for a newcomer, or after the listener   *)
(* unlocked another thread's mutex: replica_list_remove_node, whoever it    *)
(* removes, leaves to the thread that called it a list in one piece.        *)
THEOREM NoDanglingUnderLock == Spec => []DanglesOnlyUnlocked
<1>1. IInv => DanglesOnlyUnlocked
  BY DEF IInv
<1> QED BY Invariance, <1>1, PTL

(* The nodes that joined and were not freed are linked among themselves     *)
(* alone, each but the head from exactly one other, and never in a circle,  *)
(* whoever inserts and removes (replica.c:47-66, 76-92).                    *)
THEOREM ListLinked == Spec => [](~breached => Linked)
<1>1. IInv => (~breached => Linked)
  BY DEF IInv
<1> QED BY Invariance, <1>1, PTL

-----------------------------------------------------------------------------
(* The count of the list.                                                   *)

Adding == IF writer["listener"].at = "count" THEN 1 ELSE 0

Counted == ~breached => replica_count = Cardinality(Members) - Adding

(* A set of numbers has a least one.                                        *)
LEMMA Least ==
    ASSUME NEW S \in SUBSET Nat, S # {}
    PROVE  \E n \in S : \A m \in S : n <= m
<1> DEFINE R == OpToRel(<, Nat)
<1>1. IsWellFoundedOn(R, Nat)
  BY NatLessThanWellFounded
<1> HIDE DEF R
<1>2. PICK n \in S : \A m \in S : <<m, n>> \notin R
  BY <1>1, WFMin
<1>3. \A m \in S : m < n => <<m, n>> \in R
  BY DEF R, OpToRel
<1>4. n \in Nat /\ \A m \in S : m \in Nat
  OBVIOUS
<1> QED
  <2> SUFFICES ASSUME NEW m \in S PROVE n <= m
    OBVIOUS
  <2>1. ~(m < n)
    BY <1>2, <1>3
  <2> QED BY <1>4, <2>1

(* Every node of the list is come by: of those that are not, each would     *)
(* follow from another, so that they would be in a circle.                  *)
LEMMA AllReached ==
    ASSUME TypeOK, Linked
    PROVE  Reached = Members
<1>1. Members \in SUBSET Backups
  BY DEF Members
<1>2. Reached \subseteq Members
  BY <1>1 DEF Reached, Ahead, Linked
<1>3. ASSUME NEW S \in SUBSET Backups, head \in S \cup {NULL},
             \A a \in S : next[a] \in S \cup {NULL}
      PROVE  Members \subseteq S
  <2> DEFINE Missed == Members \ S
  <2> SUFFICES ASSUME Missed # {} PROVE FALSE
    OBVIOUS
  <2>1. NULL \notin Members /\ NULL \notin S
    BY <1>1, NullApart
  <2>2. \A b \in Missed : \E a \in Missed : next[a] = b
    BY <1>3, <2>1 DEF Linked
  <2>3. PICK rank \in [Backups -> Nat] :
           \A b \in Members : next[b] # NULL => rank[next[b]] < rank[b]
    BY DEF Linked, Acyclic
  <2>4. PICK b \in Missed : \A c \in Missed : rank[b] <= rank[c]
    <3> DEFINE Ranks == {rank[c] : c \in Missed}
    <3>1. Ranks \in SUBSET Nat /\ Ranks # {}
      BY <1>1, <2>3
    <3>2. PICK n \in Ranks : \A m \in Ranks : n <= m
      BY <3>1, Least
    <3> QED BY <3>2
  <2> DEFINE from == [c \in Missed |-> CHOOSE a \in Missed : next[a] = c]
  <2>5. \A c \in Missed : from[c] \in Missed /\ next[from[c]] = c
    BY <2>2
  <2>6. \A c \in Missed : from[c] # b
    <3> SUFFICES ASSUME NEW c \in Missed, from[c] = b PROVE FALSE
      OBVIOUS
    <3>1. next[b] = c /\ c # NULL
      BY <2>1, <2>5
    <3>2. rank[c] < rank[b] /\ rank[b] <= rank[c]
      BY <3>1, <2>3, <2>4
    <3>3. rank[b] \in Nat /\ rank[c] \in Nat
      BY <1>1, <2>3
    <3> QED BY <3>2, <3>3
  <2>7. IsFiniteSet(Missed)
    BY <1>1, BackupsAssumption, FS_Subset
  <2>8. IsFiniteSet(Missed \ {b}) /\ Cardinality(Missed \ {b}) < Cardinality(Missed)
    <3>1. Cardinality(Missed) \in Nat
      BY <2>7, FS_CardinalityType
    <3>2. /\ IsFiniteSet(Missed \ {b})
          /\ Cardinality(Missed \ {b}) = Cardinality(Missed) - 1
      BY <2>7, FS_RemoveElement
    <3> QED BY <3>1, <3>2
  <2>9. from \in [Missed -> Missed \ {b}]
    BY <2>5, <2>6
  <2> HIDE DEF from, Missed
  <2>10. PICK c, d \in Missed : c # d /\ from[c] = from[d]
    BY <2>7, <2>8, <2>9, FS_PigeonHole
  <2> QED BY <2>5, <2>10
<1>4. Members \subseteq Reached
  BY <1>1, <1>3 DEF Reached, Ahead
<1> QED BY <1>2, <1>4

LEMMA LiveFinite ==
    IsFiniteSet(Members) /\ Cardinality(Members) \in Nat
BY BackupsAssumption, FS_Subset, FS_CardinalityType DEF Members

LEMMA InitCounted == Init => Counted
<1> SUFFICES ASSUME Init PROVE Counted
  OBVIOUS
<1>1. Members = {} /\ replica_count = 0 /\ writer["listener"].at = "idle"
  BY ThreadNames DEF Init, Members, Inserted, Idle
<1> QED BY <1>1, FS_EmptySet DEF Counted, Adding

(* A step that leaves the list and its count as they are.                   *)
LEMMA SameCount ==
    ASSUME Counted, breached => breached', UNCHANGED <<freed, replica_count>>,
           \A b \in Backups : Inserted(b)' <=> Inserted(b),
           writer'["listener"].at = "count" <=> writer["listener"].at = "count"
    PROVE  Counted'
<1>1. Members' = Members
  BY DEF Members
<1> QED BY <1>1 DEF Counted, Adding

LEMMA InsertsCounted ==
    ASSUME IInv, Counted, ListenerInserts
    PROVE  Counted'
<1> DEFINE new == writer["listener"].new
<1>1. /\ writer["listener"].at = "insert" /\ writer'["listener"].at = "count"
      /\ UNCHANGED <<freed, replica_count, arriving, backup, breached>>
  BY ThreadNames, WriterIsFunction DEF IInv, ListenerInserts, At, Goes, Work, backups, history
<1>2. new \in Backups \ arriving /\ backup[new].at # "out"
  BY <1>1 DEF IInv, Joining
<1>3. ASSUME ~breached PROVE Members' = Members \cup {new} /\ new \notin Members
  <2>1. \A c \in Backups : Inserted(c)' <=> Inserted(c) \/ c = new
    BY <1>1, <1>2 DEF Inserted
  <2>2. ~Inserted(new)
    BY <1>1 DEF Inserted
  <2> QED BY <1>1, <1>2, <1>3, <2>1, <2>2 DEF IInv, Linked, Members
<1>4. ASSUME ~breached PROVE Cardinality(Members') = Cardinality(Members) + 1
  BY <1>3, <1>4, LiveFinite, FS_AddElement
<1>5. ASSUME ~breached PROVE replica_count' = Cardinality(Members') - 1
  BY <1>1, <1>4, <1>5, LiveFinite DEF Counted, Adding
<1> QED BY <1>1, <1>5 DEF Counted, Adding

LEMMA CountsCounted ==
    ASSUME IInv, Counted, ListenerCounts
    PROVE  Counted'
<1>1. /\ writer["listener"].at = "count" /\ writer'["listener"].at = "lock"
      /\ replica_count' = replica_count + 1
      /\ UNCHANGED <<freed, arriving, backup, breached>>
  BY ThreadNames, WriterIsFunction DEF IInv, ListenerCounts, At, Goes, Work, backups, history
<1>2. Members' = Members
  BY <1>1 DEF Members, Inserted
<1> QED BY <1>1, <1>2, LiveFinite DEF Counted, Adding

LEMMA RemovesCounted ==
    ASSUME IInv, Counted, NEW w \in Writers, NotifyRemoves(w)
    PROVE  Counted'
<1> DEFINE b == writer[w].current
<1>1. /\ writer[w].at = "node" /\ Sound(w)
      /\ writer' = [writer EXCEPT ![w].current = next[b]]
      /\ UNCHANGED <<arriving, backup, breached>>
      /\ freed' = freed \cup {b} /\ replica_count' = replica_count - 1
  BY DEF NotifyRemoves, At, backups, history
<1>2. writer'["listener"].at = writer["listener"].at
      /\ writer'["listener"].new = writer["listener"].new
  BY <1>1, ThreadNames, WriterIsFunction DEF IInv, Work
<1>3. Members' = Members \ {b}
  BY <1>1, <1>2 DEF Members, Inserted
<1>4. ASSUME ~breached PROVE b \in Members
  BY <1>1, <1>4 DEF IInv, Placed, PlacedAt, Inside, Sound
<1>5. ASSUME ~breached PROVE Cardinality(Members') = Cardinality(Members) - 1
  BY <1>3, <1>4, <1>5, LiveFinite, FS_RemoveElement
<1>6. ASSUME ~breached PROVE replica_count' = Cardinality(Members') - Adding
  <2>1. Adding \in Int
    BY DEF Adding
  <2> QED BY <1>1, <1>5, <1>6, <2>1, LiveFinite DEF Counted
<1>7. Adding' = Adding
  BY <1>2 DEF Adding
<1> QED BY <1>1, <1>6, <1>7 DEF Counted

LEMMA StepCounted == IInv /\ Counted /\ [Next]_vars => Counted'
<1> SUFFICES ASSUME IInv, Counted, [Next]_vars PROVE Counted'
  OBVIOUS
<1>1. /\ writer \in [Writers -> Work] /\ "listener" \in Writers
      /\ writer["listener"] \in Work
  BY WriterIsFunction, ThreadNames DEF IInv
<1>2. CASE UNCHANGED vars
  BY <1>2, SameCount DEF vars, list, backups, history, Inserted
<1>3. ASSUME NEW b \in Backups, ListenerAccepts(b) PROVE Counted'
  <2>1. writer["listener"].at = "idle" /\ writer'["listener"].at = "insert"
        /\ writer'["listener"].new = b
    BY <1>1, <1>3 DEF ListenerAccepts, At, Idle
  <2>2. UNCHANGED <<freed, replica_count, backup, breached>>
    BY <1>3 DEF ListenerAccepts, list, backups, history
  <2>3. \A c \in Backups : Inserted(c)' <=> Inserted(c)
    BY <1>3, <2>1, <2>2 DEF Inserted, ListenerAccepts
  <2> QED BY <2>1, <2>2, <2>3, SameCount
<1>4. CASE ListenerTells \/ ListenerUnlocks
  <2>1. writer["listener"].at = "tell" /\ writer'["listener"].at \in {"tell", "idle"}
    BY <1>1, <1>4 DEF ListenerTells, ListenerUnlocks, At, Idle, Work
  <2>2. UNCHANGED <<freed, replica_count, arriving, backup>>
    BY <1>4 DEF ListenerTells, ListenerUnlocks, list, backups
  <2>3. breached' = breached \/ breached' = (breached \/ owner # NULL)
    BY <1>4 DEF ListenerTells, ListenerUnlocks
  <2>4. breached => breached'
    BY <2>3, Zenon
  <2> QED BY <2>1, <2>2, <2>4, SameInserted, SameCount
<1>5. CASE HeartbeatDue \/ UserUploads \/ UserDeletes \/ FileChanges
  <2>1. writer'["listener"] = writer["listener"]
    BY <1>1, <1>5 DEF HeartbeatDue, UserUploads, UserDeletes, FileChanges, Goes
  <2>2. UNCHANGED <<freed, replica_count, arriving, backup, breached>>
    BY <1>5 DEF HeartbeatDue, UserUploads, UserDeletes, FileChanges, list, backups, history
  <2> QED BY <2>1, <2>2, SameInserted, SameCount
<1>6. ASSUME NEW w \in Writers, NotifyLocks(w) \/ NotifyUnlocks(w) PROVE Counted'
  <2>1. /\ UNCHANGED <<freed, replica_count, arriving, backup, breached>>
        /\ writer[w].at \in {"lock", "node"}
        /\ writer'[w].at \in {"node", "tell", "idle"}
        /\ \A v \in Writers \ {w} : writer'[v] = writer[v]
    <3>1. CASE NotifyLocks(w)
      BY <1>1, <3>1, WriterIsFunction
         DEF IInv, NotifyLocks, At, Work, list, backups, history
    <3>2. CASE NotifyUnlocks(w)
      BY <1>1, <3>2, WriterIsFunction
         DEF IInv, NotifyUnlocks, At, Idle, Work, list, backups, history
    <3> QED BY <1>6, <3>1, <3>2
  <2>2. /\ writer["listener"].at \notin {"insert", "count"} \/ w # "listener"
        /\ writer'["listener"].at \notin {"insert", "count"} \/ w # "listener"
        /\ w # "listener" => writer'["listener"] = writer["listener"]
    BY <1>1, <2>1
  <2>3. \A b \in Backups : Inserted(b)' <=> Inserted(b)
    BY <2>1, <2>2, SameInserted
  <2> QED BY <2>1, <2>2, <2>3, SameCount
<1>7. ASSUME NEW w \in Writers,
             NotifySends(w) \/ NotifyOpens(w) \/ NotifyChunks(w) \/ NotifyDeletes(w)
      PROVE  Counted'
  <2>1. /\ UNCHANGED <<freed, replica_count, arriving, backup, breached>>
        /\ writer[w].at \in {"node", "open", "chunks", "delete"}
    BY <1>7 DEF NotifySends, NotifyOpens, NotifyChunks, NotifyDeletes, At, list, history
  <2>2. writer'[w].at \in {"node", "open", "chunks", "delete"}
        /\ \A v \in Writers \ {w} : writer'[v] = writer[v]
    <3>1. CASE OnTo(w)
      BY <1>1, <3>1, WriterIsFunction DEF IInv, OnTo, Work
    <3>2. CASE \E place \in {"open", "delete"} : Goes(w, place)
      BY <3>2, WriterIsFunction DEF IInv, Goes, Work
    <3>3. CASE writer' = [writer EXCEPT ![w].at = "chunks", ![w].size = file, ![w].sent = 0]
      BY <3>3, WriterIsFunction DEF IInv, Work
    <3>4. CASE writer' = [writer EXCEPT ![w].sent = @ + 1]
      BY <2>1, <3>4, WriterIsFunction DEF IInv, Work
    <3> QED BY <1>7, <3>1, <3>2, <3>3, <3>4
            DEF NotifySends, NotifyOpens, NotifyChunks, NotifyDeletes
  <2>3. /\ writer["listener"].at \notin {"insert", "count"} \/ w # "listener"
        /\ writer'["listener"].at \notin {"insert", "count"} \/ w # "listener"
        /\ w # "listener" => writer'["listener"] = writer["listener"]
    BY <1>1, <2>1, <2>2
  <2>4. \A b \in Backups : Inserted(b)' <=> Inserted(b)
    BY <2>1, <2>3, SameInserted
  <2> QED BY <2>1, <2>3, <2>4, SameCount
<1>8. ASSUME NEW w \in Writers, Dangling(w) PROVE Counted'
  BY <1>8, SameCount DEF Dangling, list, backups, history, Inserted
<1>9. ASSUME NEW b \in Backups, BackupConnects(b) \/ BackupCrashes(b) \/ BackupStep(b)
      PROVE  Counted'
  <2>1. UNCHANGED <<freed, replica_count, writer, breached>>
    BY <1>9 DEF BackupConnects, BackupCrashes, BackupStep, BackupReadsEvent, BackupReadsFile,
                BackupReadsChunk, Reads, list, history
  <2>2. \A c \in Backups : Inserted(c)' <=> Inserted(c)
    BY <1>9, <2>1, BackupInserts DEF IInv, Types
  <2> QED BY <2>1, <2>2, SameCount
<1>10. ASSUME NEW w \in Writers, NotifyStep(w) PROVE Counted'
  BY <1>6, <1>7, <1>10, RemovesCounted DEF NotifyStep
<1> QED BY <1>2, <1>3, <1>4, <1>5, <1>6, <1>8, <1>9, <1>10, ThreadNames,
           InsertsCounted, CountsCounted
        DEF Next, ListenerStep, HeartbeatStep

(* While the manager runs and its listener has not unlocked the mutex of    *)
(* another thread, a walk from the head of the list comes by the replicas   *)
(* that joined and were not freed, and by no other; and replica_count, that *)
(* add_replica raises without the mutex (replica.c:24-45, 76-92), is their  *)
(* number, less the one being added.                                        *)
THEOREM ListIsSound == Spec => []ListSound
<1>1. Init => IInv /\ Counted
  BY InitIInv, InitCounted
<1>2. IInv /\ Counted /\ [Next]_vars => (IInv /\ Counted)'
  BY StepIInv, StepCounted
<1>3. IInv /\ Counted => ListSound
  <2> SUFFICES ASSUME IInv, Counted, ~breached
               PROVE  /\ Reached = Members
                      /\ replica_count = Cardinality(Reached)
                                         - (IF writer["listener"].at = "count" THEN 1 ELSE 0)
    BY DEF ListSound
  <2>1. Reached = Members
    BY AllReached DEF IInv, Types
  <2> QED BY <2>1 DEF Counted, Adding, Members
<1> QED BY <1>1, <1>2, <1>3, PTL DEF Spec
-----------------------------------------------------------------------------
(* What a backup makes of the packets that are on their way to it.          *)

WritersKinds ==
    /\ writer["heartbeat"].kind = "HEARTBEAT"
    /\ writer["user"].at # "idle" => writer["user"].kind \in {"FILE_UPLOADED", "FILE_DELETED"}
    /\ writer["user"].at \in {"open", "chunks"} => writer["user"].kind = "FILE_UPLOADED"
    /\ \A w \in Writers \ {"user"} : writer[w].at \notin {"open", "chunks", "delete"}

(* A file that is announced is there, and no more of it is sent than there  *)
(* was.                                                                     *)
FileThere ==
    ~altered /\ writer["user"].kind = "FILE_UPLOADED" =>
       /\ writer["user"].at # "idle" => file # NoFile
       /\ writer["user"].at = "chunks" => writer["user"].sent <= writer["user"].size

(* What comes next: an event, the file of an event, or so many packets of   *)
(* one.                                                                     *)
AnEvent == 0
AFile == -1

(* What the reader takes the next packet for, and what the writer sends.    *)
Reading(b) == IF backup[b].at = "file" THEN AFile
              ELSE IF backup[b].at = "chunks" THEN backup[b].left ELSE AnEvent

Due(b) == IF writer["user"].current = b /\ writer["user"].at \in {"open", "delete"} THEN AFile
          ELSE IF writer["user"].current = b /\ writer["user"].at = "chunks"
               THEN writer["user"].size - writer["user"].sent ELSE AnEvent

Fits(place, packet) ==
    \/ place = AnEvent /\ packet.type = "event"
    \/ place = AFile /\ packet.type \in {"send", "delete"}
    \/ place > 0 /\ packet.type = "data"

Then(place, packet) ==
    IF place = AnEvent
    THEN IF packet.kind \in {"FILE_UPLOADED", "FILE_DELETED"} THEN AFile ELSE AnEvent
    ELSE IF place = AFile THEN packet.packets ELSE place - 1

(* The packets of word, read from one place, lead to the other.             *)
Leads(from, word, to) ==
    \E place \in [1 .. Len(word) + 1 -> Int] :
       /\ place[1] = from
       /\ \A k \in 1 .. Len(word) : /\ Fits(place[k], word[k])
                                    /\ place[k + 1] = Then(place[k], word[k])
       /\ place[Len(word) + 1] = to

(* What is on its way leads the reader to where the writer is.              *)
Understood ==
    ~breached /\ ~altered =>
       \A b \in Backups \ mingled :
          b \notin misread /\ (~Down(b) => Leads(Reading(b), wire[b], Due(b)))

LEMMA LeadsNowhere ==
    ASSUME NEW from \in Int
    PROVE  Leads(from, <<>>, from)
<1> DEFINE place == [k \in 1 .. 1 |-> from]
<1>1. place \in [1 .. Len(<<>>) + 1 -> Int] /\ place[1] = from /\ Len(<<>>) = 0
  OBVIOUS
<1> HIDE DEF place
<1> QED BY <1>1 DEF Leads

LEMMA LeadsOn ==
    ASSUME NEW word \in Seq(Packets), NEW packet \in Packets, NEW from, NEW to,
           Leads(from, word, to), Fits(to, packet)
    PROVE  Leads(from, Append(word, packet), Then(to, packet))
<1>1. PICK place \in [1 .. Len(word) + 1 -> Int] :
         /\ place[1] = from
         /\ \A k \in 1 .. Len(word) : /\ Fits(place[k], word[k])
                                      /\ place[k + 1] = Then(place[k], word[k])
         /\ place[Len(word) + 1] = to
  BY DEF Leads
<1> DEFINE n == Len(word)
           more == [k \in 1 .. n + 2 |-> IF k = n + 2 THEN Then(to, packet) ELSE place[k]]
<1>2. n \in Nat /\ Len(Append(word, packet)) = n + 1
      /\ Append(word, packet)[n + 1] = packet
      /\ \A k \in 1 .. n : Append(word, packet)[k] = word[k]
  OBVIOUS
<1>3. to \in Int
  BY <1>1, <1>2
<1>4. Then(to, packet) \in Int
  BY <1>3 DEF Then, Packets, AFile, AnEvent
<1>5. more \in [1 .. (n + 1) + 1 -> Int]
  BY <1>1, <1>2, <1>4
<1>6. more[n + 2] = Then(to, packet) /\ \A k \in 1 .. n + 1 : more[k] = place[k]
  BY <1>2
<1> HIDE DEF n, more
<1>7. more[1] = from /\ more[n + 1] = to /\ more[(n + 1) + 1] = Then(to, packet)
  BY <1>1, <1>2, <1>6 DEF n
<1>8. ASSUME NEW k \in 1 .. n + 1
      PROVE  /\ Fits(more[k], Append(word, packet)[k])
             /\ more[k + 1] = Then(more[k], Append(word, packet)[k])
  <2>1. CASE k = n + 1
    BY <1>2, <1>7, <2>1
  <2>2. CASE k # n + 1
    <3>1. k \in 1 .. n /\ k \in 1 .. n + 1 /\ k + 1 \in 1 .. n + 1
      BY <1>2, <1>8, <2>2
    <3>2. more[k] = place[k] /\ more[k + 1] = place[k + 1]
      BY <1>6, <3>1
    <3>3. Fits(place[k], word[k]) /\ place[k + 1] = Then(place[k], word[k])
      BY <1>1, <3>1 DEF n
    <3> QED BY <1>2, <3>1, <3>2, <3>3
  <2> QED BY <2>1, <2>2
<1> QED BY <1>2, <1>5, <1>7, <1>8 DEF Leads

LEMMA LeadsFrom ==
    ASSUME NEW word \in Seq(Packets), word # <<>>, NEW from, NEW to, Leads(from, word, to)
    PROVE  Fits(from, Head(word)) /\ Leads(Then(from, Head(word)), Tail(word), to)
<1>1. PICK place \in [1 .. Len(word) + 1 -> Int] :
         /\ place[1] = from
         /\ \A k \in 1 .. Len(word) : /\ Fits(place[k], word[k])
                                      /\ place[k + 1] = Then(place[k], word[k])
         /\ place[Len(word) + 1] = to
  BY DEF Leads
<1> DEFINE n == Len(word) - 1
           less == [k \in 1 .. n + 1 |-> place[k + 1]]
<1>2. n \in Nat /\ Len(word) = n + 1 /\ Len(Tail(word)) = n /\ Head(word) = word[1]
      /\ \A k \in 1 .. n : Tail(word)[k] = word[k + 1]
  OBVIOUS
<1>3. less \in [1 .. n + 1 -> Int] /\ \A k \in 1 .. n + 1 : less[k] = place[k + 1]
  BY <1>1, <1>2
<1> HIDE DEF n, less
<1>4. Fits(from, Head(word)) /\ place[2] = Then(from, Head(word))
  <2>1. 1 \in 1 .. Len(word)
    BY <1>2
  <2> QED BY <1>1, <1>2, <2>1
<1>5. less[1] = Then(from, Head(word)) /\ less[n + 1] = to
  BY <1>1, <1>2, <1>3, <1>4
<1>6. ASSUME NEW k \in 1 .. n
      PROVE  Fits(less[k], Tail(word)[k]) /\ less[k + 1] = Then(less[k], Tail(word)[k])
  <2>1. k + 1 \in 1 .. Len(word) /\ k \in 1 .. n + 1 /\ k + 1 \in 1 .. n + 1
    BY <1>2
  <2> QED BY <1>1, <1>2, <1>3, <2>1
<1> QED BY <1>2, <1>3, <1>4, <1>5, <1>6 DEF Leads

LEMMA InitUnderstood == Init => WritersKinds /\ FileThere /\ Understood
<1> SUFFICES ASSUME Init PROVE WritersKinds /\ FileThere /\ Understood
  OBVIOUS
<1>1. \A w \in Writers : writer[w] = Idle
  BY DEF Init
<1>2. WritersKinds /\ FileThere
  BY <1>1, ThreadNames DEF WritersKinds, FileThere, Idle
<1>3. ASSUME NEW b \in Backups PROVE Leads(Reading(b), wire[b], Due(b))
  <2>1. wire[b] = <<>> /\ Reading(b) = AnEvent /\ Due(b) = AnEvent /\ AnEvent \in Int
    BY <1>1, ThreadNames DEF Init, Reading, Due, Idle, AnEvent
  <2> QED BY <2>1, LeadsNowhere
<1>4. misread = {}
  BY DEF Init
<1> QED BY <1>2, <1>3, <1>4 DEF Understood

(* A thread of the manager in the middle of its work is the user's.         *)
LEMMA KindsKept ==
    ASSUME WritersKinds, FileThere, NEW w \in Writers,
           \A v \in Writers \ {w} : writer'[v] = writer[v],
           w = "heartbeat" => writer'[w].kind = writer[w].kind,
           w # "user" => writer'[w].at \notin {"open", "chunks", "delete"},
           w # "user" => UNCHANGED <<file, altered>>,
           w = "user" => WritersKinds' /\ FileThere'
    PROVE  WritersKinds' /\ FileThere'
<1>1. CASE w = "user"
  BY <1>1
<1>2. CASE w # "user"
  <2>1. writer'["user"] = writer["user"] /\ writer'["heartbeat"].kind = writer["heartbeat"].kind
    BY <1>2, ThreadNames
  <2>2. WritersKinds'
    BY <1>2, <2>1 DEF WritersKinds
  <2>3. FileThere'
    BY <1>2, <2>1 DEF FileThere
  <2> QED BY <2>2, <2>3
<1> QED BY <1>1, <1>2

LEMMA NotifyKinds ==
    ASSUME IInv, WritersKinds, FileThere, NEW w \in Writers, NotifyLocks(w) \/ NotifyStep(w)
    PROVE  /\ WritersKinds' /\ FileThere'
           /\ \A v \in Writers \ {w} : writer'[v] = writer[v]
           /\ w # "user" => writer[w].at \in {"lock", "node"}
<1>1. /\ writer \in [Writers -> Work] /\ writer[w] \in Work
      /\ w \in {"heartbeat", "listener", "user"}
  BY WriterIsFunction DEF IInv, Writers
<1>2. UNCHANGED <<file, altered>>
  BY DEF NotifyLocks, NotifyStep, NotifySends, NotifyRemoves, NotifyOpens, NotifyChunks,
         NotifyDeletes, NotifyUnlocks, disk, history
<1>3. writer[w].at # "idle" /\ (w = "listener" => writer[w].kind = "REPLICA_ADDED")
  BY DEF IInv, Types, Telling, NotifyLocks, NotifyStep, NotifySends, NotifyRemoves, NotifyOpens,
         NotifyChunks, NotifyDeletes, NotifyUnlocks, At
<1>4. w # "user" => writer[w].at \notin {"open", "chunks", "delete"}
  BY DEF WritersKinds
<1>5. CASE NotifyLocks(w) \/ NotifyRemoves(w)
  <2>1. /\ writer[w].at \in {"lock", "node"} /\ writer'[w].at = "node"
        /\ writer'[w].kind = writer[w].kind
        /\ \A v \in Writers \ {w} : writer'[v] = writer[v]
    <3>1. CASE NotifyLocks(w)
      BY <1>1, <3>1 DEF NotifyLocks, At, Work
    <3>2. CASE NotifyRemoves(w)
      BY <1>1, <3>2 DEF NotifyRemoves, At, Work
    <3> QED BY <1>5, <3>1, <3>2
  <2>2. w = "user" => WritersKinds' /\ FileThere'
    BY <1>2, <2>1, ThreadNames DEF WritersKinds, FileThere
  <2> QED BY <1>2, <2>1, <2>2, KindsKept
<1>6. CASE NotifySends(w)
  <2>1. writer[w].at = "node" /\ \A v \in Writers \ {w} : writer'[v] = writer[v]
    BY <1>1, <1>6 DEF NotifySends, At, Goes, OnTo
  <2>2. /\ writer'[w].kind = writer[w].kind
        /\ \/ writer[w].kind = "FILE_UPLOADED" /\ writer'[w].at = "open"
           \/ writer[w].kind = "FILE_DELETED" /\ writer'[w].at = "delete"
           \/ writer'[w].at = "node"
    BY <1>1, <1>6 DEF NotifySends, At, Goes, OnTo, Work
  <2>3. w # "user" => writer[w].kind \notin {"FILE_UPLOADED", "FILE_DELETED"}
    BY <1>1, <1>3 DEF WritersKinds
  <2>4. w # "user" => writer'[w].at = "node"
    BY <2>2, <2>3
  <2>5. w = "user" => WritersKinds' /\ FileThere'
    BY <1>2, <2>1, <2>2, ThreadNames DEF WritersKinds, FileThere
  <2> QED BY <1>2, <2>1, <2>2, <2>4, <2>5, KindsKept
<1>7. CASE NotifyOpens(w)
  <2>1. writer[w].at = "open" /\ \A v \in Writers \ {w} : writer'[v] = writer[v]
    BY <1>1, <1>7 DEF NotifyOpens, At, OnTo
  <2>2. w = "user"
    BY <1>4, <2>1
  <2>3. /\ writer'[w].kind = writer[w].kind
        /\ \/ file = NoFile /\ writer'[w].at = "node"
           \/ /\ file # NoFile /\ writer'[w].at = "chunks"
              /\ writer'[w].size = file /\ writer'[w].sent = 0
    BY <1>1, <1>7 DEF NotifyOpens, At, OnTo, Work
  <2>4. file # NoFile => 0 <= file
    BY BoundsAssumption DEF IInv, Types, TypeOK
  <2>5. WritersKinds' /\ FileThere'
    BY <1>2, <2>1, <2>2, <2>3, <2>4, ThreadNames DEF WritersKinds, FileThere
  <2> QED BY <2>1, <2>2, <2>5
<1>8. CASE NotifyChunks(w)
  <2>1. writer[w].at = "chunks" /\ \A v \in Writers \ {w} : writer'[v] = writer[v]
    BY <1>1, <1>8 DEF NotifyChunks, At, OnTo
  <2>2. w = "user"
    BY <1>4, <2>1
  <2>3. /\ writer'[w].kind = writer[w].kind
        /\ \/ writer'[w].at = "node"
           \/ /\ writer[w].sent < writer[w].size /\ writer'[w].at = "chunks"
              /\ writer'[w].size = writer[w].size /\ writer'[w].sent = writer[w].sent + 1
    BY <1>1, <1>8, <2>1 DEF NotifyChunks, OnTo, Work
  <2>4. writer[w].kind = "FILE_UPLOADED"
    BY <2>1, <2>2 DEF WritersKinds
  <2>5. writer[w].sent \in Nat /\ writer[w].size \in Nat
    BY <1>1, BoundsAssumption DEF Work
  <2>6. ~altered => file # NoFile
    BY <2>1, <2>2, <2>4 DEF FileThere
  <2>7. WritersKinds' /\ FileThere'
    BY <1>2, <2>1, <2>2, <2>3, <2>4, <2>5, <2>6, ThreadNames DEF WritersKinds, FileThere
  <2> QED BY <2>1, <2>2, <2>7
<1>9. CASE NotifyDeletes(w)
  <2>1. writer[w].at = "delete" /\ \A v \in Writers \ {w} : writer'[v] = writer[v]
    BY <1>1, <1>9 DEF NotifyDeletes, At, OnTo
  <2>2. w = "user"
    BY <1>4, <2>1
  <2>3. writer'[w].kind = writer[w].kind /\ writer'[w].at = "node"
    BY <1>1, <1>9 DEF NotifyDeletes, OnTo, Work
  <2>4. WritersKinds' /\ FileThere'
    BY <1>2, <2>1, <2>2, <2>3, ThreadNames DEF WritersKinds, FileThere
  <2> QED BY <2>1, <2>2, <2>4
<1>10. CASE NotifyUnlocks(w)
  <2>1. /\ writer[w].at = "node"
        /\ writer'[w].at = (IF w = "listener" THEN "tell" ELSE "idle")
        /\ w # "listener" => writer'[w].kind = "HEARTBEAT"
        /\ \A v \in Writers \ {w} : writer'[v] = writer[v]
    BY <1>1, <1>10 DEF NotifyUnlocks, At, Idle, Work
  <2>2. w = "user" => WritersKinds' /\ FileThere'
    BY <1>2, <2>1, ThreadNames DEF WritersKinds, FileThere
  <2>3. w = "heartbeat" => writer'[w].kind = writer[w].kind
    BY <2>1 DEF WritersKinds
  <2> QED BY <1>2, <2>1, <2>2, <2>3, KindsKept
<1> QED BY <1>5, <1>6, <1>7, <1>8, <1>9, <1>10 DEF NotifyStep

LEMMA OtherKinds ==
    ASSUME IInv, WritersKinds, FileThere,
           \/ \E b \in Backups : ListenerAccepts(b)
           \/ ListenerInserts \/ ListenerCounts \/ ListenerTells \/ ListenerUnlocks
           \/ HeartbeatDue \/ UserUploads \/ UserDeletes \/ FileChanges
    PROVE  WritersKinds' /\ FileThere'
<1>1. /\ writer \in [Writers -> Work] /\ writer["listener"] \in Work
      /\ writer["user"] \in Work /\ writer["heartbeat"] \in Work
  BY WriterIsFunction, ThreadNames DEF IInv
<1>2. CASE \/ \E b \in Backups : ListenerAccepts(b)
           \/ ListenerInserts \/ ListenerCounts \/ ListenerTells \/ ListenerUnlocks
  <2>1. UNCHANGED <<file, altered>>
    BY <1>2 DEF ListenerAccepts, ListenerInserts, ListenerCounts, ListenerTells,
                ListenerUnlocks, disk, history
  <2>2. /\ \A v \in Writers \ {"listener"} : writer'[v] = writer[v]
        /\ writer'["listener"].at \in {"insert", "count", "lock", "tell", "idle"}
    <3>1. CASE \E b \in Backups : ListenerAccepts(b)
      BY <1>1, <3>1, ThreadNames DEF ListenerAccepts, Idle
    <3>2. CASE ListenerInserts \/ ListenerCounts
      BY <1>1, <3>2, ThreadNames DEF ListenerInserts, ListenerCounts, Goes, Work
    <3>3. CASE ListenerTells
      BY <1>1, <3>3, ThreadNames DEF ListenerTells, At, Work
    <3>4. CASE ListenerUnlocks
      BY <1>1, <3>4, ThreadNames DEF ListenerUnlocks, Idle
    <3> QED BY <1>2, <3>1, <3>2, <3>3, <3>4
  <2> QED BY <2>1, <2>2, KindsKept, ThreadNames
<1>3. CASE HeartbeatDue
  <2>1. UNCHANGED <<file, altered>> /\ writer'["heartbeat"].at = "lock"
        /\ writer'["heartbeat"].kind = writer["heartbeat"].kind
        /\ \A v \in Writers \ {"heartbeat"} : writer'[v] = writer[v]
    BY <1>1, <1>3, ThreadNames DEF HeartbeatDue, Goes, Work, disk, history
  <2> QED BY <2>1, KindsKept, ThreadNames
<1>4. CASE UserUploads \/ UserDeletes
  <2>1. /\ \A v \in Writers \ {"user"} : writer'[v] = writer[v]
        /\ writer'["user"].at = "lock"
        /\ \/ writer'["user"].kind = "FILE_UPLOADED" /\ file' \in 0 .. MaxChunks
           \/ writer'["user"].kind = "FILE_DELETED"
    <3>1. CASE UserUploads
      BY <1>1, <3>1, ThreadNames DEF UserUploads, Idle
    <3>2. CASE UserDeletes
      BY <1>1, <3>2, ThreadNames DEF UserDeletes, Idle
    <3> QED BY <1>4, <3>1, <3>2
  <2>2. file' \in 0 .. MaxChunks => file' # NoFile
    BY BoundsAssumption DEF NoFile
  <2>3. WritersKinds' /\ FileThere'
    BY <2>1, <2>2, ThreadNames DEF WritersKinds, FileThere
  <2> QED BY <2>3
<1>5. CASE FileChanges
  <2>1. /\ \A v \in Writers \ {"user"} : writer'[v] = writer[v]
        /\ writer'["user"].at = writer["user"].at
        /\ writer'["user"].kind = writer["user"].kind
    BY <1>1, <1>5, ThreadNames DEF FileChanges, Work
  <2>2. altered' \/ writer["user"].kind # "FILE_UPLOADED" \/ writer["user"].at = "idle"
    BY <1>5 DEF FileChanges
  <2>3. WritersKinds' /\ FileThere'
    BY <2>1, <2>2, ThreadNames DEF WritersKinds, FileThere
  <2> QED BY <2>3
<1> QED BY <1>2, <1>3, <1>4, <1>5

LEMMA StepKinds ==
    ASSUME IInv, WritersKinds, FileThere, [Next]_vars
    PROVE  WritersKinds' /\ FileThere'
<1>1. CASE UNCHANGED vars
  <2>1. UNCHANGED <<writer, file, altered>>
    BY <1>1 DEF vars, disk, history
  <2> QED BY <2>1 DEF WritersKinds, FileThere
<1>2. ASSUME NEW w \in Writers, Dangling(w) PROVE WritersKinds' /\ FileThere'
  <2>1. UNCHANGED <<writer, file, altered>>
    BY <1>2 DEF Dangling, disk, history
  <2> QED BY <2>1 DEF WritersKinds, FileThere
<1>3. ASSUME NEW b \in Backups, BackupConnects(b) \/ BackupCrashes(b) \/ BackupStep(b)
      PROVE  WritersKinds' /\ FileThere'
  <2>1. UNCHANGED <<writer, file, altered>>
    BY <1>3 DEF BackupConnects, BackupCrashes, BackupStep, BackupReadsEvent, BackupReadsFile,
                BackupReadsChunk, Reads, disk, history
  <2> QED BY <2>1 DEF WritersKinds, FileThere
<1> QED BY <1>1, <1>2, <1>3, ThreadNames, NotifyKinds, OtherKinds
        DEF Next, ListenerStep, HeartbeatStep

(* A step that neither sends to a backup that has to be understood, nor has *)
(* it read.                                                                 *)
LEMMA Unsent ==
    ASSUME Understood, misread' = misread, mingled' = mingled, breached => breached',
           altered => altered',
           \A b \in Backups : ~breached' /\ ~altered' /\ ~Down(b)' =>
              /\ ~Down(b) /\ wire'[b] = wire[b]
              /\ Reading(b)' = Reading(b) /\ Due(b)' = Due(b)
    PROVE  Understood'
<1> SUFFICES ASSUME ~breached', ~altered', NEW b \in Backups \ mingled
             PROVE  /\ b \notin misread'
                    /\ ~Down(b)' => Leads(Reading(b)', wire'[b], Due(b)')
  BY DEF Understood
<1>1. ~breached /\ ~altered
  OBVIOUS
<1>2. b \notin misread /\ (~Down(b) => Leads(Reading(b), wire[b], Due(b)))
  BY <1>1 DEF Understood
<1> QED BY <1>2

LEMMA Sent ==
    ASSUME TypeOK, Understood, NEW b \in Backups, NEW packet \in Packets, Send(b, packet),
           UNCHANGED <<backup, misread, breached, altered>>, mingled \subseteq mingled',
           \A c \in Backups \ {b} : Due(c)' = Due(c),
           ~breached /\ ~altered /\ ~Down(b) /\ b \notin mingled' =>
              Fits(Due(b), packet) /\ Due(b)' = Then(Due(b), packet)
    PROVE  Understood'
<1>1. /\ \A c \in Backups \ {b} : wire'[c] = wire[c]
      /\ ~Down(b) => wire'[b] = Append(wire[b], packet)
  BY DEF Send, TypeOK
<1>2. \A c \in Backups : (Down(c)' <=> Down(c)) /\ Reading(c)' = Reading(c)
  BY DEF Down, Reading
<1> SUFFICES ASSUME ~breached, ~altered, NEW c \in Backups \ mingled', ~Down(c)
             PROVE  Leads(Reading(c), wire'[c], Due(c)')
  BY <1>2 DEF Understood
<1>3. Leads(Reading(c), wire[c], Due(c))
  BY DEF Understood
<1>4. CASE c # b
  BY <1>1, <1>3, <1>4
<1>5. CASE c = b
  <2>1. wire[b] \in Seq(Packets)
    BY DEF TypeOK
  <2>2. Fits(Due(b), packet) /\ Due(b)' = Then(Due(b), packet)
    BY <1>5
  <2>3. Leads(Reading(b), Append(wire[b], packet), Then(Due(b), packet))
    BY <1>3, <1>5, <2>1, <2>2, LeadsOn
  <2> QED BY <1>1, <1>5, <2>2, <2>3
<1> QED BY <1>4, <1>5

LEMMA ReadsUnderstood ==
    ASSUME IInv, Understood, NEW b \in Backups, BackupStep(b)
    PROVE  Understood'
<1>1. /\ wire[b] # <<>> /\ wire' = [wire EXCEPT ![b] = Tail(@)]
      /\ UNCHANGED <<writer, mingled, altered, breached>>
      /\ misread \subseteq misread' /\ misread' \subseteq misread \cup {b}
  BY DEF BackupStep, BackupReadsEvent, BackupReadsFile, BackupReadsChunk, Reads
<1>2. /\ wire \in [Backups -> Seq(Packets)] /\ backup \in [Backups -> Seat]
      /\ wire[b] \in Seq(Packets) /\ Head(wire[b]) \in Packets
  BY <1>1 DEF IInv, Types, TypeOK
<1>3. /\ \A c \in Backups \ {b} : backup'[c] = backup[c] /\ wire'[c] = wire[c]
      /\ wire'[b] = Tail(wire[b])
  BY <1>1, <1>2 DEF BackupStep, BackupReadsEvent, BackupReadsFile, BackupReadsChunk
<1>4. \A c \in Backups : Due(c)' = Due(c)
  BY <1>1 DEF Due
<1>5. ~Down(b)
  BY DEF BackupStep, BackupReadsEvent, BackupReadsFile, BackupReadsChunk, Reads, Down
<1>6. ASSUME Fits(Reading(b), Head(wire[b]))
      PROVE  Reading(b)' = Then(Reading(b), Head(wire[b])) /\ misread' = misread
  <2> DEFINE packet == Head(wire[b])
  <2>1. packet.packets \in Nat
    BY <1>2 DEF Packets
  <2> HIDE DEF packet
  <2>2. CASE BackupReadsEvent(b)
    <3>1. Reading(b) = AnEvent /\ backup[b].at = "loop"
      BY <2>2 DEF BackupReadsEvent, Reads, Reading
    <3>2. packet.type = "event"
      BY <1>6, <3>1 DEF Fits, AnEvent, AFile, packet
    <3>3. backup'[b].at =
            IF packet.kind \in {"FILE_UPLOADED", "FILE_DELETED"} THEN "file" ELSE "loop"
      BY <1>2, <2>2 DEF BackupReadsEvent, Seat, packet
    <3>4. misread' = misread
      BY <2>2, <3>2 DEF BackupReadsEvent, packet
    <3>5. Reading(b)' = Then(AnEvent, packet)
      BY <3>3 DEF Reading, Then, AnEvent, AFile
    <3> QED BY <3>1, <3>4, <3>5 DEF packet
  <2>3. CASE BackupReadsFile(b)
    <3>1. Reading(b) = AFile /\ backup[b].at = "file"
      BY <2>3 DEF BackupReadsFile, Reads, Reading
    <3>2. packet.type \in {"send", "delete"}
      BY <1>6, <3>1 DEF Fits, AnEvent, AFile, packet
    <3>3. /\ backup'[b] = [at |-> IF packet.packets > 0 THEN "chunks" ELSE "loop",
                           left |-> packet.packets]
          /\ misread' = misread
      BY <1>2, <2>3, <3>2 DEF BackupReadsFile, packet
    <3>4. Reading(b)' = packet.packets
      BY <2>1, <3>3 DEF Reading, AnEvent
    <3>5. Then(AFile, packet) = packet.packets
      BY DEF Then, AFile, AnEvent
    <3> QED BY <3>1, <3>3, <3>4, <3>5 DEF packet
  <2>4. CASE BackupReadsChunk(b)
    <3>1. backup[b].at = "chunks" /\ backup[b].left \in Nat /\ backup[b].left > 0
      BY <1>2, <2>4 DEF BackupReadsChunk, Reads, Seat, IInv, Types, Counting
    <3>2. Reading(b) = backup[b].left
      BY <3>1 DEF Reading
    <3>3. packet.type = "data"
      BY <1>6, <3>1, <3>2 DEF Fits, AnEvent, AFile, packet
    <3>4. backup'[b] = [at |-> IF backup[b].left = 1 THEN "loop" ELSE "chunks",
                        left |-> backup[b].left - 1]
          /\ misread' = misread
      BY <1>2, <2>4, <3>3 DEF BackupReadsChunk, packet
    <3>5. Reading(b)' = backup[b].left - 1
      BY <3>1, <3>4 DEF Reading, AnEvent
    <3>6. Then(backup[b].left, packet) = backup[b].left - 1
      BY <3>1 DEF Then, AFile, AnEvent
    <3> QED BY <3>2, <3>4, <3>5, <3>6 DEF packet
  <2> QED BY <2>2, <2>3, <2>4 DEF BackupStep
<1> SUFFICES ASSUME ~breached, ~altered, NEW c \in Backups \ mingled
             PROVE  /\ c \notin misread'
                    /\ ~Down(c)' => Leads(Reading(c)', wire'[c], Due(c)')
  BY <1>1 DEF Understood
<1>7. c \notin misread /\ (~Down(c) => Leads(Reading(c), wire[c], Due(c)))
  BY DEF Understood
<1>8. CASE c # b
  <2>1. Reading(c)' = Reading(c) /\ (Down(c)' <=> Down(c))
    BY <1>3, <1>8 DEF Reading, Down
  <2> QED BY <1>1, <1>3, <1>4, <1>7, <1>8, <2>1
<1>9. CASE c = b
  <2>1. /\ Fits(Reading(b), Head(wire[b]))
        /\ Leads(Then(Reading(b), Head(wire[b])), Tail(wire[b]), Due(b))
    BY <1>1, <1>2, <1>5, <1>7, <1>9, LeadsFrom
  <2> QED BY <1>3, <1>4, <1>6, <1>7, <1>9, <2>1
<1> QED BY <1>8, <1>9

LEMMA SendsUnderstood ==
    ASSUME IInv, WritersKinds, FileThere, Understood, NEW w \in Writers,
           NotifySends(w) \/ NotifyOpens(w) \/ NotifyChunks(w) \/ NotifyDeletes(w)
    PROVE  Understood'
<1>1. /\ writer \in [Writers -> Work] /\ writer[w] \in Work
      /\ \A v \in Writers \ {w} : writer'[v] = writer[v]
      /\ w # "user" => writer[w].at \in {"lock", "node"}
  <2>1. NotifyStep(w)
    BY DEF NotifyStep
  <2> QED BY <2>1, NotifyKinds, WriterIsFunction DEF IInv
<1>2. /\ UNCHANGED <<backup, misread, mingled, altered, breached>>
      /\ writer[w].at \in {"node", "open", "chunks", "delete"}
      /\ writer[w].current \in Backups
  BY <1>1 DEF NotifySends, NotifyOpens, NotifyChunks, NotifyDeletes, At, Sound, history, Work, Nodes
<1>b. PICK b \in Backups : b = writer[w].current
  BY <1>2
<1>3. ~breached /\ w # "user" => \A c : Due(c) = AnEvent
  <2>1. ~breached /\ w # "user" => writer["user"].at \notin {"open", "chunks", "delete"}
    BY <1>2, ThreadNames DEF IInv, Exclusive, Inside
  <2> QED BY <2>1 DEF Due
<1>4. w # "user" => \A c : Due(c)' = Due(c)
  BY <1>1, ThreadNames DEF Due
<1>5. TypeOK
  BY DEF IInv, Types
<1>6. CASE NotifySends(w)
  <2> DEFINE packet == Event(writer[w].kind, writer[w].new)
  <2>1. packet \in Packets /\ Send(b, packet) /\ writer[w].at = "node"
    BY <1>b, <1>1, <1>6, MadePackets DEF NotifySends, At, Work
  <2>2. Fits(AnEvent, packet) /\ packet.kind = writer[w].kind
    BY DEF Fits, Event
  <2> HIDE DEF packet
  <2>3. CASE w # "user"
    <3>1. writer[w].kind \notin {"FILE_UPLOADED", "FILE_DELETED"}
      BY <1>1, <2>1, <2>3 DEF WritersKinds, IInv, Types, Telling, Writers
    <3>2. Then(AnEvent, packet) = AnEvent
      BY <2>2, <3>1 DEF Then
    <3> QED BY <1>2, <1>3, <1>4, <1>5, <2>1, <2>2, <2>3, <3>2, Sent
  <2>4. CASE w = "user"
    <3>1. \A c : Due(c) = AnEvent
      BY <1>b, <2>1, <2>4 DEF Due
    <3>2. writer[w].kind \in {"FILE_UPLOADED", "FILE_DELETED"}
      BY <2>1, <2>4 DEF WritersKinds
    <3>3. writer'[w].at \in {"open", "delete"} /\ writer'[w].current = b
      BY <1>b, <1>1, <1>6, <3>2 DEF NotifySends, Goes, Work
    <3>4. Due(b)' = AFile /\ \A c \in Backups \ {b} : Due(c)' = AnEvent
      BY <1>b, <2>4, <3>3 DEF Due
    <3>5. Then(AnEvent, packet) = AFile
      BY <2>2, <3>2 DEF Then
    <3>7. \A c \in Backups \ {b} : Due(c)' = Due(c)
      BY <2>2, <3>1, <3>4, <3>5
    <3>8. Fits(Due(b), packet) /\ Due(b)' = Then(Due(b), packet)
      BY <2>2, <3>1, <3>4, <3>5
    <3> QED BY <1>2, <1>5, <2>1, <3>7, <3>8, Sent
  <2> QED BY <2>3, <2>4
<1>7. CASE NotifyOpens(w)
  <2>1. w = "user" /\ writer[w].at = "open"
    BY <1>1, <1>7 DEF NotifyOpens, At
  <2>2. Due(b) = AFile /\ \A c \in Backups \ {b} : Due(c) = AnEvent
    BY <1>b, <2>1 DEF Due
  <2>3. CASE file = NoFile
    <3>1. wire' = wire /\ writer[w].kind = "FILE_UPLOADED"
      BY <1>b, <1>7, <2>1, <2>3 DEF NotifyOpens, WritersKinds
    <3>2. altered
      BY <2>1, <2>3, <3>1 DEF FileThere
    <3> QED BY <1>2, <3>2 DEF Understood
  <2>4. CASE file # NoFile
    <3> DEFINE packet == Packet("send", file)
    <3>1. file \in 0 .. MaxChunks /\ file \in Nat
      BY <1>5, <2>4, BoundsAssumption DEF TypeOK
    <3>2. packet \in Packets /\ packet.packets = file /\ packet.type = "send"
      BY <3>1, MadePackets DEF Packet
    <3> HIDE DEF packet
    <3>3. Send(b, packet)
      BY <1>b, <1>7, <2>4 DEF NotifyOpens, packet
    <3>4. /\ writer'[w].at = "chunks" /\ writer'[w].current = b
          /\ writer'[w].size = file /\ writer'[w].sent = 0
      BY <1>b, <1>1, <1>7, <2>4 DEF NotifyOpens, Work
    <3>5. Due(b)' = file /\ \A c \in Backups \ {b} : Due(c)' = AnEvent
      BY <1>b, <2>1, <3>1, <3>4 DEF Due
    <3>6. Fits(AFile, packet) /\ Then(AFile, packet) = file
      BY <3>2 DEF Fits, Then, AFile, AnEvent
    <3>7. \A c \in Backups \ {b} : Due(c)' = Due(c)
      BY <2>2, <3>5, <3>6
    <3>8. Fits(Due(b), packet) /\ Due(b)' = Then(Due(b), packet)
      BY <2>2, <3>5, <3>6
    <3> QED BY <1>2, <1>5, <3>2, <3>3, <3>7, <3>8, Sent
  <2> QED BY <2>3, <2>4
<1>8. CASE NotifyChunks(w)
  <2>1. w = "user" /\ writer[w].at = "chunks"
    BY <1>1, <1>8 DEF NotifyChunks, At
  <2>2. Due(b) = writer[w].size - writer[w].sent /\ \A c \in Backups \ {b} : Due(c) = AnEvent
    BY <1>b, <2>1 DEF Due
  <2>3. writer[w].sent \in Nat /\ writer[w].size \in Nat
    BY <1>1, BoundsAssumption DEF Work
  <2>4. CASE writer[w].sent < writer[w].size /\ ~Down(b)
    <3> DEFINE packet == Packet("data", 0)
    <3>1. packet \in Packets /\ packet.type = "data"
      BY MadePackets DEF Packet
    <3> HIDE DEF packet
    <3>2. Send(b, packet)
      BY <1>b, <1>8, <2>4 DEF NotifyChunks, packet
    <3>3. /\ writer'[w].at = "chunks" /\ writer'[w].current = b
          /\ writer'[w].size = writer[w].size /\ writer'[w].sent = writer[w].sent + 1
      BY <1>b, <1>1, <1>8, <2>1, <2>4 DEF NotifyChunks, Work
    <3>4. Due(b)' = writer[w].size - (writer[w].sent + 1)
          /\ \A c \in Backups \ {b} : Due(c)' = AnEvent
      BY <1>b, <2>1, <3>3 DEF Due
    <3>5. Fits(Due(b), packet) /\ Then(Due(b), packet) = writer[w].size - (writer[w].sent + 1)
      BY <2>2, <2>3, <2>4, <3>1 DEF Fits, Then, AFile, AnEvent
    <3>7. \A c \in Backups \ {b} : Due(c)' = Due(c)
      BY <2>2, <3>4, <3>5
    <3>8. Fits(Due(b), packet) /\ Due(b)' = Then(Due(b), packet)
      BY <2>2, <3>4, <3>5
    <3> QED BY <1>2, <1>5, <3>1, <3>2, <3>7, <3>8, Sent
  <2>5. CASE ~(writer[w].sent < writer[w].size /\ ~Down(b))
    <3>1. wire' = wire /\ writer'[w].at = "node"
      BY <1>b, <1>1, <1>8, <2>5 DEF NotifyChunks, OnTo, Work
    <3>2. \A c : Due(c)' = AnEvent
      BY <1>b, <2>1, <3>1 DEF Due
    <3>3. ~altered /\ ~Down(b) => Due(b) = AnEvent
      <4>1. ~altered => writer[w].sent <= writer[w].size
        BY <2>1 DEF FileThere, WritersKinds
      <4> QED BY <2>2, <2>3, <2>5, <4>1 DEF AnEvent
    <3>4. \A c : (Down(c)' <=> Down(c)) /\ Reading(c)' = Reading(c)
      BY <1>2 DEF Down, Reading
    <3> QED BY <1>2, <2>2, <3>1, <3>2, <3>3, <3>4, Unsent
  <2> QED BY <2>4, <2>5
<1>9. CASE NotifyDeletes(w)
  <2> DEFINE packet == Packet("delete", 0)
  <2>1. w = "user" /\ writer[w].at = "delete"
    BY <1>1, <1>9 DEF NotifyDeletes, At
  <2>2. Due(b) = AFile /\ \A c \in Backups \ {b} : Due(c) = AnEvent
    BY <1>b, <2>1 DEF Due
  <2>3. packet \in Packets /\ packet.packets = 0 /\ packet.type = "delete"
    BY MadePackets DEF Packet
  <2> HIDE DEF packet
  <2>4. Send(b, packet)
    BY <1>b, <1>9 DEF NotifyDeletes, packet
  <2>5. writer'[w].at = "node"
    BY <1>1, <1>9 DEF NotifyDeletes, OnTo, Work
  <2>6. \A c : Due(c)' = AnEvent
    BY <2>1, <2>5 DEF Due
  <2>7. Fits(AFile, packet) /\ Then(AFile, packet) = AnEvent
    BY <2>3 DEF Fits, Then, AFile, AnEvent
  <2> QED BY <1>2, <1>5, <2>2, <2>3, <2>4, <2>6, <2>7, Sent
<1> QED BY <1>6, <1>7, <1>8, <1>9

LEMMA TellsUnderstood ==
    ASSUME IInv, WritersKinds, Understood, ListenerTells
    PROVE  Understood'
<1> DEFINE me == writer["listener"]
           new == writer["listener"].new
           packet == Event("REPLICA_ADDED", writer["listener"].current)
<1>1. /\ writer \in [Writers -> Work] /\ me \in Work
      /\ me.at = "tell" /\ me.current \in Backups /\ me.current # NULL
  BY WriterIsFunction, ThreadNames DEF IInv, ListenerTells, At, Sound, Work, Nodes
<1>2. new \in Backups
  BY <1>1 DEF IInv, Types, Telling, Work, Nodes
<1>3. packet \in Packets /\ packet.type = "event" /\ packet.kind = "REPLICA_ADDED"
  BY <1>1, MadePackets DEF Event, Kinds, Nodes
<1>4. /\ Send(new, packet) /\ UNCHANGED <<backup, misread, altered, breached>>
      /\ mingled' = IF MidFile(new) THEN mingled \cup {new} ELSE mingled
      /\ writer'["user"] = writer["user"]
  BY <1>1 DEF ListenerTells
<1> HIDE DEF packet
<1>5. \A c : Due(c)' = Due(c)
  BY <1>4 DEF Due
<1>6. new \notin mingled' => Due(new) = AnEvent
  BY <1>2, <1>4, ThreadNames DEF MidFile, Due
<1>7. Fits(AnEvent, packet) /\ Then(AnEvent, packet) = AnEvent
  BY <1>3 DEF Fits, Then
<1> QED BY <1>2, <1>3, <1>4, <1>5, <1>6, <1>7, Sent DEF IInv, Types

LEMMA StepUnderstood ==
    ASSUME IInv, WritersKinds, FileThere, Understood, [Next]_vars
    PROVE  Understood'
<1>1. /\ writer \in [Writers -> Work] /\ backup \in [Backups -> Seat]
      /\ wire \in [Backups -> Seq(Packets)]
      /\ writer["user"] \in Work
  BY WriterIsFunction, ThreadNames DEF IInv, Types, TypeOK
<1>2. ASSUME UNCHANGED <<writer, wire, backup, history>> PROVE Understood'
  BY <1>2 DEF Understood, Leads, Reading, Due, Down, history
<1>3. CASE UNCHANGED vars
  BY <1>2, <1>3 DEF vars, backups
<1>4. ASSUME NEW w \in Writers, Dangling(w) PROVE Understood'
  BY <1>2, <1>4 DEF Dangling, backups
<1>5. ASSUME UNCHANGED <<backups, misread, mingled, altered>>, breached => breached',
             \A b : Due(b)' = Due(b)
      PROVE  Understood'
  <2>1. \A b : (Down(b)' <=> Down(b)) /\ Reading(b)' = Reading(b)
    BY <1>5 DEF Down, Reading, backups
  <2> QED BY <1>5, <2>1, Unsent DEF backups
<1>6. CASE \/ \E b \in Backups : ListenerAccepts(b)
           \/ ListenerInserts \/ ListenerCounts \/ HeartbeatDue
  <2>1. UNCHANGED <<backups, history>> /\ writer'["user"] = writer["user"]
    BY <1>1, <1>6, ThreadNames
       DEF ListenerAccepts, ListenerInserts, ListenerCounts, HeartbeatDue, Goes
  <2>2. \A b : Due(b)' = Due(b)
    BY <2>1 DEF Due
  <2> QED BY <1>5, <2>1, <2>2 DEF history
<1>7. CASE ListenerUnlocks
  <2>1. UNCHANGED <<backups, misread, mingled, altered>> /\ writer'["user"] = writer["user"]
    BY <1>1, <1>7, ThreadNames DEF ListenerUnlocks
  <2>2. breached => breached'
    BY <1>7, Zenon DEF ListenerUnlocks
  <2>3. \A b : Due(b)' = Due(b)
    BY <2>1 DEF Due
  <2> QED BY <1>5, <2>1, <2>2, <2>3
<1>8. CASE UserUploads \/ UserDeletes
  <2>1. /\ UNCHANGED <<backups, history>>
        /\ writer["user"].at = "idle" /\ writer'["user"].at = "lock"
    BY <1>1, <1>8, ThreadNames DEF UserUploads, UserDeletes, At, Idle
  <2>2. \A b : Due(b)' = Due(b)
    BY <2>1 DEF Due
  <2> QED BY <1>5, <2>1, <2>2 DEF history
<1>9. CASE FileChanges
  <2>1. CASE altered'
    BY <2>1 DEF Understood
  <2>2. CASE ~altered'
    <3>1. ~(writer["user"].kind = "FILE_UPLOADED" /\ writer["user"].at # "idle") /\ ~altered
      BY <1>9, <2>2, Zenon DEF FileChanges
    <3>2. writer["user"].at # "chunks"
      BY <3>1 DEF WritersKinds
    <3>3. writer' = writer /\ UNCHANGED <<backups, misread, mingled, breached>>
      BY <1>9, <3>2 DEF FileChanges
    <3>4. \A b : (Down(b)' <=> Down(b)) /\ Reading(b)' = Reading(b) /\ Due(b)' = Due(b)
      BY <3>3 DEF Down, Reading, Due, backups
    <3> QED BY <3>1, <3>3, <3>4, Unsent DEF backups
  <2> QED BY <2>1, <2>2
<1>10. ASSUME NEW w \in Writers, NotifyLocks(w) \/ NotifyStep(w) PROVE Understood'
  <2>1. CASE NotifyLocks(w) \/ NotifyRemoves(w) \/ NotifyUnlocks(w)
    <3>1. /\ UNCHANGED <<backups, history>>
          /\ writer[w].at \in {"lock", "node"} /\ writer'[w].at \in {"node", "tell", "idle"}
          /\ \A v \in Writers \ {w} : writer'[v] = writer[v]
      <4>1. CASE NotifyLocks(w)
        BY <1>1, <4>1, WriterIsFunction DEF IInv, NotifyLocks, At, Work
      <4>2. CASE NotifyRemoves(w)
        BY <1>1, <4>2, WriterIsFunction DEF IInv, NotifyRemoves, At, Work
      <4>3. CASE NotifyUnlocks(w)
        BY <1>1, <4>3, WriterIsFunction DEF IInv, NotifyUnlocks, At, Work, Idle
      <4> QED BY <2>1, <4>1, <4>2, <4>3
    <3>2. \A b : Due(b)' = Due(b)
      BY <3>1, ThreadNames DEF Due
    <3> QED BY <1>5, <3>1, <3>2 DEF history
  <2> QED BY <1>10, <2>1, SendsUnderstood DEF NotifyStep
<1>11. ASSUME NEW b \in Backups, BackupConnects(b) \/ BackupCrashes(b) PROVE Understood'
  <2>1. UNCHANGED <<writer, history>>
    BY <1>11 DEF BackupConnects, BackupCrashes
  <2>2. /\ \A c \in Backups \ {b} : backup'[c] = backup[c] /\ wire'[c] = wire[c]
        /\ \/ backup'[b].at = "down"
           \/ backup[b].at = "out" /\ backup'[b].at = "loop" /\ wire'[b] = wire[b]
    <3>1. CASE BackupConnects(b)
      BY <1>1, <3>1 DEF BackupConnects, Seat
    <3>2. CASE BackupCrashes(b)
      BY <1>1, <3>2 DEF BackupCrashes, Seat
    <3> QED BY <1>11, <3>1, <3>2
  <2>3. \A c \in Backups : Due(c)' = Due(c)
    BY <2>1 DEF Due
  <2>4. \A c \in Backups : ~Down(c)' =>
           ~Down(c) /\ wire'[c] = wire[c] /\ Reading(c)' = Reading(c)
    BY <2>2 DEF Down, Reading
  <2> QED BY <2>1, <2>3, <2>4, Unsent DEF history
<1> QED BY <1>3, <1>4, <1>6, <1>7, <1>8, <1>9, <1>10, <1>11, ThreadNames,
           ReadsUnderstood, TellsUnderstood
        DEF Next, ListenerStep, HeartbeatStep

(* A backup takes a packet for what it is, unless it was told of a replica  *)
(* in the middle of a file, the file changed after its event, or the        *)
(* listener had unlocked the mutex of another thread (replica.c:154-176,    *)
(* 187-220, communication.c:96-135, serverRoles.c:257-305).                 *)
THEOREM BackupsInStep == Spec => []InStep
<1> DEFINE Inv == IInv /\ WritersKinds /\ FileThere /\ Understood
<1>1. Init => Inv
  BY InitIInv, InitUnderstood
<1>2. Inv /\ [Next]_vars => Inv'
  BY StepIInv, StepKinds, StepUnderstood
<1>3. Inv => InStep
  <2>1. TypeOK => misread \subseteq Backups
    BY DEF TypeOK
  <2> QED BY <2>1 DEF IInv, Types, Understood, InStep
<1> QED BY <1>1, <1>2, <1>3, PTL DEF Spec
-----------------------------------------------------------------------------
(* The list implements ReplicaGroup.                                        *)

(* Who has the mutex is in notify_replicas.                                 *)
Owning == \A w \in Writers : owner = w => Inside(w)

LEMMA OwningStep ==
    ASSUME IInv, Owning, [Next]_vars
    PROVE  Owning'
<1> USE DEF Owning
<1>0. writer \in [Writers -> Work] /\ \A w \in Writers : writer[w] \in Work
  BY WriterIsFunction DEF IInv
<1>1. ASSUME NEW w \in Writers, UNCHANGED owner, ~Inside(w) \/ Inside(w)',
             \A v \in Writers \ {w} : writer'[v] = writer[v]
      PROVE  Owning'
  BY <1>1 DEF Inside
<1>2. ASSUME owner' = NULL PROVE Owning'
  BY <1>2, NullApart
<1>3. CASE UNCHANGED <<owner, writer>>
  BY <1>3 DEF Inside
<1>4. ASSUME NEW b \in Backups, ListenerAccepts(b) PROVE Owning'
  BY <1>0, <1>1, <1>4, ThreadNames DEF ListenerAccepts, At, Inside
<1>5. CASE ListenerInserts \/ ListenerCounts \/ ListenerTells
  BY <1>0, <1>1, <1>5, ThreadNames
     DEF ListenerInserts, ListenerCounts, ListenerTells, Goes, At, Inside
<1>6. CASE ListenerUnlocks
  BY <1>2, <1>6 DEF ListenerUnlocks
<1>7. CASE HeartbeatDue \/ UserUploads \/ UserDeletes
  BY <1>0, <1>1, <1>7, ThreadNames DEF HeartbeatDue, UserUploads, UserDeletes, Goes, At, Inside
<1>8. CASE FileChanges
  BY <1>0, <1>1, <1>8, ThreadNames DEF FileChanges, Work, Inside
<1>9. ASSUME NEW w \in Writers, NotifyLocks(w) PROVE Owning'
  BY <1>0, <1>9 DEF NotifyLocks, Inside
<1>10. ASSUME NEW w \in Writers, NotifyStep(w) PROVE Owning'
  <2>1. CASE NotifyUnlocks(w)
    BY <1>2, <2>1 DEF NotifyUnlocks
  <2>2. CASE ~NotifyUnlocks(w)
    <3>1. UNCHANGED owner /\ \A v \in Writers \ {w} : writer'[v] = writer[v]
      BY <1>0, <1>10, <2>2
         DEF NotifyStep, NotifySends, NotifyRemoves, NotifyOpens, NotifyChunks, NotifyDeletes,
             OnTo, Goes
    <3>2. writer'[w].at \in {"node", "open", "chunks", "delete"}
      BY <1>0, <1>10, <2>2
         DEF NotifyStep, NotifySends, NotifyRemoves, NotifyOpens, NotifyChunks, NotifyDeletes,
             OnTo, Goes, At, Work
    <3> QED BY <1>1, <3>1, <3>2 DEF Inside
  <2> QED BY <2>1, <2>2
<1>11. ASSUME NEW w \in Writers, Dangling(w) PROVE Owning'
  BY <1>3, <1>11 DEF Dangling
<1>12. ASSUME NEW b \in Backups, BackupConnects(b) \/ BackupCrashes(b) \/ BackupStep(b)
       PROVE  Owning'
  BY <1>3, <1>12 DEF BackupConnects, BackupCrashes, BackupStep, BackupReadsEvent,
                     BackupReadsFile, BackupReadsChunk, Reads
<1>13. CASE UNCHANGED vars
  BY <1>3, <1>13 DEF vars
<1> QED BY <1>4, <1>5, <1>6, <1>7, <1>8, <1>9, <1>10, <1>11, <1>12, <1>13, ThreadNames
        DEF Next, ListenerStep, HeartbeatStep

(* What a walk has ahead of it: nothing at the end of the list, and at a    *)
(* node that node and what is ahead of the next.                            *)
LEMMA AheadOfNothing ==
    ASSUME NEW link
    PROVE  Ahead(link, NULL) = {}
<1>1. /\ {} \in SUBSET Backups /\ NULL \in {} \cup {NULL}
      /\ \A a \in {} : link[a] \in {} \cup {NULL}
  OBVIOUS
<1>2. ASSUME NEW b \in Ahead(link, NULL) PROVE b \in {}
  BY <1>1 DEF Ahead
<1> QED BY <1>2

LEMMA AheadSteps ==
    ASSUME TypeOK, Linked, NEW b \in Members
    PROVE  b \in Ahead(next, b) /\ Ahead(next, next[b]) = Ahead(next, b) \ {b}
<1>1. Members \subseteq Backups /\ b \in Backups /\ b # NULL
  BY NullApart DEF Members
<1>2. b \in Ahead(next, b)
  BY <1>1 DEF Ahead
<1>3. b \notin Ahead(next, next[b])
  <2>1. PICK rank \in [Backups -> Nat] :
           \A c \in Members : next[c] # NULL => rank[next[c]] < rank[c]
    BY DEF Linked, Acyclic
  <2> DEFINE lower == {c \in Members : rank[c] < rank[b]}
  <2>2. lower \in SUBSET Backups /\ b \notin lower
    BY <1>1, <2>1
  <2>3. next[b] \in lower \cup {NULL}
    BY <2>1 DEF Linked
  <2>4. ASSUME NEW a \in lower PROVE next[a] \in lower \cup {NULL}
    <3>1. a \in Members /\ next[a] \in Members \cup {NULL}
      BY DEF Linked
    <3>2. CASE next[a] # NULL
      <4>1. rank[next[a]] < rank[a] /\ rank[a] < rank[b]
        BY <2>1, <3>1, <3>2
      <4>2. rank[next[a]] \in Nat /\ rank[a] \in Nat /\ rank[b] \in Nat
        BY <1>1, <2>1, <3>1, <3>2
      <4> QED BY <3>1, <3>2, <4>1, <4>2
    <3> QED BY <3>2
  <2> HIDE DEF lower
  <2> QED BY <2>2, <2>3, <2>4 DEF Ahead
<1>4. ASSUME NEW c \in Ahead(next, next[b]) PROVE c \in Ahead(next, b)
  BY <1>1, <1>4 DEF Ahead
<1>5. ASSUME NEW c \in Ahead(next, b), c # b PROVE c \in Ahead(next, next[b])
  <2> SUFFICES ASSUME NEW S \in SUBSET Backups, next[b] \in S \cup {NULL},
                      \A a \in S : next[a] \in S \cup {NULL}
               PROVE  c \in S
    BY DEF Ahead
  <2>1. S \cup {b} \in SUBSET Backups /\ \A a \in S \cup {b} : next[a] \in (S \cup {b}) \cup {NULL}
    BY <1>1
  <2>2. c \in S \cup {b}
    BY <2>1 DEF Ahead
  <2> QED BY <1>5, <2>2
<1> QED BY <1>2, <1>3, <1>4, <1>5

(* The links behind a walk do not matter to it.                             *)
LEMMA AheadOnly ==
    ASSUME NEW link, NEW other, NEW node, NEW D \in SUBSET Backups, node \in D \cup {NULL},
           \A a \in D : link[a] \in D \cup {NULL} /\ other[a] = link[a]
    PROVE  Ahead(other, node) \subseteq Ahead(link, node)
<1> SUFFICES ASSUME NEW b \in Ahead(other, node), NEW S \in SUBSET Backups,
                    node \in S \cup {NULL}, \A a \in S : link[a] \in S \cup {NULL}
             PROVE  b \in S
  BY DEF Ahead
<1>1. S \cap D \in SUBSET Backups /\ node \in (S \cap D) \cup {NULL}
      /\ \A a \in S \cap D : other[a] \in (S \cap D) \cup {NULL}
  OBVIOUS
<1>2. b \in S \cap D
  BY <1>1 DEF Ahead
<1> QED BY <1>2

LEMMA AheadSame ==
    ASSUME NEW link, NEW other, NEW node, NEW D \in SUBSET Backups, node \in D \cup {NULL},
           \A a \in D : link[a] \in D \cup {NULL} /\ other[a] = link[a]
    PROVE  Ahead(other, node) = Ahead(link, node)
<1>1. Ahead(other, node) \subseteq Ahead(link, node)
  BY AheadOnly
<1>2. \A a \in D : other[a] \in D \cup {NULL} /\ link[a] = other[a]
  OBVIOUS
<1>3. Ahead(link, node) \subseteq Ahead(other, node)
  BY <1>2, AheadOnly
<1> QED BY <1>1, <1>3

LEMMA AheadUnlinked ==
    ASSUME TypeOK, Linked, NEW b \in Members, NEW prev \in Members, next[prev] = b,
           next' = [next EXCEPT ![prev] = next[b]]
    PROVE  Ahead(next', next[b]) = Ahead(next, next[b])
<1>1. Members \subseteq Backups /\ b \in Backups /\ b # NULL
  BY NullApart DEF Members
<1>2. PICK rank \in [Backups -> Nat] :
         \A c \in Members : next[c] # NULL => rank[next[c]] < rank[c]
  BY DEF Linked, Acyclic
<1> DEFINE lower == {c \in Members : rank[c] < rank[b]}
<1>3. lower \in SUBSET Backups /\ prev \notin lower
  <2>1. rank[b] < rank[prev] /\ rank[b] \in Nat /\ rank[prev] \in Nat
    BY <1>1, <1>2
  <2> QED BY <1>1, <2>1
<1>4. next[b] \in lower \cup {NULL}
  BY <1>2 DEF Linked
<1>5. ASSUME NEW a \in lower PROVE next[a] \in lower \cup {NULL}
  <2>1. a \in Members /\ next[a] \in Members \cup {NULL}
    BY DEF Linked
  <2>2. CASE next[a] # NULL
    <3>1. rank[next[a]] < rank[a] /\ rank[a] < rank[b]
      BY <1>2, <2>1, <2>2
    <3>2. rank[next[a]] \in Nat /\ rank[a] \in Nat /\ rank[b] \in Nat
      BY <1>1, <1>2, <2>1, <2>2
    <3> QED BY <2>1, <2>2, <3>1, <3>2
  <2> QED BY <2>2
<1>6. \A a \in lower : next'[a] = next[a]
  BY <1>3 DEF TypeOK
<1> HIDE DEF lower
<1> DEFINE other == next'
<1>7. \A a \in lower : next[a] \in lower \cup {NULL} /\ other[a] = next[a]
  BY <1>5, <1>6
<1> HIDE DEF other
<1>8. Ahead(other, next[b]) = Ahead(next, next[b])
  BY <1>3, <1>4, <1>7, AheadSame
<1> QED BY <1>8 DEF other

(* Steps that the group does not notice.                                    *)
LEMMA Unnoticed ==
    ASSUME UNCHANGED <<owner, next, freed, breached>>,
           \A b \in Backups : Inserted(b)' <=> Inserted(b),
           Gone' = Gone,
           \A w \in Writers : owner = w => writer'[w].current = writer[w].current,
           owner \in Writers \cup {NULL}
    PROVE  UNCHANGED Group!vars
<1>1. Members' = Members
  BY DEF Members
<1>2. Pending' = Pending
  <2>1. CASE owner = NULL
    BY <2>1 DEF Pending
  <2>2. CASE owner # NULL
    BY <2>2 DEF Pending
  <2> QED BY <2>1, <2>2
<1> QED BY <1>1, <1>2 DEF Group!vars, Group!group, Group!notification

LEMMA InitGroup == Init => Group!Init
<1> SUFFICES ASSUME Init PROVE Group!Init
  OBVIOUS
<1>1. Members = {} /\ Gone = {} /\ Pending = {}
  BY DEF Init, Members, Inserted, Gone, Down, Pending
<1> QED BY <1>1 DEF Init, Group!Init

LEMMA InsertEnters ==
    ASSUME IInv, ~breached, ListenerInserts
    PROVE  Group!Enter(writer["listener"].new) /\ writer["listener"].new \in Backups
<1> DEFINE new == writer["listener"].new
<1>1. /\ writer["listener"].at = "insert" /\ owner = NULL /\ owner' = NULL
      /\ writer'["listener"].at = "count"
  BY ThreadNames, WriterIsFunction DEF IInv, ListenerInserts, At, Goes, Work
<1>2. UNCHANGED <<freed, arriving, backup>>
  BY DEF ListenerInserts, backups
<1>3. new \in Backups \ arriving /\ backup[new].at # "out"
  BY <1>1 DEF IInv, Joining
<1>4. \A c \in Backups : Inserted(c)' <=> Inserted(c) \/ c = new
  BY <1>1, <1>2, <1>3 DEF Inserted
<1>5. ~Inserted(new)
  BY <1>1 DEF Inserted
<1>6. new \notin freed
  BY <1>5 DEF IInv, Linked
<1>7. new \notin Members /\ Members' = Members \cup {new}
  BY <1>2, <1>3, <1>4, <1>5, <1>6 DEF Members
<1>8. Gone' = Gone /\ Pending' = Pending
  BY <1>1, <1>2 DEF Gone, Down, Pending
<1> QED BY <1>1, <1>2, <1>3, <1>6, <1>7, <1>8 DEF Group!Enter, Group!notification

LEMMA LockBegins ==
    ASSUME IInv, ~breached, NEW w \in Writers, NotifyLocks(w)
    PROVE  Group!Begin(w)
<1>1. /\ writer[w].at = "lock" /\ owner = NULL /\ owner' = w
      /\ writer'[w].at = "node" /\ writer'[w].current = head
      /\ \A v \in Writers \ {w} : writer'[v] = writer[v]
  BY WriterIsFunction DEF IInv, NotifyLocks, At, Work
<1>2. UNCHANGED <<head, next, freed, arriving, backup>>
  BY DEF NotifyLocks, list, backups
<1>3. \A b \in Backups : Inserted(b)' <=> Inserted(b)
  BY <1>1, <1>2, SameInserted, ThreadNames
<1>4. Members' = Members /\ Gone' = Gone
  BY <1>2, <1>3 DEF Members, Gone, Down
<1>5. Pending' = Ahead(next, head)
  BY <1>1, <1>2, NullApart DEF Pending
<1>6. Pending' = Members
  BY <1>5, AllReached DEF IInv, Types, Reached
<1> QED BY <1>1, <1>2, <1>4, <1>6 DEF Group!Begin, Group!group

(* Where the thread that notifies is in the list.                           *)
LEMMA NotifierPlaced ==
    ASSUME IInv, ~breached, NEW w \in Writers, Inside(w)
    PROVE  /\ owner = w /\ owner # NULL /\ PlacedAt(w) /\ Linked
           /\ Pending = Ahead(next, writer[w].current)
BY NullApart DEF IInv, Exclusive, Placed, Pending

LEMMA PassTells ==
    ASSUME IInv, ~breached, NEW w \in Writers, Inside(w), Sound(w), OnTo(w),
           UNCHANGED <<owner, next, freed, arriving, backup>>
    PROVE  Group!Tell(writer[w].current) /\ writer[w].current \in Backups
<1> DEFINE b == writer[w].current
<1>1. /\ owner = w /\ owner # NULL /\ PlacedAt(w) /\ Linked
      /\ Pending = Ahead(next, b)
  BY NotifierPlaced
<1>2. writer'[w].at = "node" /\ writer'[w].current = next[b]
      /\ \A v \in Writers \ {w} : writer'[v] = writer[v]
  BY WriterIsFunction DEF IInv, OnTo, Work
<1>3. b \in Members /\ b \in Backups
  BY <1>1 DEF PlacedAt, Sound, Members
<1>4. b \in Ahead(next, b) /\ Ahead(next, next[b]) = Ahead(next, b) \ {b}
  BY <1>1, <1>3, AheadSteps DEF IInv, Types
<1>5. Pending' = Ahead(next, next[b])
  BY <1>1, <1>2 DEF Pending
<1>6. \A c \in Backups : Inserted(c)' <=> Inserted(c)
  BY <1>2, SameInserted, ThreadNames DEF Inside
<1>7. Members' = Members /\ Gone' = Gone
  BY <1>6 DEF Members, Gone, Down
<1> QED BY <1>1, <1>3, <1>4, <1>5, <1>7 DEF Group!Tell, Group!group

LEMMA RemovalRemoves ==
    ASSUME IInv, ~breached, NEW w \in Writers, NotifyRemoves(w)
    PROVE  Group!Remove(writer[w].current) /\ writer[w].current \in Backups
<1> DEFINE b == writer[w].current
           prev == writer[w].prev
<1>1. /\ writer[w].at = "node" /\ writer'[w].at = "node" /\ Sound(w)
      /\ writer'[w].current = next[b] /\ Down(b) /\ Unlink(prev, b)
      /\ freed' = freed \cup {b}
      /\ \A v \in Writers \ {w} : writer'[v] = writer[v]
  BY WriterIsFunction DEF IInv, NotifyRemoves, At, Work
<1>2. UNCHANGED <<owner, arriving, backup>>
  BY DEF NotifyRemoves, backups
<1>3. /\ owner = w /\ owner # NULL /\ PlacedAt(w) /\ Linked
      /\ Pending = Ahead(next, b)
  BY <1>1, NotifierPlaced DEF Inside
<1>4. b \in Members /\ b \in Backups
  BY <1>1, <1>3 DEF PlacedAt, Sound, Members
<1>5. b \in Ahead(next, b) /\ Ahead(next, next[b]) = Ahead(next, b) \ {b}
  BY <1>3, <1>4, AheadSteps DEF IInv, Types
<1>6. Ahead(next', next[b]) = Ahead(next, next[b])
  <2>1. CASE prev = NULL
    BY <1>1, <2>1 DEF Unlink
  <2>2. CASE prev # NULL
    <3>1. prev \in Members /\ next[prev] = b /\ next' = [next EXCEPT ![prev] = next[b]]
      BY <1>1, <1>3, <2>2 DEF PlacedAt, Unlink
    <3> QED BY <1>3, <1>4, <3>1, AheadUnlinked DEF IInv, Types
  <2> QED BY <2>1, <2>2
<1>7. Pending' = Ahead(next', next[b])
  BY <1>1, <1>2, <1>3 DEF Pending
<1>8. \A c \in Backups : Inserted(c)' <=> Inserted(c)
  BY <1>1, <1>2, SameInserted, ThreadNames
<1>9. Members' = Members \ {b} /\ Gone' = Gone /\ b \in Gone
  BY <1>1, <1>2, <1>4, <1>8 DEF Members, Gone, Down
<1> QED BY <1>1, <1>2, <1>3, <1>4, <1>5, <1>6, <1>7, <1>9 DEF Group!Remove

LEMMA UnlockEnds ==
    ASSUME IInv, ~breached, NEW w \in Writers, NotifyUnlocks(w)
    PROVE  Group!End
<1>1. /\ writer[w].at = "node" /\ writer[w].current = NULL /\ owner' = NULL
      /\ writer'[w].at # "insert"
      /\ \A v \in Writers \ {w} : writer'[v] = writer[v]
  BY WriterIsFunction DEF IInv, NotifyUnlocks, At, Idle, Work
<1>2. UNCHANGED <<freed, arriving, backup>>
  BY DEF NotifyUnlocks, list, backups
<1>3. owner # NULL /\ Pending = {}
  BY <1>1, NotifierPlaced, AheadOfNothing DEF Inside
<1>4. Pending' = {}
  BY <1>1 DEF Pending
<1>5. \A c \in Backups : Inserted(c)' <=> Inserted(c)
  BY <1>1, <1>2, SameInserted, ThreadNames
<1>6. Members' = Members /\ Gone' = Gone
  BY <1>2, <1>5 DEF Members, Gone, Down
<1> QED BY <1>1, <1>2, <1>3, <1>4, <1>6 DEF Group!End, Group!group

(* A replica closes the connection, or something happens to it that nobody  *)
(* else notices.                                                            *)
LEMMA BackupCloses ==
    ASSUME IInv, ~breached, NEW b \in Backups,
           BackupConnects(b) \/ BackupCrashes(b) \/ BackupStep(b)
    PROVE  Group!Close(b) \/ UNCHANGED Group!vars
<1>1. UNCHANGED <<owner, next, freed, writer, breached>>
  BY DEF BackupConnects, BackupCrashes, BackupStep, BackupReadsEvent, BackupReadsFile,
         BackupReadsChunk, Reads, list, history
<1>2. /\ \A c \in Backups \ {b} : backup'[c] = backup[c]
      /\ \A c \in Backups : Inserted(c)' <=> Inserted(c)
  BY BackupInserts DEF IInv, Types
<1>3. ~Down(b)
  BY DEF BackupConnects, BackupCrashes, BackupStep, BackupReadsEvent, BackupReadsFile,
         BackupReadsChunk, Reads, Down
<1>4. Members' = Members /\ Pending' = Pending
  BY <1>1, <1>2 DEF Members, Pending
<1>5. CASE Down(b)'
  <2>1. Gone' = Gone \cup {b} /\ b \notin Gone
    BY <1>2, <1>3, <1>5 DEF Gone, Down
  <2> QED BY <1>1, <1>4, <2>1 DEF Group!Close, Group!group, Group!notification
<1>6. CASE ~Down(b)'
  <2>1. Gone' = Gone
    BY <1>2, <1>3, <1>6 DEF Gone, Down
  <2> QED BY <1>1, <1>4, <2>1 DEF Group!vars, Group!group, Group!notification
<1> QED BY <1>5, <1>6

(* The other threads' steps outside notify_replicas, and those inside that  *)
(* stay at a node.                                                          *)
LEMMA OutsideUnnoticed ==
    ASSUME IInv, Owning, ~breached',
           \/ \E b \in Backups : ListenerAccepts(b)
           \/ ListenerCounts \/ ListenerTells
           \/ HeartbeatDue \/ UserUploads \/ UserDeletes \/ FileChanges
    PROVE  UNCHANGED Group!vars
<1>0. writer \in [Writers -> Work] /\ \A w \in Writers : writer[w] \in Work
  BY WriterIsFunction DEF IInv
<1>1. UNCHANGED <<owner, next, freed, backup, breached>>
  BY DEF ListenerAccepts, ListenerCounts, ListenerTells, HeartbeatDue, UserUploads,
         UserDeletes, FileChanges, list, backups, history
<1>2. Gone' = Gone /\ owner \in Writers \cup {NULL}
  BY <1>1 DEF Gone, Down, IInv, Types, TypeOK
<1>3. ASSUME NEW b \in Backups, ListenerAccepts(b) PROVE UNCHANGED Group!vars
  <2>1. /\ writer["listener"].at = "idle"
        /\ writer'["listener"].at = "insert" /\ writer'["listener"].new = b
        /\ \A v \in Writers \ {"listener"} : writer'[v] = writer[v]
    BY <1>0, <1>3, ThreadNames DEF ListenerAccepts, At, Idle
  <2>2. \A c \in Backups : Inserted(c)' <=> Inserted(c)
    BY <1>1, <1>3, <2>1 DEF Inserted, ListenerAccepts
  <2>3. \A w \in Writers : owner = w => writer'[w].current = writer[w].current
    BY <2>1 DEF Owning, Inside
  <2> QED BY <1>1, <1>2, <2>2, <2>3, Unnoticed
<1>4. CASE ListenerCounts \/ ListenerTells
  <2>1. /\ writer["listener"].at \in {"count", "tell"}
        /\ writer'["listener"].at \in {"lock", "tell"}
        /\ \A v \in Writers \ {"listener"} : writer'[v] = writer[v]
        /\ UNCHANGED arriving
    BY <1>0, <1>4, ThreadNames DEF ListenerCounts, ListenerTells, At, Goes, Work
  <2>2. \A c \in Backups : Inserted(c)' <=> Inserted(c)
    BY <1>1, <2>1, SameInserted
  <2>3. \A w \in Writers : owner = w => writer'[w].current = writer[w].current
    BY <2>1 DEF Owning, Inside
  <2> QED BY <1>1, <1>2, <2>2, <2>3, Unnoticed
<1>5. CASE HeartbeatDue \/ UserUploads \/ UserDeletes
  <2>1. PICK w \in Writers \ {"listener"} :
           /\ writer[w].at = "idle"
           /\ \A v \in Writers \ {w} : writer'[v] = writer[v]
    BY <1>0, <1>5, ThreadNames DEF HeartbeatDue, UserUploads, UserDeletes, Goes, At
  <2>2. \A c \in Backups : Inserted(c)' <=> Inserted(c)
    BY <1>1, <1>5, <2>1, SameInserted, ThreadNames DEF HeartbeatDue, UserUploads, UserDeletes
  <2>3. \A v \in Writers : owner = v => writer'[v].current = writer[v].current
    BY <2>1 DEF Owning, Inside
  <2> QED BY <1>1, <1>2, <2>2, <2>3, Unnoticed
<1>6. CASE FileChanges
  <2>1. /\ \A v \in Writers : writer'[v].current = writer[v].current
        /\ writer'["listener"] = writer["listener"]
    BY <1>0, <1>6, ThreadNames DEF FileChanges, Work
  <2>2. \A c \in Backups : Inserted(c)' <=> Inserted(c)
    BY <1>1, <1>6, <2>1, SameInserted DEF FileChanges
  <2> QED BY <1>1, <1>2, <2>1, <2>2, Unnoticed
<1> QED BY <1>3, <1>4, <1>5, <1>6

LEMMA PassRefines ==
    ASSUME IInv, ~breached, NEW w \in Writers,
           NotifySends(w) \/ NotifyOpens(w) \/ NotifyChunks(w) \/ NotifyDeletes(w)
    PROVE  \/ Group!Tell(writer[w].current) /\ writer[w].current \in Backups
           \/ UNCHANGED Group!vars
<1>0. writer \in [Writers -> Work] /\ \A v \in Writers : writer[v] \in Work
  BY WriterIsFunction DEF IInv
<1>1. writer[w].at \in {"node", "open", "chunks", "delete"} /\ Sound(w)
  BY DEF NotifySends, NotifyOpens, NotifyChunks, NotifyDeletes, At
<1>2. UNCHANGED <<owner, next, freed, arriving, backup, breached>>
  BY DEF NotifySends, NotifyOpens, NotifyChunks, NotifyDeletes, list, history
<1>3. CASE OnTo(w)
  BY <1>1, <1>2, <1>3, PassTells DEF Inside
<1>4. CASE ~OnTo(w)
  <2>1. /\ writer'[w].at # "insert" /\ writer'[w].current = writer[w].current
        /\ \A v \in Writers \ {w} : writer'[v] = writer[v]
    <3>1. CASE \E place \in {"open", "delete"} : Goes(w, place)
      BY <1>0, <3>1 DEF Goes, Work
    <3>2. CASE writer' = [writer EXCEPT ![w].at = "chunks", ![w].size = file, ![w].sent = 0]
      BY <1>0, <3>2 DEF Work
    <3>3. CASE writer' = [writer EXCEPT ![w].sent = @ + 1]
      BY <1>0, <1>1, <3>3 DEF Work
    <3> QED BY <1>4, <3>1, <3>2, <3>3 DEF NotifySends, NotifyOpens, NotifyChunks, NotifyDeletes
  <2>2. \A c \in Backups : Inserted(c)' <=> Inserted(c)
    BY <1>1, <1>2, <2>1, SameInserted, ThreadNames
  <2>3. \A v \in Writers : owner = v => writer'[v].current = writer[v].current
    BY <2>1
  <2>4. Gone' = Gone /\ owner \in Writers \cup {NULL}
    BY <1>2 DEF Gone, Down, IInv, Types, TypeOK
  <2> QED BY <1>2, <2>2, <2>3, <2>4, Unnoticed
<1> QED BY <1>3, <1>4

LEMMA StepRefines == IInv /\ Owning /\ [Next]_vars => [Group!Next]_(Group!vars)
<1> SUFFICES ASSUME IInv, Owning, [Next]_vars PROVE [Group!Next]_(Group!vars)
  OBVIOUS
<1>1. CASE breached'
  BY <1>1 DEF Group!Next
<1>2. CASE ~breached'
  <2>0. owner \in Writers \cup {NULL} /\ breached \in BOOLEAN
    BY DEF IInv, Types, TypeOK
  <2>1. CASE UNCHANGED vars
    <3>1. UNCHANGED <<owner, next, freed, breached, backup, arriving, writer>>
      BY <2>1 DEF vars, list, backups, history
    <3>2. \A c \in Backups : Inserted(c)' <=> Inserted(c)
      BY <3>1 DEF Inserted
    <3>3. Gone' = Gone
      BY <3>1 DEF Gone, Down
    <3> QED BY <2>0, <3>1, <3>2, <3>3, Unnoticed
  <2>2. ASSUME Next PROVE breached' = breached
    BY <1>2, <2>2, <2>0
       DEF Next, ListenerStep, HeartbeatStep, NotifyStep, BackupStep, ListenerAccepts,
           ListenerInserts, ListenerCounts, ListenerTells, ListenerUnlocks, HeartbeatDue,
           UserUploads, UserDeletes, FileChanges, NotifyLocks, NotifySends, NotifyRemoves,
           NotifyOpens, NotifyChunks, NotifyDeletes, NotifyUnlocks, Dangling, BackupConnects,
           BackupCrashes, BackupReadsEvent, BackupReadsFile, BackupReadsChunk, Reads, history
  <2>3. CASE Next
    <3> USE DEF Group!Next, Group!Promised
    <3>0. ~breached /\ breached' = breached
      BY <1>2, <2>2, <2>3
    <3>1. CASE ListenerInserts
      BY <3>0, <3>1, InsertEnters
    <3>2. ASSUME NEW w \in Writers, NotifyLocks(w) PROVE Group!Next
      BY <3>0, <3>2, LockBegins
    <3>3. ASSUME NEW w \in Writers, NotifyStep(w) PROVE [Group!Next]_(Group!vars)
      <4>1. CASE NotifySends(w) \/ NotifyOpens(w) \/ NotifyChunks(w) \/ NotifyDeletes(w)
        BY <3>0, <4>1, PassRefines
      <4>2. CASE NotifyRemoves(w)
        BY <3>0, <4>2, RemovalRemoves
      <4>3. CASE NotifyUnlocks(w)
        BY <3>0, <4>3, UnlockEnds
      <4> QED BY <3>3, <4>1, <4>2, <4>3 DEF NotifyStep
    <3>4. ASSUME NEW b \in Backups, BackupConnects(b) \/ BackupCrashes(b) \/ BackupStep(b)
          PROVE  [Group!Next]_(Group!vars)
      BY <3>0, <3>4, BackupCloses
    <3>5. CASE ListenerUnlocks
      <4>1. owner = NULL /\ owner' = NULL /\ UNCHANGED <<next, freed, breached, arriving, backup>>
        BY <1>2, <3>0, <3>5 DEF ListenerUnlocks, list, backups
      <4>2. writer["listener"].at = "tell" /\ writer'["listener"].at = "idle"
        BY <3>5, WriterIsFunction, ThreadNames DEF IInv, ListenerUnlocks, At, Idle
      <4>3. \A c \in Backups : Inserted(c)' <=> Inserted(c)
        BY <4>1, <4>2, SameInserted
      <4>4. Gone' = Gone
        BY <4>1 DEF Gone, Down
      <4> QED BY <2>0, <4>1, <4>3, <4>4, NullApart, Unnoticed
    <3>6. ASSUME NEW w \in Writers, Dangling(w) PROVE UNCHANGED Group!vars
      <4>1. UNCHANGED <<owner, next, freed, breached, backup, arriving, writer>>
        BY <3>6 DEF Dangling, list, backups, history
      <4>2. \A c \in Backups : Inserted(c)' <=> Inserted(c)
        BY <4>1 DEF Inserted
      <4>3. Gone' = Gone
        BY <4>1 DEF Gone, Down
      <4> QED BY <2>0, <4>1, <4>2, <4>3, Unnoticed
    <3>7. ASSUME NEW b \in Backups, ListenerAccepts(b) PROVE UNCHANGED Group!vars
      BY <1>2, <3>7, OutsideUnnoticed
    <3>8. CASE ListenerCounts \/ ListenerTells \/ HeartbeatDue \/ UserUploads \/ UserDeletes
               \/ FileChanges
      BY <1>2, <3>8, OutsideUnnoticed
    <3> QED BY <2>3, <3>1, <3>2, <3>3, <3>4, <3>5, <3>6, <3>7, <3>8, ThreadNames
            DEF Next, ListenerStep, HeartbeatStep
  <2> QED BY <2>1, <2>3
<1> QED BY <1>1, <1>2

(* Until the listener unlocks the mutex of another thread (replica.c:187),  *)
(* the linked list is a group that each replica enters and leaves at most   *)
(* once, and a walk of notify_replicas comes by every member of it exactly  *)
(* once and takes out those alone that have closed the connection, though   *)
(* it unlinks nodes on its way (replica.c:47-66, 76-92, 191-225).           *)
THEOREM ListImplementsGroup == Spec => Group!Init /\ [][Group!Next]_(Group!vars)
<1>1. Init => Owning
  BY NullApart DEF Init, Owning
<1> QED BY InitGroup, StepRefines, OwningStep, <1>1, Invariance, PTL DEF Spec
=============================================================================
