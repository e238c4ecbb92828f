---------------------------- MODULE HandoverProofs ----------------------------
(***************************************************************************)
(* The hand-over, for any number of users, devices, slots and buckets:      *)
(* a user has one context, clients that are not served too early find their *)
(* slot, and the server dies of nothing but the accidents the model names.  *)
(*                                                                          *)
(* Searching for a context and inserting it take the lock of the bucket one *)
(* after the other, and two threads do both.  They do not meet over a user  *)
(* who has no context, unless a client came that nobody sent: one that was  *)
(* told of this server was told because it is in the table, and a context   *)
(* never leaves the table.                                                  *)
(***************************************************************************)
EXTENDS Handover, SequenceTheorems, FiniteSetTheorems, TLAPS

(* A context is in the bucket of its user, and in no other place.           *)
Stored ==
    \A c \in ContextIds : \E i \in DOMAIN table[keyHash[contexts[c].user]] :
       table[keyHash[contexts[c].user]][i] = c

HasContext(u) == \E c \in ContextIds : contexts[c].user = u

(* The sessions of a context are those of its user's devices.               *)
OwnSessions ==
    \A c \in ContextIds, i \in Slots :
       contexts[c].sessions[i] # NULL =>
          contexts[c].sessions[i].device \in Devices /\ User[contexts[c].sessions[i].device] = contexts[c].user

ToldKnown ==
    \A d \in Devices :
       device[d] \in {"told", "served", "turned_away", "waiting"} => HasContext(User[d])

ThreadsSound ==
    /\ thread["main"].at # "out"
    /\ \A t \in Threads : thread[t].at \in {"search", "insert", "lock"} => thread[t].event \in Events
    /\ met \/ \A t \in Threads :
          thread[t].at = "insert" => ~HasContext(User[thread[t].event.device])
    /\ met \/ \A u : ~(Creating("main", u) /\ Creating("conn", u))
    /\ \A t \in Threads : thread[t].at = "lock" =>
          /\ thread[t].context \in ContextIds
          /\ contexts[thread[t].context].user = User[thread[t].event.device]

(* A walk is at a context of its bucket.                                    *)
WalkSound == role.at \in Walking => role.node \in DOMAIN table[role.bucket]

IInv ==
    /\ TypeOK
    /\ Stored
    /\ OwnSessions
    /\ ToldKnown
    /\ ThreadsSound
    /\ WalkSound
    /\ OneContext

-----------------------------------------------------------------------------
LEMMA Apart == "main" \in Threads /\ "conn" \in Threads
BY DEF Threads

LEMMA NumbersOfContexts ==
    ASSUME TypeOK
    PROVE  Len(contexts) \in Nat /\ \A c \in ContextIds : contexts[c] \in Context
BY DEF TypeOK, ContextIds

(* Where no context is created and none changes its user.                   *)
LEMMA SameContexts ==
    ASSUME IInv, table' = table, keyHash' = keyHash,
           contexts' \in Seq(Context), Len(contexts') = Len(contexts),
           \A c \in ContextIds : contexts'[c].user = contexts[c].user, met => met'
    PROVE  /\ ContextIds' = ContextIds
           /\ \A u : HasContext(u)' <=> HasContext(u)
           /\ Stored' /\ OneContext'
<1>1. ContextIds' = ContextIds
  BY DEF ContextIds
<1> QED BY <1>1 DEF IInv, Stored, OneContext, HasContext

(* A step that leaves the contexts alone.                                   *)
LEMMA QuietStep ==
    ASSUME IInv, UNCHANGED <<table, keyHash, contexts>>,
           role' \in Walk, thread' \in [Threads -> Task],
           device' \in [Devices -> DeviceStates],
           events' \in Seq(Events), mode' \in {"BACKUP", "BACKUP_MANAGER"},
           running' \in BOOLEAN, alive' \in BOOLEAN, late' \in BOOLEAN, hasty' \in BOOLEAN,
           met' \in BOOLEAN, met => met', cut' \in SUBSET Devices,
           ToldKnown', ThreadsSound', WalkSound'
    PROVE  IInv'
<1>1. Stored' /\ OneContext' /\ OwnSessions'
  BY DEF IInv, Stored, OneContext, OwnSessions, ContextIds
<1>2. TypeOK'
  BY DEF IInv, TypeOK, ContextIds
<1> QED BY <1>1, <1>2 DEF IInv

LEMMA InitIInv == Init => IInv
<1> SUFFICES ASSUME Init PROVE IInv
  OBVIOUS
<1>1. contexts \in Seq(Context) /\ ContextIds = {}
  BY DEF Init, ContextIds
<1>2. role \in Walk
  BY SizesAssumption DEF Init, Walk, Slots
<1>3. thread \in [Threads -> Task]
  BY DEF Init, AtRest, Task
<1>4. device \in [Devices -> DeviceStates] /\ table \in [1 .. Buckets -> Seq(ContextIds)]
      /\ events \in Seq(Events)
  BY DEF Init, DeviceStates
<1>5. TypeOK
  BY <1>1, <1>2, <1>3, <1>4 DEF Init, TypeOK
<1>6. \A t \in Threads : thread[t].at = "idle"
  BY DEF Init, AtRest
<1>7. ThreadsSound
  BY <1>6, Apart DEF ThreadsSound, Creating
<1>8. Stored /\ OwnSessions /\ OneContext
  BY <1>1 DEF Stored, OwnSessions, OneContext
<1>9. ToldKnown /\ WalkSound
  BY DEF Init, ToldKnown, WalkSound, Walking
<1> QED BY <1>5, <1>7, <1>8, <1>9 DEF IInv

LEMMA ManagerKeeps ==
    ASSUME IInv,
           \/ \E d \in Devices : OldManagerAccepts(d) \/ OldManagerLetsGo(d) \/ DeviceDies(d)
           \/ OldManagerDies \/ Promoted \/ Crashes
    PROVE  IInv'
<1>1. UNCHANGED <<table, keyHash, contexts, role, thread, history>>
  BY DEF OldManagerAccepts, OldManagerLetsGo, DeviceDies, OldManagerDies, Promoted, Crashes,
         server, history
<1>2. /\ running' \in BOOLEAN /\ alive' \in BOOLEAN /\ mode' \in {"BACKUP", "BACKUP_MANAGER"}
      /\ device' \in [Devices -> DeviceStates]
  BY DEF IInv, TypeOK, DeviceStates, OldManagerAccepts, OldManagerLetsGo, DeviceDies,
         OldManagerDies, Promoted, Crashes, server
<1>3. events' \in Seq(Events)
  <2>1. ASSUME NEW d \in Devices PROVE Connected(d) \in Events /\ Disconnected(d) \in Events
    BY DEF Connected, Disconnected, Events
  <2>2. events \in Seq(Events)
    BY DEF IInv, TypeOK
  <2>3. ASSUME NEW d \in Devices, OldManagerAccepts(d) \/ OldManagerLetsGo(d)
        PROVE  events' \in Seq(Events)
    BY <2>1, <2>2, <2>3 DEF OldManagerAccepts, OldManagerLetsGo
  <2> QED BY <2>2, <2>3 DEF DeviceDies, OldManagerDies, Promoted, Crashes
<1>4. \A d \in Devices :
         device'[d] \in {"told", "served", "turned_away", "waiting"} => device'[d] = device[d]
  BY DEF IInv, TypeOK, OldManagerAccepts, OldManagerLetsGo, DeviceDies, OldManagerDies,
         Promoted, Crashes
<1>5. ToldKnown' /\ ThreadsSound' /\ WalkSound'
  BY <1>1, <1>4 DEF IInv, ToldKnown, ThreadsSound, WalkSound, HasContext, Creating, ContextIds, history
<1>6. role' \in Walk /\ thread' \in [Threads -> Task] /\ met' = met
      /\ late' \in BOOLEAN /\ hasty' \in BOOLEAN /\ met' \in BOOLEAN /\ cut' \in SUBSET Devices
  BY <1>1 DEF IInv, TypeOK, history
<1> QED BY <1>1, <1>2, <1>3, <1>5, <1>6, QuietStep

LEMMA WalkChanged ==
    ASSUME NEW r \in Walk
    PROVE  /\ \A p \in {"backup", "awaiting", "bucket", "free", "manager", "context", "slot"} :
                 /\ \A b \in 1 .. Buckets : [r EXCEPT !.at = p, !.bucket = b] \in Walk
                 /\ \A n \in Nat : [r EXCEPT !.at = p, !.node = n] \in Walk
                 /\ \A i \in Slots : [r EXCEPT !.at = p, !.slot = i] \in Walk
           /\ \A i \in Slots : [r EXCEPT !.slot = i] \in Walk
<1> USE DEF Walk, Walking
<1>1. ASSUME NEW p \in {"backup", "awaiting", "bucket", "free", "manager", "context", "slot"}
      PROVE  /\ \A b \in 1 .. Buckets : [r EXCEPT !.at = p, !.bucket = b] \in Walk
             /\ \A n \in Nat : [r EXCEPT !.at = p, !.node = n] \in Walk
             /\ \A i \in Slots : [r EXCEPT !.at = p, !.slot = i] \in Walk
  OBVIOUS
<1>2. \A i \in Slots : [r EXCEPT !.slot = i] \in Walk
  OBVIOUS
<1> QED BY <1>1, <1>2

(* The walk that tells the clients: those of the sessions in the table.     *)
LEMMA WalkTypes ==
    ASSUME IInv
    PROVE  /\ \A walk, then \in {"bucket", "free", "manager"} : NextBucket(walk, then) \in Walk
           /\ AfterContext \in Walk
           /\ \A reached : AfterSlot(reached) \in Walk
<1>1. role \in Walk
  BY DEF IInv, TypeOK
<1>2. role.bucket \in 1 .. Buckets /\ role.node \in Nat /\ role.slot \in Slots /\ 1 \in 1 .. Buckets
  BY <1>1, SizesAssumption DEF Walk
<1>3. ASSUME NEW walk \in {"bucket", "free", "manager"}, NEW then \in {"bucket", "free", "manager"}
      PROVE  NextBucket(walk, then) \in Walk
  <2>1. CASE role.bucket = Buckets
    BY <1>1, <1>2, <2>1, WalkChanged DEF NextBucket
  <2>2. CASE role.bucket # Buckets
    <3>1. role.bucket + 1 \in 1 .. Buckets
      BY <1>2, <2>2, SizesAssumption
    <3> QED BY <1>1, <2>2, <3>1, WalkChanged DEF NextBucket
  <2> QED BY <2>1, <2>2
<1>4. AfterContext \in Walk
  <2>1. role.node + 1 \in Nat
    BY <1>2
  <2> QED BY <1>1, <1>3, <2>1, WalkChanged DEF AfterContext
<1>5. ASSUME NEW reached PROVE AfterSlot(reached) \in Walk
  <2>1. role.slot < MAX_SESSIONS => role.slot + 1 \in Slots
    BY <1>2, SizesAssumption DEF Slots
  <2> QED BY <1>1, <1>4, <2>1, WalkChanged DEF AfterSlot
<1> QED BY <1>3, <1>4, <1>5

LEMMA AfterContextSound ==
    ASSUME IInv, role.at \in Walking, role' = AfterContext, table' = table
    PROVE  WalkSound'
<1>1. role \in Walk /\ role.node \in DOMAIN table[role.bucket]
      /\ table[role.bucket] \in Seq(ContextIds)
  BY DEF IInv, TypeOK, WalkSound, Walk
<1>2. CASE role.node < Len(table[role.bucket])
  BY <1>1, <1>2 DEF WalkSound, AfterContext, Walk
<1>3. CASE ~(role.node < Len(table[role.bucket]))
  BY <1>1, <1>3 DEF WalkSound, AfterContext, NextBucket, Walk, Walking
<1> QED BY <1>2, <1>3

LEMMA RoleKeeps ==
    ASSUME IInv,
           RoleLeavesLoop \/ ReplicasReturn \/ WalkLocksBucket \/ WalkLocksContext \/ WalkNotifies
    PROVE  IInv'
<1>1. UNCHANGED <<server, alive, events, thread, history>>
  BY DEF RoleLeavesLoop, ReplicasReturn, WalkLocksBucket, WalkLocksContext, WalkNotifies
<1>2. role \in Walk /\ table[role.bucket] \in Seq(ContextIds)
  BY DEF IInv, TypeOK, Walk
<1>3. role' \in Walk /\ WalkSound'
  <2>1. CASE RoleLeavesLoop \/ ReplicasReturn
    BY <1>2, <2>1 DEF RoleLeavesLoop, ReplicasReturn, Walk, WalkSound, Walking
  <2>2. CASE WalkLocksBucket
    <3>1. CASE table[role.bucket] = <<>>
      BY <1>1, <1>2, <2>2, <3>1, WalkTypes DEF WalkLocksBucket, WalkSound, NextBucket, Walk, Walking
    <3>2. CASE table[role.bucket] # <<>>
      <4>1. 1 \in DOMAIN table[role.bucket]
        BY <1>2, <3>2
      <4> QED BY <1>1, <1>2, <2>2, <3>2, <4>1 DEF WalkLocksBucket, WalkSound, Walk, Walking, server
    <3> QED BY <3>1, <3>2
  <2>3. CASE WalkLocksContext
    <3>1. 1 \in Slots /\ role.at = "context" /\ role' = [role EXCEPT !.at = "slot", !.slot = 1]
      BY <2>3, SizesAssumption DEF WalkLocksContext, Slots
    <3>2. role'.node = role.node /\ role'.bucket = role.bucket
      BY <1>2, <3>1 DEF Walk
    <3> QED BY <1>1, <1>2, <3>1, <3>2, WalkChanged DEF IInv, WalkSound, Walking, server
  <2>4. CASE WalkNotifies
    <3>1. role' \in Walk /\ role.at = "slot"
      BY <2>4, WalkTypes DEF WalkNotifies
    <3>2. CASE role.slot < MAX_SESSIONS
      BY <1>1, <1>2, <2>4, <3>1, <3>2
         DEF IInv, WalkNotifies, AfterSlot, WalkSound, Walk, Walking, server
    <3>3. CASE ~(role.slot < MAX_SESSIONS)
      BY <1>1, <2>4, <3>1, <3>3, AfterContextSound
         DEF WalkNotifies, AfterSlot, Walking, server
    <3> QED BY <3>1, <3>2, <3>3
  <2> QED BY <2>1, <2>2, <2>3, <2>4
<1>4. device' \in [Devices -> DeviceStates] /\ ToldKnown'
  <2>1. CASE device' = device
    BY <1>1, <2>1 DEF IInv, TypeOK, ToldKnown, HasContext, ContextIds, server
  <2>2. CASE WalkNotifies
    <3> DEFINE c == table[role.bucket][role.node]
               d == contexts[c].sessions[role.slot].device
    <3>1. c \in ContextIds /\ role.slot \in Slots
      <4>1. role.at = "slot" /\ role.node \in DOMAIN table[role.bucket]
        BY <2>2 DEF IInv, WalkSound, WalkNotifies, Walking
      <4> QED BY <1>2, <4>1 DEF Walk
    <3>2. CASE contexts[c].sessions[role.slot] # NULL
      <4>1. d \in Devices /\ HasContext(User[d])
        BY <3>1, <3>2 DEF IInv, OwnSessions, HasContext
      <4>2. device' = device \/ device' = [device EXCEPT ![d] = "told"]
        BY <2>2 DEF WalkNotifies
      <4> QED BY <1>1, <4>1, <4>2
              DEF IInv, TypeOK, DeviceStates, ToldKnown, HasContext, ContextIds, server
    <3>3. CASE contexts[c].sessions[role.slot] = NULL
      BY <2>1, <2>2, <3>3 DEF WalkNotifies
    <3> QED BY <3>2, <3>3
  <2> QED BY <2>1, <2>2 DEF RoleLeavesLoop, ReplicasReturn, WalkLocksBucket, WalkLocksContext
<1>5. ThreadsSound'
  BY <1>1 DEF IInv, ThreadsSound, HasContext, Creating, ContextIds, server, history
<1> QED BY <1>1, <1>3, <1>4, <1>5, QuietStep DEF IInv, TypeOK, server, history

-----------------------------------------------------------------------------
(* The main and the connection thread.                                      *)

LEMMA TaskChanged ==
    /\ AtRest \in Task
    /\ \A k \in Task :
          /\ \A p \in {"idle", "search", "insert", "lock", "out"} :
                /\ [k EXCEPT !.at = p] \in Task
                /\ \A e \in Events : [k EXCEPT !.at = p, !.event = e] \in Task
                /\ \A c \in Nat : [k EXCEPT !.at = p, !.context = c] \in Task
<1>1. AtRest \in Task
  BY DEF AtRest, Task
<1>2. ASSUME NEW k \in Task, NEW p \in {"idle", "search", "insert", "lock", "out"}
      PROVE  /\ [k EXCEPT !.at = p] \in Task
             /\ \A e \in Events : [k EXCEPT !.at = p, !.event = e] \in Task
             /\ \A c \in Nat : [k EXCEPT !.at = p, !.context = c] \in Task
  BY DEF Task
<1> QED BY <1>1, <1>2

(* A thread begins with an event.  If both then look for the context of a   *)
(* user who has none, the client came unasked.                              *)
LEMMA BeginsKeeps ==
    ASSUME IInv, ConnReads \/ \E d \in Devices : MainAccepts(d)
    PROVE  IInv'
<1>1. UNCHANGED <<server, alive, role, late, cut, hasty>>
  BY DEF ConnReads, MainAccepts
<1>2. thread \in [Threads -> Task] /\ events \in Seq(Events) /\ device \in [Devices -> DeviceStates]
      /\ met \in BOOLEAN
  BY DEF IInv, TypeOK
<1>3. CASE ConnReads /\ mode = "BACKUP"
  <2>1. /\ events # <<>> /\ events' = Tail(events)
        /\ thread' = [thread EXCEPT !["conn"].at = "search", !["conn"].event = Head(events)]
        /\ met' = (met \/ Creating("main", User[Head(events).device]))
        /\ device' = device
    BY <1>3 DEF ConnReads
  <2>2. Head(events) \in Events /\ events' \in Seq(Events)
    BY <1>2, <2>1
  <2>3. thread' \in [Threads -> Task]
    <3>1. [thread["conn"] EXCEPT !.at = "search", !.event = Head(events)] \in Task
      BY <1>2, <2>2, Apart, TaskChanged
    <3> QED BY <1>2, <2>1, <3>1, Apart
  <2>4. thread'["conn"].at = "search" /\ thread'["conn"].event = Head(events)
        /\ thread'["main"] = thread["main"]
    BY <1>2, <2>1, <2>2, Apart DEF Task
  <2>5. ASSUME ~met' PROVE \A u : ~(Creating("main", u)' /\ Creating("conn", u)')
    <3>1. ~Creating("main", User[Head(events).device])
      BY <2>1, <2>5
    <3> QED BY <1>1, <2>4, <3>1 DEF Creating, ContextIds, server
  <2>6. ThreadsSound'
    <3>1. thread'["main"].at # "out"
      BY <2>4 DEF IInv, ThreadsSound
    <3>2. \A t \in Threads : thread'[t].at \in {"search", "insert", "lock"} => thread'[t].event \in Events
      BY <2>2, <2>4 DEF IInv, ThreadsSound, Threads
    <3>3. met' \/ \A t \in Threads :
             (thread[t].at = "insert" => ~HasContext(User[thread[t].event.device]))'
      BY <1>1, <2>1, <2>4 DEF IInv, ThreadsSound, Threads, HasContext, ContextIds, server
    <3>4. \A t \in Threads : thread'[t].at = "lock" =>
             /\ thread'[t].context \in ContextIds'
             /\ contexts'[thread'[t].context].user = User[thread'[t].event.device]
      BY <1>1, <2>4 DEF IInv, ThreadsSound, Threads, ContextIds, server
    <3> QED BY <2>5, <3>1, <3>2, <3>3, <3>4 DEF ThreadsSound
  <2>7. ToldKnown' /\ WalkSound'
    BY <1>1, <2>1 DEF IInv, ToldKnown, WalkSound, HasContext, ContextIds, server
  <2>8. met' \in BOOLEAN /\ (met => met')
    BY <1>2, <2>1 DEF Creating
  <2> QED BY <1>1, <1>2, <2>1, <2>2, <2>3, <2>6, <2>7, <2>8, QuietStep DEF IInv, TypeOK, server
<1>4. CASE ConnReads /\ mode # "BACKUP"
  <2>1. thread' = [thread EXCEPT !["conn"].at = "out"] /\ UNCHANGED <<events, device, met>>
    BY <1>4 DEF ConnReads
  <2>2. thread' \in [Threads -> Task]
    <3>1. [thread["conn"] EXCEPT !.at = "out"] \in Task
      BY <1>2, Apart, TaskChanged
    <3> QED BY <1>2, <2>1, <3>1, Apart
  <2>3. thread'["conn"].at = "out" /\ thread'["main"] = thread["main"]
    BY <1>2, <2>1, Apart DEF Task
  <2>4. ThreadsSound'
    BY <1>1, <2>1, <2>3 DEF IInv, ThreadsSound, Threads, HasContext, Creating, ContextIds, server
  <2>5. ToldKnown' /\ WalkSound'
    BY <1>1, <2>1 DEF IInv, ToldKnown, WalkSound, HasContext, ContextIds, server
  <2> QED BY <1>1, <1>2, <2>1, <2>2, <2>4, <2>5, QuietStep DEF IInv, TypeOK, server
<1>5. ASSUME NEW d \in Devices, MainAccepts(d) PROVE IInv'
  <2>1. Connected(d) \in Events /\ Connected(d).device = d
    BY DEF Connected, Events
  <2>2. /\ thread' = [thread EXCEPT !["main"].at = "search", !["main"].event = Connected(d)]
        /\ met' = (met \/ (device[d] = "new" /\ Creating("conn", User[d])))
        /\ device' = [device EXCEPT ![d] = IF @ = "new" THEN "coming" ELSE @]
        /\ device[d] \in {"new", "told"} /\ events' = events
    BY <1>5 DEF MainAccepts
  <2>3. device' \in [Devices -> DeviceStates]
        /\ \A c \in Devices : device'[c] = device[c] \/ device'[c] = "coming"
    BY <1>2, <2>2 DEF DeviceStates
  <2>4. thread' \in [Threads -> Task]
    <3>1. [thread["main"] EXCEPT !.at = "search", !.event = Connected(d)] \in Task
      BY <1>2, <2>1, Apart, TaskChanged
    <3> QED BY <1>2, <2>2, <3>1, Apart
  <2>5. thread'["main"].at = "search" /\ thread'["main"].event = Connected(d)
        /\ thread'["conn"] = thread["conn"]
    BY <1>2, <2>2, Apart DEF Task
  <2>6. ASSUME ~met' PROVE \A u : ~(Creating("main", u)' /\ Creating("conn", u)')
    <3>1. CASE device[d] = "new"
      <4>1. ~Creating("conn", User[d])
        BY <2>2, <2>6, <3>1
      <4> QED BY <1>1, <2>1, <2>5, <4>1 DEF Creating, ContextIds, server
    <3>2. CASE device[d] = "told"
      <4>1. HasContext(User[d])
        BY <3>2 DEF IInv, ToldKnown
      <4> QED BY <1>1, <2>1, <2>5, <4>1 DEF Creating, HasContext, ContextIds, server
    <3> QED BY <2>2, <3>1, <3>2
  <2>7. ThreadsSound'
    <3>1. \A t \in Threads : thread'[t].at \in {"search", "insert", "lock"} => thread'[t].event \in Events
      BY <2>1, <2>5 DEF IInv, ThreadsSound, Threads
    <3>2. met' \/ \A t \in Threads :
             (thread[t].at = "insert" => ~HasContext(User[thread[t].event.device]))'
      BY <1>1, <2>2, <2>5 DEF IInv, ThreadsSound, Threads, HasContext, ContextIds, server
    <3>3. \A t \in Threads : thread'[t].at = "lock" =>
             /\ thread'[t].context \in ContextIds'
             /\ contexts'[thread'[t].context].user = User[thread'[t].event.device]
      BY <1>1, <2>5 DEF IInv, ThreadsSound, Threads, ContextIds, server
    <3> QED BY <2>5, <2>6, <3>1, <3>2, <3>3 DEF ThreadsSound
  <2>8. ToldKnown' /\ WalkSound'
    BY <1>1, <2>3 DEF IInv, ToldKnown, WalkSound, HasContext, ContextIds, server
  <2>9. met' \in BOOLEAN /\ (met => met')
    BY <1>2, <2>2 DEF Creating
  <2> QED BY <1>1, <1>2, <2>2, <2>3, <2>4, <2>7, <2>8, <2>9, QuietStep DEF IInv, TypeOK, server
<1> QED BY <1>3, <1>4, <1>5

(* Some set of numbers that is not empty has a least one.                   *)
LEMMA Least ==
    ASSUME NEW S \in SUBSET Nat, S # {}
    PROVE  \E n \in S : \A m \in S : n <= m
<1> DEFINE R == OpToRel(<, Nat)
<1>1. IsWellFoundedOn(R, Nat)
  BY NatLessThanWellFounded
<1> HIDE DEF R
<1>2. PICK n \in S : \A m \in S : <<m, n>> \notin R
  BY <1>1, WFMin
<1>3. \A m \in S : m < n => <<m, n>> \in R
  BY DEF R, OpToRel
<1>4. n \in Nat /\ \A m \in S : m \in Nat
  OBVIOUS
<1> QED
  <2> SUFFICES ASSUME NEW m \in S PROVE n <= m
    OBVIOUS
  <2>1. ~(m < n)
    BY <1>2, <1>3
  <2> QED BY <1>4, <2>1

(* A user who has a context is found.                                       *)
LEMMA Found ==
    ASSUME IInv, NEW u \in Users
    PROVE  /\ HasContext(u) => LinkedList_get(keyHash[u], u) # {}
           /\ \A c \in LinkedList_get(keyHash[u], u) :
                 c \in ContextIds /\ contexts[c].user = u
<1> DEFINE b == keyHash[u]
<1>1. b \in 1 .. Buckets /\ table[b] \in Seq(ContextIds)
  BY DEF IInv, TypeOK
<1>2. /\ DOMAIN table[b] = 1 .. Len(table[b]) /\ Len(table[b]) \in Nat
      /\ \A i \in DOMAIN table[b] : table[b][i] \in ContextIds
  BY <1>1
<1>3. ASSUME HasContext(u) PROVE LinkedList_get(b, u) # {}
  <2>1. PICK c \in ContextIds : contexts[c].user = u
    BY <1>3 DEF HasContext
  <2>2. Named(b, u) # {}
    BY <2>1 DEF IInv, Stored, Named
  <2>3. Named(b, u) \in SUBSET Nat
    BY <1>2 DEF Named
  <2>4. PICK i \in Named(b, u) : \A j \in Named(b, u) : i <= j
    BY <2>2, <2>3, Least
  <2> QED BY <2>4 DEF LinkedList_get
<1>4. \A c \in LinkedList_get(b, u) : c \in ContextIds /\ contexts[c].user = u
  BY <1>2 DEF LinkedList_get, Named
<1> QED BY <1>3, <1>4

LEMMA SearchesKeeps ==
    ASSUME IInv, NEW t \in Threads, Searches(t)
    PROVE  IInv'
<1> DEFINE u == User[thread[t].event.device]
           found == LinkedList_get(Bucket(t), u)
<1>1. UNCHANGED <<keyHash, mode, table, contexts, alive, device, events, role, history>>
      /\ thread[t].at = "search" /\ Bucket(t) = keyHash[u]
  BY DEF Searches, At, Bucket
<1>2. thread \in [Threads -> Task] /\ thread[t] \in Task /\ thread[t].event \in Events
      /\ Len(contexts) \in Nat /\ u \in Users
  BY <1>1, UserAssumption DEF IInv, TypeOK, ThreadsSound, Events
<1>3. running' \in BOOLEAN
  BY DEF Searches
<1>4. CASE found = {}
  <2>1. thread' = [thread EXCEPT ![t] = [@ EXCEPT !.at = "insert"]]
    BY <1>4 DEF Searches
  <2>2. [thread[t] EXCEPT !.at = "insert"] \in Task
    BY <1>2, TaskChanged
  <2>3. thread' \in [Threads -> Task]
    BY <1>2, <2>1, <2>2
  <2>4. thread'[t].at = "insert" /\ thread'[t].event = thread[t].event
        /\ \A s \in Threads \ {t} : thread'[s] = thread[s]
    BY <1>2, <2>1 DEF Task
  <2>5. ~HasContext(u)
    BY <1>1, <1>2, <1>4, Found
  <2>6. \A s \in Threads : \A v : Creating(s, v)' => Creating(s, v)
    BY <1>1, <2>4 DEF Creating, ContextIds
  <2>7. ThreadsSound'
    BY <1>1, <1>2, <2>4, <2>5, <2>6, Apart
       DEF IInv, ThreadsSound, HasContext, ContextIds, history
  <2>8. ToldKnown' /\ WalkSound'
    BY <1>1 DEF IInv, ToldKnown, WalkSound, HasContext, ContextIds
  <2> QED BY <1>1, <1>3, <2>3, <2>7, <2>8, QuietStep DEF IInv, TypeOK, history
<1>5. CASE found # {}
  <2> DEFINE c == CHOOSE x \in found : TRUE
  <2>1. c \in LinkedList_get(keyHash[u], u)
    BY <1>1, <1>5
  <2>2. thread' = [thread EXCEPT ![t] = [@ EXCEPT !.at = "lock", !.context = c]]
    BY <1>5 DEF Searches
  <2> HIDE DEF c
  <2>3. c \in ContextIds /\ contexts[c].user = u
    BY <1>2, <2>1, Found
  <2>4. c \in Nat
    BY <1>2, <2>3 DEF ContextIds
  <2>5. [thread[t] EXCEPT !.at = "lock", !.context = c] \in Task
    BY <1>2, <2>4, TaskChanged
  <2>6. thread' \in [Threads -> Task]
    BY <1>2, <2>2, <2>5
  <2>7. thread'[t].at = "lock" /\ thread'[t].event = thread[t].event /\ thread'[t].context = c
        /\ \A s \in Threads \ {t} : thread'[s] = thread[s]
    BY <1>2, <2>2 DEF Task
  <2>8. ThreadsSound'
    <3>1. \A s \in Threads : \A v : Creating(s, v)' => Creating(s, v)
      BY <1>1, <2>7 DEF Creating, ContextIds
    <3> QED BY <1>1, <1>2, <2>3, <2>7, <3>1, Apart
            DEF IInv, ThreadsSound, HasContext, ContextIds, history
  <2>9. ToldKnown' /\ WalkSound'
    BY <1>1 DEF IInv, ToldKnown, WalkSound, HasContext, ContextIds
  <2> QED BY <1>1, <1>3, <2>6, <2>8, <2>9, QuietStep DEF IInv, TypeOK, history
<1> QED BY <1>4, <1>5

LEMMA InsertsKeeps ==
    ASSUME IInv, NEW t \in Threads, Inserts(t)
    PROVE  IInv'
<1> DEFINE u == User[thread[t].event.device]
           new == [user |-> u, sessions |-> [i \in Slots |-> NULL]]
           n == Len(contexts) + 1
<1>1. UNCHANGED <<running, keyHash, mode, alive, device, events, role, history>>
      /\ thread[t].at = "insert" /\ Bucket(t) = keyHash[u]
      /\ contexts' = Append(contexts, new) /\ ~Locked(keyHash[u])
  BY DEF Inserts, At, Bucket
<1>2. met \/ ~HasContext(u)
  BY <1>1 DEF IInv, ThreadsSound
<1>3. thread[t].event \in Events /\ u \in Users /\ keyHash[u] \in 1 .. Buckets
  BY <1>1, UserAssumption DEF IInv, ThreadsSound, TypeOK, Events
<1>4. contexts \in Seq(Context) /\ Len(contexts) \in Nat /\ new \in Context
  BY <1>3 DEF IInv, TypeOK, Context
<1>5. /\ contexts' \in Seq(Context) /\ Len(contexts') = n
      /\ \A c \in ContextIds : contexts'[c] = contexts[c]
      /\ contexts'[n] = new
  BY <1>1, <1>4 DEF ContextIds
<1>6. ContextIds' = ContextIds \cup {n} /\ n \notin ContextIds /\ n \in ContextIds'
  BY <1>4, <1>5 DEF ContextIds
<1>7. table \in [1 .. Buckets -> Seq(ContextIds)]
      /\ table' = [table EXCEPT ![keyHash[u]] = <<n>> \o @]
  BY <1>1, <1>5 DEF IInv, TypeOK, Inserts, LinkedList_push
<1>8. ASSUME NEW s \in Seq(ContextIds)
      PROVE  /\ s \in Seq(ContextIds') /\ <<n>> \o s \in Seq(ContextIds')
             /\ Len(<<n>> \o s) = Len(s) + 1 /\ (<<n>> \o s)[1] = n
             /\ \A i \in DOMAIN s : (<<n>> \o s)[i + 1] = s[i]
  <2>1. s \in Seq(ContextIds') /\ <<n>> \in Seq(ContextIds')
    BY <1>6, SeqMonotonic
  <2> QED BY <2>1, ConcatProperties
<1>9. /\ table' \in [1 .. Buckets -> Seq(ContextIds')]
      /\ table'[keyHash[u]] = <<n>> \o table[keyHash[u]]
      /\ \A b \in 1 .. Buckets : b # keyHash[u] => table'[b] = table[b]
  BY <1>3, <1>7, <1>8
<1>10. \A b \in 1 .. Buckets : table[b] \in Seq(ContextIds) /\ Len(table[b]) \in Nat
                                /\ DOMAIN table[b] = 1 .. Len(table[b])
  <2>1. ASSUME NEW b \in 1 .. Buckets
        PROVE  table[b] \in Seq(ContextIds) /\ Len(table[b]) \in Nat
               /\ DOMAIN table[b] = 1 .. Len(table[b])
    <3>1. table[b] \in Seq(ContextIds)
      BY DEF IInv, TypeOK
    <3> QED BY <3>1
  <2> QED BY <2>1
<1> HIDE DEF n, new
<1>11. Stored'
  <2> SUFFICES ASSUME NEW c \in ContextIds'
               PROVE  \E i \in DOMAIN table'[keyHash[contexts'[c].user]] :
                         table'[keyHash[contexts'[c].user]][i] = c
    BY <1>1 DEF Stored
  <2>1. CASE c = n
    <3>1. contexts'[c].user = u
      BY <1>5, <2>1 DEF new
    <3>2. 1 \in DOMAIN table'[keyHash[u]] /\ table'[keyHash[u]][1] = n
      <4>1. table[keyHash[u]] \in Seq(ContextIds) /\ Len(table[keyHash[u]]) \in Nat
        BY <1>3, <1>10
      <4>2. /\ <<n>> \o table[keyHash[u]] \in Seq(ContextIds')
            /\ Len(<<n>> \o table[keyHash[u]]) = Len(table[keyHash[u]]) + 1
            /\ (<<n>> \o table[keyHash[u]])[1] = n
        BY <4>1, <1>8
      <4>3. DOMAIN (<<n>> \o table[keyHash[u]]) = 1 .. Len(<<n>> \o table[keyHash[u]])
        BY <4>2
      <4>4. 1 \in DOMAIN (<<n>> \o table[keyHash[u]])
        BY <4>1, <4>2, <4>3
      <4> QED BY <1>9, <4>2, <4>4
    <3> QED BY <2>1, <3>1, <3>2
  <2>2. CASE c # n
    <3>1. c \in ContextIds /\ contexts'[c] = contexts[c]
      BY <1>5, <1>6, <2>2
    <3> DEFINE b == keyHash[contexts[c].user]
    <3>2. b \in 1 .. Buckets
      <4>1. contexts[c].user \in Users
        BY <3>1, NumbersOfContexts DEF IInv, Context
      <4> QED BY <4>1 DEF IInv, TypeOK
    <3>3. PICK i \in DOMAIN table[b] : table[b][i] = c
      BY <3>1 DEF IInv, Stored
    <3>4. CASE b = keyHash[u]
      <4>1. i + 1 \in DOMAIN table'[b] /\ table'[b][i + 1] = c
        <5>1. table[b] \in Seq(ContextIds) /\ Len(table[b]) \in Nat /\ i \in 1 .. Len(table[b])
          BY <1>10, <3>2, <3>3
        <5>2. /\ <<n>> \o table[b] \in Seq(ContextIds')
              /\ Len(<<n>> \o table[b]) = Len(table[b]) + 1
              /\ (<<n>> \o table[b])[i + 1] = table[b][i]
          BY <1>8, <5>1, <3>3
        <5>3. DOMAIN (<<n>> \o table[b]) = 1 .. Len(<<n>> \o table[b])
          BY <5>2
        <5>4. i + 1 \in DOMAIN (<<n>> \o table[b])
          BY <5>1, <5>2, <5>3
        <5>5. table'[b] = <<n>> \o table[b]
          BY <1>9, <3>4
        <5> QED BY <3>3, <5>2, <5>4, <5>5
      <4> QED BY <3>1, <4>1
    <3>5. CASE b # keyHash[u]
      BY <1>9, <3>1, <3>2, <3>3, <3>5
    <3> QED BY <3>4, <3>5
  <2> QED BY <2>1, <2>2
<1>12. OneContext'
  <2>1. CASE met
    BY <1>1, <2>1 DEF OneContext, history
  <2>2. CASE ~met
    <3>1. \A c \in ContextIds : contexts[c].user # u
      BY <1>2, <2>2 DEF HasContext
    <3> QED BY <1>5, <1>6, <2>2, <3>1 DEF IInv, OneContext, new
  <2> QED BY <2>1, <2>2
<1>13. OwnSessions'
  BY <1>5, <1>6 DEF IInv, OwnSessions, new
<1>14. \A v : HasContext(v) => HasContext(v)'
  BY <1>5, <1>6 DEF HasContext
<1>15. \E c \in ContextIds' : contexts'[c].user = u
  <2>1. contexts'[n].user = u
    BY <1>5 DEF new
  <2> QED BY <1>6, <2>1
<1>16. thread \in [Threads -> Task] /\ thread[t] \in Task
       /\ thread' = [thread EXCEPT ![t].at = "lock", ![t].context = n]
  BY <1>5 DEF IInv, TypeOK, Inserts
<1>17. thread' \in [Threads -> Task]
  <2>1. [thread[t] EXCEPT !.at = "lock", !.context = n] \in Task
    <3>1. n \in Nat
      BY <1>4 DEF n
    <3> QED BY <1>16, <3>1, TaskChanged
  <2> QED BY <1>16, <2>1
<1>18. thread'[t].at = "lock" /\ thread'[t].event = thread[t].event /\ thread'[t].context = n
       /\ \A r \in Threads \ {t} : thread'[r] = thread[r]
  BY <1>16 DEF Task
<1>19. ThreadsSound'
  <2>1. thread'["main"].at # "out"
        /\ \A r \in Threads : thread'[r].at \in {"search", "insert", "lock"} => thread'[r].event \in Events
    BY <1>3, <1>18, Apart DEF IInv, ThreadsSound
  <2>2. ASSUME NEW r \in Threads, NEW v, Creating(r, v)' PROVE Creating(r, v) /\ r # t
    <3>1. r # t
      BY <1>18, <2>2 DEF Creating
    <3>2. \A c \in ContextIds : contexts[c].user # v
      BY <1>5, <1>6, <2>2 DEF Creating
    <3> QED BY <1>18, <2>2, <3>1, <3>2 DEF Creating
  <2>3. met' \/ \A v : ~(Creating("main", v)' /\ Creating("conn", v)')
    BY <1>1, <2>2, Apart DEF IInv, ThreadsSound, history
  <2>4. ASSUME ~met, NEW r \in Threads \ {t}, thread[r].at = "insert"
        PROVE  User[thread[r].event.device] # u /\ ~HasContext(User[thread[r].event.device])
    <3>1. ~HasContext(User[thread[r].event.device])
      BY <2>4 DEF IInv, ThreadsSound
    <3>2. Creating(t, u) /\ Creating(r, User[thread[r].event.device])
      BY <1>1, <1>2, <2>4, <3>1 DEF Creating, HasContext
    <3> QED BY <2>4, <3>1, <3>2 DEF IInv, ThreadsSound, Threads
  <2>5. met' \/ \A r \in Threads :
           (thread[r].at = "insert" => ~HasContext(User[thread[r].event.device]))'
    <3>1. \A v : HasContext(v)' => HasContext(v) \/ v = u
      BY <1>5, <1>6 DEF HasContext, new
    <3> QED BY <1>1, <1>18, <2>4, <3>1 DEF history
  <2>6. \A r \in Threads : thread'[r].at = "lock" =>
           /\ thread'[r].context \in ContextIds'
           /\ contexts'[thread'[r].context].user = User[thread'[r].event.device]
    <3>1. contexts'[n].user = User[thread'[t].event.device]
      BY <1>5, <1>18 DEF new
    <3>2. ASSUME NEW r \in Threads \ {t}, thread'[r].at = "lock"
          PROVE  /\ thread'[r].context \in ContextIds'
                 /\ contexts'[thread'[r].context].user = User[thread'[r].event.device]
      <4>1. /\ thread[r].context \in ContextIds
            /\ contexts[thread[r].context].user = User[thread[r].event.device]
        BY <1>18, <3>2 DEF IInv, ThreadsSound
      <4> QED BY <1>5, <1>6, <1>18, <4>1
    <3> QED BY <1>6, <1>18, <3>1, <3>2
  <2> QED BY <2>1, <2>3, <2>5, <2>6 DEF ThreadsSound
<1>20. ToldKnown'
  BY <1>1, <1>14 DEF IInv, ToldKnown
<1>21. WalkSound'
  <2>1. role.at \in Walking => role.bucket # keyHash[u] /\ role.bucket \in 1 .. Buckets
    BY <1>1 DEF Locked, IInv, TypeOK, Walk
  <2> QED BY <1>1, <1>9, <2>1 DEF IInv, WalkSound
<1>22. TypeOK'
  BY <1>1, <1>5, <1>9, <1>17 DEF IInv, TypeOK, history
<1> QED BY <1>11, <1>12, <1>13, <1>19, <1>20, <1>21, <1>22 DEF IInv

-----------------------------------------------------------------------------
(* The steps that change the sessions of a context.                         *)

LEMMA SessionsChanged ==
    ASSUME IInv, NEW c \in ContextIds, NEW s \in [Slots -> Sessions \cup {NULL}],
           \A i \in Slots : s[i] # NULL =>
              s[i].device \in Devices /\ User[s[i].device] = contexts[c].user,
           contexts' = [contexts EXCEPT ![c].sessions = s]
    PROVE  /\ contexts' \in Seq(Context) /\ Len(contexts') = Len(contexts)
           /\ \A b \in ContextIds : contexts'[b].user = contexts[b].user
           /\ OwnSessions'
<1> DEFINE new == [contexts[c] EXCEPT !.sessions = s]
<1>1. contexts \in Seq(Context) /\ contexts[c] \in Context /\ ContextIds = 1 .. Len(contexts)
  BY NumbersOfContexts DEF IInv, TypeOK, ContextIds
<1>2. new \in Context /\ new.user = contexts[c].user /\ new.sessions = s
  BY <1>1 DEF Context
<1>3. contexts' = [contexts EXCEPT ![c] = new]
  OBVIOUS
<1> HIDE DEF new
<1>4. contexts' \in Seq(Context) /\ Len(contexts') = Len(contexts)
  BY <1>1, <1>2, <1>3
<1>5. contexts'[c] = new /\ \A b \in ContextIds \ {c} : contexts'[b] = contexts[b]
  BY <1>1, <1>3
<1>6. ContextIds' = ContextIds
  BY <1>4 DEF ContextIds
<1>7. OwnSessions'
  BY <1>2, <1>5, <1>6 DEF IInv, OwnSessions
<1> QED BY <1>2, <1>4, <1>5, <1>7

(* The end of an event, whatever it did to the sessions of its context and  *)
(* to the device it is about.                                               *)
LEMMA EventEnds ==
    ASSUME IInv, NEW t \in Threads, thread[t].at = "lock",
           thread' = [thread EXCEPT ![t] = AtRest],
           UNCHANGED <<table, keyHash, role, events, mode, alive, cut, met>>,
           running' \in BOOLEAN, late' \in BOOLEAN, hasty' \in BOOLEAN,
           device' = device \/ \E p \in DeviceStates :
                                  device' = [device EXCEPT ![thread[t].event.device] = p],
           contexts' \in Seq(Context), Len(contexts') = Len(contexts),
           \A b \in ContextIds : contexts'[b].user = contexts[b].user,
           OwnSessions'
    PROVE  IInv'
<1>1. /\ ContextIds' = ContextIds /\ \A u : HasContext(u)' <=> HasContext(u)
      /\ Stored' /\ OneContext'
  BY SameContexts
<1>2. thread' \in [Threads -> Task] /\ thread'[t].at = "idle"
      /\ \A s \in Threads \ {t} : thread'[s] = thread[s]
  BY TaskChanged DEF IInv, TypeOK, AtRest
<1>3. thread[t].event \in Events /\ HasContext(User[thread[t].event.device])
  BY DEF IInv, ThreadsSound, HasContext
<1>4. device' \in [Devices -> DeviceStates]
  BY DEF IInv, TypeOK
<1>5. ToldKnown'
  BY <1>1, <1>3 DEF IInv, TypeOK, ToldKnown
<1>6. ThreadsSound'
  <2>1. \A s \in Threads : \A v : Creating(s, v)' => Creating(s, v)
    BY <1>1, <1>2 DEF Creating
  <2> QED BY <1>1, <1>2, <2>1, Apart DEF IInv, ThreadsSound
<1>7. WalkSound'
  BY DEF IInv, WalkSound
<1>8. TypeOK'
  BY <1>1, <1>2, <1>4 DEF IInv, TypeOK
<1> QED BY <1>1, <1>5, <1>6, <1>7, <1>8 DEF IInv

LEMMA SameSessions ==
    ASSUME IInv, contexts' = contexts
    PROVE  /\ contexts' \in Seq(Context) /\ Len(contexts') = Len(contexts)
           /\ \A b \in ContextIds : contexts'[b].user = contexts[b].user
           /\ OwnSessions'
BY DEF IInv, TypeOK, OwnSessions, ContextIds

LEMMA EnterSound ==
    ASSUME IInv, NEW t \in Threads, thread[t].at = "lock",
           NEW k \in {"none", "client", "astray"},
           Enter(thread[t].context, thread[t].event.device, k)
    PROVE  /\ contexts' \in Seq(Context) /\ Len(contexts') = Len(contexts)
           /\ \A b \in ContextIds : contexts'[b].user = contexts[b].user
           /\ OwnSessions'
<1> DEFINE c == thread[t].context
           d == thread[t].event.device
           new == [device |-> d, threads |-> k]
           s == [contexts[c].sessions EXCEPT ![find_free_session_index(c)] = new]
<1>1. c \in ContextIds /\ d \in Devices /\ contexts[c].user = User[d]
  BY DEF IInv, ThreadsSound, Events
<1>2. contexts[c].sessions \in [Slots -> Sessions \cup {NULL}]
  BY <1>1, NumbersOfContexts DEF IInv, Context
<1>3. new \in Sessions /\ new.device = d
  BY <1>1 DEF Sessions
<1>4. contexts' = [contexts EXCEPT ![c].sessions = s]
  BY DEF Enter
<1> HIDE DEF new
<1>5. s \in [Slots -> Sessions \cup {NULL}]
      /\ \A i \in Slots : s[i] = new \/ s[i] = contexts[c].sessions[i]
  BY <1>2, <1>3
<1>6. \A i \in Slots : s[i] # NULL =>
         s[i].device \in Devices /\ User[s[i].device] = contexts[c].user
  BY <1>1, <1>3, <1>5 DEF IInv, OwnSessions
<1> HIDE DEF s, c, d
<1> QED BY <1>1, <1>4, <1>5, <1>6, SessionsChanged

LEMMA EntersKeeps ==
    ASSUME IInv, ClientEnters \/ EventEnters \/ EventLeaves
    PROVE  IInv'
<1>1. CASE ClientEnters
  <2>1. /\ thread["main"].at = "lock" /\ thread' = [thread EXCEPT !["main"] = AtRest]
        /\ UNCHANGED <<running, keyHash, mode, table, alive, events, role, late, cut, met>>
        /\ hasty' \in BOOLEAN
    BY <1>1 DEF ClientEnters, At, IInv, TypeOK
  <2>2. /\ contexts' = contexts
           \/ Enter(thread["main"].context, thread["main"].event.device, "client")
           \/ Enter(thread["main"].context, thread["main"].event.device, "none")
        /\ device' = [device EXCEPT ![thread["main"].event.device] = "turned_away"]
           \/ device' = [device EXCEPT ![thread["main"].event.device] = "served"]
           \/ device' = [device EXCEPT ![thread["main"].event.device] = "waiting"]
    BY <1>1 DEF ClientEnters
  <2>3. /\ contexts' \in Seq(Context) /\ Len(contexts') = Len(contexts)
        /\ \A b \in ContextIds : contexts'[b].user = contexts[b].user
        /\ OwnSessions'
    BY <2>1, <2>2, Apart, EnterSound, SameSessions
  <2>4. \E p \in DeviceStates : device' = [device EXCEPT ![thread["main"].event.device] = p]
    BY <2>2 DEF DeviceStates
  <2> QED BY <2>1, <2>3, <2>4, Apart, EventEnds DEF IInv, TypeOK
<1>2. CASE EventEnters
  <2>1. /\ thread["conn"].at = "lock" /\ thread' = [thread EXCEPT !["conn"] = AtRest]
        /\ UNCHANGED <<running, keyHash, mode, table, alive, device, events, role, cut, hasty, met>>
        /\ late' \in BOOLEAN
    BY <1>2 DEF EventEnters, At, IInv, TypeOK
  <2>2. \/ contexts' = contexts
        \/ \E k \in {"none", "client", "astray"} :
              Enter(thread["conn"].context, thread["conn"].event.device, k)
    BY <1>2 DEF EventEnters
  <2>3. /\ contexts' \in Seq(Context) /\ Len(contexts') = Len(contexts)
        /\ \A b \in ContextIds : contexts'[b].user = contexts[b].user
        /\ OwnSessions'
    BY <2>1, <2>2, Apart, EnterSound, SameSessions
  <2> QED BY <2>1, <2>3, Apart, EventEnds DEF IInv, TypeOK
<1>3. CASE EventLeaves
  <2> DEFINE c == thread["conn"].context
             mine == {i \in Slots : contexts[c].sessions[i] # NULL
                         /\ contexts[c].sessions[i].device = thread["conn"].event.device}
             s == [i \in Slots |-> IF i \in mine THEN NULL ELSE contexts[c].sessions[i]]
  <2>1. /\ thread["conn"].at = "lock" /\ thread' = [thread EXCEPT !["conn"] = AtRest]
        /\ UNCHANGED <<keyHash, mode, table, alive, device, events, role, cut, hasty, met>>
        /\ late' \in BOOLEAN /\ running' \in BOOLEAN
        /\ contexts' = [contexts EXCEPT ![c].sessions = s]
    BY <1>3 DEF EventLeaves, At, IInv, TypeOK
  <2>2. c \in ContextIds
    BY <2>1, Apart DEF IInv, ThreadsSound
  <2>3. contexts[c].sessions \in [Slots -> Sessions \cup {NULL}]
    BY <2>2, NumbersOfContexts DEF IInv, Context
  <2>4. s \in [Slots -> Sessions \cup {NULL}]
        /\ \A i \in Slots : s[i] # NULL => s[i] = contexts[c].sessions[i]
    BY <2>3
  <2>5. \A i \in Slots : s[i] # NULL =>
           s[i].device \in Devices /\ User[s[i].device] = contexts[c].user
    BY <2>2, <2>4 DEF IInv, OwnSessions
  <2> HIDE DEF s
  <2>6. /\ contexts' \in Seq(Context) /\ Len(contexts') = Len(contexts)
        /\ \A b \in ContextIds : contexts'[b].user = contexts[b].user
        /\ OwnSessions'
    BY <2>1, <2>2, <2>4, <2>5, SessionsChanged
  <2> QED BY <2>1, <2>6, Apart, EventEnds DEF IInv, TypeOK
<1> QED BY <1>1, <1>2, <1>3

(* The walk that frees the sessions leaves the contexts where they are.     *)
LEMMA FreesKeeps ==
    ASSUME IInv, WalkFrees
    PROVE  IInv'
<1>1. /\ UNCHANGED <<running, keyHash, mode, table, alive, device, events, thread, late, hasty, met>>
      /\ role' = NextBucket("free", "manager")
      /\ cut' \in SUBSET Devices
  BY DEF WalkFrees, IInv, TypeOK
<1>2. /\ contexts' = [c \in ContextIds |-> IF InBucket(c)
                         THEN [contexts[c] EXCEPT !.sessions = [i \in Slots |-> NULL]]
                         ELSE contexts[c]]
  BY DEF WalkFrees, SlotsAfterFree
<1>3. \A c \in ContextIds : contexts[c] \in Context /\ Len(contexts) \in Nat
  BY NumbersOfContexts DEF IInv
<1>4. \A c \in ContextIds :
         /\ contexts'[c] \in Context /\ contexts'[c].user = contexts[c].user
         /\ \A i \in Slots : contexts'[c].sessions[i] # NULL =>
               contexts'[c].sessions[i] = contexts[c].sessions[i]
  <2> SUFFICES ASSUME NEW c \in ContextIds
               PROVE  /\ contexts'[c] \in Context /\ contexts'[c].user = contexts[c].user
                      /\ \A i \in Slots : contexts'[c].sessions[i] # NULL =>
                            contexts'[c].sessions[i] = contexts[c].sessions[i]
    OBVIOUS
  <2>1. [i \in Slots |-> NULL] \in [Slots -> Sessions \cup {NULL}]
    OBVIOUS
  <2>2. CASE InBucket(c)
    BY <1>2, <1>3, <2>1, <2>2 DEF Context
  <2>3. CASE ~InBucket(c)
    BY <1>2, <1>3, <2>3
  <2> QED BY <2>2, <2>3
<1>5. contexts' \in Seq(Context) /\ Len(contexts') = Len(contexts)
  <2>1. contexts' \in [1 .. Len(contexts) -> Context]
    BY <1>2, <1>4 DEF ContextIds
  <2>2. Len(contexts) \in Nat
    BY NumbersOfContexts DEF IInv
  <2> QED BY <2>1, <2>2
<1>6. /\ ContextIds' = ContextIds /\ \A u : HasContext(u)' <=> HasContext(u)
      /\ Stored' /\ OneContext'
  BY <1>1, <1>4, <1>5, SameContexts
<1>7. OwnSessions'
  BY <1>4, <1>6 DEF IInv, OwnSessions
<1>8. role' \in Walk /\ WalkSound'
  <2>1. role' \in Walk
    BY <1>1, WalkTypes
  <2>2. role'.at \notin Walking
    BY <1>1 DEF NextBucket, Walking, IInv, TypeOK, Walk
  <2> QED BY <2>1, <2>2 DEF WalkSound
<1>9. ToldKnown' /\ ThreadsSound'
  <2>1. ToldKnown'
    BY <1>1, <1>6 DEF IInv, ToldKnown
  <2>2. \A t \in Threads : thread[t].at = "lock" =>
           contexts'[thread[t].context].user = contexts[thread[t].context].user
    BY <1>4 DEF IInv, ThreadsSound
  <2>3. \A t \in Threads : \A v : Creating(t, v)' => Creating(t, v)
    BY <1>1, <1>4, <1>6 DEF Creating
  <2> QED BY <1>1, <1>6, <2>1, <2>2, <2>3, Apart DEF IInv, ThreadsSound
<1>10. TypeOK'
  BY <1>1, <1>5, <1>6, <1>8 DEF IInv, TypeOK
<1> QED BY <1>6, <1>7, <1>8, <1>9, <1>10 DEF IInv

-----------------------------------------------------------------------------
LEMMA StepIInv == IInv /\ [Next]_vars => IInv'
<1> SUFFICES ASSUME IInv, [Next]_vars PROVE IInv'
  OBVIOUS
<1>1. ASSUME NEW d \in Devices, OldManagerAccepts(d) \/ OldManagerLetsGo(d) \/ DeviceDies(d)
      PROVE  IInv'
  BY <1>1, ManagerKeeps
<1>2. CASE OldManagerDies \/ Promoted \/ Crashes
  BY <1>2, ManagerKeeps
<1>3. CASE ConnStep
  BY <1>3, Apart, BeginsKeeps, SearchesKeeps, InsertsKeeps, EntersKeeps DEF ConnStep
<1>4. CASE MainStep
  BY <1>4, Apart, BeginsKeeps, SearchesKeeps, InsertsKeeps, EntersKeeps DEF MainStep
<1>5. CASE RoleStep
  BY <1>5, RoleKeeps, FreesKeeps DEF RoleStep
<1>6. CASE UNCHANGED vars
  <2>1. UNCHANGED <<server, alive, device, events, role, thread, history>>
    BY <1>6 DEF vars
  <2>2. ToldKnown' /\ ThreadsSound' /\ WalkSound'
    BY <2>1 DEF server, history, IInv, ToldKnown, ThreadsSound, WalkSound, HasContext, Creating,
               ContextIds
  <2> QED BY <2>1, <2>2, QuietStep DEF server, history, IInv, TypeOK
<1> QED BY <1>1, <1>2, <1>3, <1>4, <1>5, <1>6 DEF Next

LEMMA Invariance == Spec => []IInv
BY InitIInv, StepIInv, PTL DEF Spec

(* The model is well typed; in particular a walk never leaves the table and *)
(* a thread never asks for a bucket or a slot that is not there.            *)
THEOREM TypeCorrect == Spec => []TypeOK
<1>1. IInv => TypeOK
  BY DEF IInv
<1> QED BY <1>1, Invariance, PTL

(* For any users, devices and buckets a user has one context, although      *)
(* get_or_create_context searches for it and inserts it under two           *)
(* acquisitions of the lock: two threads only both find that there is none  *)
(* when a client comes that nobody sent, while the connection thread has    *)
(* the first event of its user in hand (connectionManagement.c:36-44).      *)
THEOREM UserHasOneContext == Spec => []OneContext
<1>1. IInv => OneContext
  BY DEF IInv
<1> QED BY <1>1, Invariance, PTL

-----------------------------------------------------------------------------
(* As long as this server is a backup, its contexts hold the sessions of    *)
(* the old manager as far as its events have been handled, and those of the *)
(* clients that came unasked; they fit, because no user has more devices    *)
(* than slots, and an event that ends a session finds it.                   *)

HasSession(d) ==
    \E c \in ContextIds, i \in Slots :
       contexts[c].sessions[i] # NULL /\ contexts[c].sessions[i].device = d

Handling(e) == thread["conn"].at \in {"search", "insert", "lock"} /\ thread["conn"].event = e
Coming(e) == \E k \in 1 .. Len(events) : events[k] = e

(* No device has two sessions in a context.                                 *)
Single ==
    \A c \in ContextIds : \A i, j \in Slots :
       contexts[c].sessions[i] # NULL /\ contexts[c].sessions[j] # NULL
       /\ contexts[c].sessions[i].device = contexts[c].sessions[j].device => i = j

(* The events that have not been handled fit the sessions that are there.   *)
Stream ==
    /\ \A d \in Devices :
          /\ device[d] \in {"new", "coming"} => ~HasSession(d)
          /\ device[d] \in {"new", "coming", "waiting"} =>
                \A e \in {Connected(d), Disconnected(d)} : ~Handling(e) /\ ~Coming(e)
          /\ device[d] = "here" =>
                HasSession(d) \/ Handling(Connected(d)) \/ Coming(Connected(d))
          /\ Handling(Connected(d)) \/ Coming(Connected(d)) => ~HasSession(d)
          /\ Handling(Disconnected(d)) \/ Coming(Disconnected(d)) => device[d] = "left"
          /\ Handling(Disconnected(d)) => HasSession(d)
    /\ \A e \in Events : Handling(e) => ~Coming(e)
    /\ \A k, l \in 1 .. Len(events) : events[k] = events[l] => k = l
    /\ \A k \in 1 .. Len(events), d \in Devices :
          events[k] = Disconnected(d) =>
             \/ HasSession(d) \/ Handling(Connected(d))
             \/ \E l \in 1 .. k - 1 : events[l] = Connected(d)

(* The client that the main thread has in hand, if it has one.              *)
InHandOfMain(states) ==
    thread["main"].at # "idle" => device[thread["main"].event.device] \in states

(* A server that is still a backup.                                         *)
Waiting ==
    /\ role.at = "backup"
    /\ InHandOfMain({"coming"})
    /\ thread["conn"].at # "out"
    /\ \A d \in Devices : device[d] \in {"new", "here", "left", "gone", "coming", "waiting"}
    /\ ~late /\ ~hasty /\ cut = {}
    /\ \A c \in ContextIds, i \in Slots :
          contexts[c].sessions[i] # NULL => contexts[c].sessions[i].threads = "none"
    /\ Single
    /\ Stream

(* A manager that has served nobody before the walks were over: what it     *)
(* frees nobody uses, and what is left when it has freed everything are the *)
(* sessions of clients it serves, and of some that it will never hear of.   *)
Patient ==
    /\ Single
    /\ \A d \in Devices : device[d] \in {"new", "coming"} => ~HasSession(d)
    /\ \A d \in Devices : Handling(Connected(d)) =>
          ~HasSession(d) /\ device[d] \in {"here", "left", "gone"}
    /\ InHandOfMain({"told", "coming"})
    /\ role.at # "manager" =>
          \A c \in ContextIds, i \in Slots :
             contexts[c].sessions[i] # NULL => contexts[c].sessions[i].threads # "client"
    /\ \A c \in ContextIds, i \in Slots :
          /\ contexts[c].sessions[i] # NULL
          /\ role.at = "manager" \/ (role.at = "free" /\ keyHash[contexts[c].user] < role.bucket)
          => device[contexts[c].sessions[i].device] \in {"served", "here", "left", "gone"}

Calm == cut = {} /\ \A d \in Devices : device[d] # "turned_away"

GoodInv ==
    /\ IInv
    /\ ~hasty => Calm
    /\ running => IF mode = "BACKUP" THEN Waiting ELSE (~hasty => Patient)

-----------------------------------------------------------------------------
(* Sessions that come and go.                                               *)

LEMMA LeastFree ==
    ASSUME NEW c, Free(c) # {}
    PROVE  find_free_session_index(c) \in Free(c)
<1>1. Free(c) \in SUBSET Nat
  BY SizesAssumption DEF Free, Slots
<1>2. \E i \in Free(c) : \A j \in Free(c) : i <= j
  BY <1>1, Least
<1> QED BY <1>2 DEF find_free_session_index

(* A session takes a slot that was free, and nothing else changes.          *)
LEMMA EnterFills ==
    ASSUME IInv, NEW c \in ContextIds, NEW d \in Devices, NEW k \in {"none", "client", "astray"},
           Enter(c, d, k), Free(c) # {}
    PROVE  /\ ContextIds' = ContextIds
           /\ \A b \in ContextIds : contexts'[b].user = contexts[b].user
           /\ \E i \in Slots :
                 /\ contexts[c].sessions[i] = NULL
                 /\ contexts'[c].sessions[i] # NULL
                 /\ contexts'[c].sessions[i].device = d
                 /\ contexts'[c].sessions[i].threads = k
                 /\ \A b \in ContextIds, j \in Slots :
                       b # c \/ j # i => contexts'[b].sessions[j] = contexts[b].sessions[j]
<1> DEFINE i == find_free_session_index(c)
           new == [device |-> d, threads |-> k]
           ctx == [contexts[c] EXCEPT !.sessions[i] = new]
<1>1. i \in Slots /\ contexts[c].sessions[i] = NULL
  BY LeastFree DEF Free
<1>2. /\ contexts \in Seq(Context) /\ ContextIds = 1 .. Len(contexts) /\ Len(contexts) \in Nat
      /\ contexts[c] \in Context
  BY NumbersOfContexts DEF IInv, TypeOK, ContextIds
<1>3. new # NULL /\ new.device = d /\ new.threads = k /\ new \in Sessions
  BY NullAssumption DEF Sessions
<1> HIDE DEF new, i
<1>4. /\ ctx \in Context /\ ctx.user = contexts[c].user
      /\ ctx.sessions[i] = new
      /\ \A j \in Slots : j # i => ctx.sessions[j] = contexts[c].sessions[j]
  BY <1>1, <1>2, <1>3 DEF Context
<1>5. contexts' = [contexts EXCEPT ![c] = ctx]
  BY DEF Enter, i, new
<1> HIDE DEF ctx
<1>6. Len(contexts') = Len(contexts) /\ contexts'[c] = ctx
      /\ \A b \in ContextIds : b # c => contexts'[b] = contexts[b]
  BY <1>2, <1>4, <1>5
<1>7. ContextIds' = ContextIds
  BY <1>6 DEF ContextIds
<1>8. \A b \in ContextIds, j \in Slots :
         b # c \/ j # i => contexts'[b].sessions[j] = contexts[b].sessions[j]
  BY <1>4, <1>6
<1>9. \A b \in ContextIds : contexts'[b].user = contexts[b].user
  BY <1>4, <1>6
<1> QED BY <1>1, <1>3, <1>4, <1>6, <1>7, <1>8, <1>9

(* A new context has no sessions.                                           *)
LEMMA InsertAdds ==
    ASSUME IInv, NEW t \in Threads, Inserts(t)
    PROVE  \E n :
              /\ n = Len(contexts')
              /\ ContextIds' = ContextIds \cup {n} /\ n \notin ContextIds
              /\ \A c \in ContextIds : contexts'[c] = contexts[c]
              /\ contexts'[n].user = User[thread[t].event.device]
              /\ \A i \in Slots : contexts'[n].sessions[i] = NULL
<1> DEFINE n == Len(contexts) + 1
           new == [user |-> User[thread[t].event.device], sessions |-> [i \in Slots |-> NULL]]
<1>1. contexts' = Append(contexts, new)
  BY DEF Inserts
<1>2. contexts \in Seq(Context) /\ Len(contexts) \in Nat
  BY NumbersOfContexts DEF IInv, TypeOK
<1>3. new.user = User[thread[t].event.device] /\ \A i \in Slots : new.sessions[i] = NULL
  OBVIOUS
<1> HIDE DEF new
<1>4. /\ Len(contexts') = n /\ contexts'[n] = new
      /\ \A c \in ContextIds : contexts'[c] = contexts[c]
  BY <1>1, <1>2 DEF ContextIds
<1>5. ContextIds' = ContextIds \cup {n} /\ n \notin ContextIds
  BY <1>2, <1>4 DEF ContextIds
<1> QED BY <1>3, <1>4, <1>5

(* The devices of a user fit in the slots of the context.                   *)
LEMMA RoomForOne ==
    ASSUME IInv, Single, NEW c \in ContextIds, NEW d \in Devices, contexts[c].user = User[d],
           \A i \in Slots : contexts[c].sessions[i] # NULL => contexts[c].sessions[i].device # d
    PROVE  Free(c) # {}
<1> SUFFICES ASSUME Free(c) = {} PROVE FALSE
  OBVIOUS
<1> DEFINE F == {e \in Devices : User[e] = User[d]}
           G == F \ {d}
           f == [i \in Slots |-> contexts[c].sessions[i].device]
<1>1. IsFiniteSet(F) /\ Cardinality(F) <= MAX_SESSIONS
  <2>1. User[d] \in Users
    BY UserAssumption
  <2>2. F \in SUBSET Devices
    OBVIOUS
  <2> QED BY <2>1, <2>2, DevicesAssumption, FS_Subset
<1>2. IsFiniteSet(G) /\ Cardinality(G) = Cardinality(F) - 1 /\ Cardinality(F) \in Nat
  <2>1. d \in F
    OBVIOUS
  <2> HIDE DEF F
  <2> QED BY <1>1, <2>1, FS_RemoveElement, FS_CardinalityType
<1>3. IsFiniteSet(Slots) /\ Cardinality(Slots) = MAX_SESSIONS
  BY SizesAssumption, FS_Interval DEF Slots
<1>4. \A i \in Slots : contexts[c].sessions[i] # NULL
  BY DEF Free
<1>5. f \in [Slots -> G]
  <2>1. \A i \in Slots : contexts[c].sessions[i].device \in G
    BY <1>4 DEF IInv, OwnSessions
  <2> QED BY <2>1
<1>6. Cardinality(G) < Cardinality(Slots)
  BY <1>1, <1>2, <1>3, SizesAssumption
<1> HIDE DEF G, f
<1>7. PICK i, j \in Slots : i # j /\ f[i] = f[j]
  BY <1>2, <1>3, <1>5, <1>6, FS_PigeonHole
<1>8. contexts[c].sessions[i].device = contexts[c].sessions[j].device
  BY <1>7 DEF f
<1> QED BY <1>4, <1>7, <1>8 DEF Single

(* Searching and inserting keep a thread at its event.                      *)
LEMMA GoesOn ==
    ASSUME IInv, NEW t \in Threads, Searches(t) \/ Inserts(t)
    PROVE  /\ thread[t].at \in {"search", "insert"}
           /\ thread'[t].at \in {"insert", "lock"}
           /\ thread'[t].event = thread[t].event
           /\ \A s \in Threads : s # t => thread'[s] = thread[s]
<1>1. thread \in [Threads -> Task] /\ thread[t] \in Task
  BY DEF IInv, TypeOK
<1>2. CASE Searches(t)
  <2> DEFINE found == LinkedList_get(Bucket(t), User[thread[t].event.device])
             k == IF found = {} THEN [thread[t] EXCEPT !.at = "insert"]
                  ELSE [thread[t] EXCEPT !.at = "lock", !.context = CHOOSE c \in found : TRUE]
  <2>1. thread' = [thread EXCEPT ![t] = k] /\ thread[t].at = "search"
    BY <1>1, <1>2 DEF Searches, At
  <2>2. k.at \in {"insert", "lock"} /\ k.event = thread[t].event
    BY <1>1 DEF Task
  <2> HIDE DEF k
  <2> QED BY <1>1, <2>1, <2>2
<1>3. CASE Inserts(t)
  BY <1>1, <1>3 DEF Inserts, At, Task
<1> QED BY <1>2, <1>3

(* A device that has no session gets one.                                   *)
LEMMA EnterAdds ==
    ASSUME IInv, Single, NEW c \in ContextIds, NEW d \in Devices, contexts[c].user = User[d],
           ~HasSession(d), NEW k \in {"none", "client", "astray"}
    PROVE  /\ Free(c) # {}
           /\ Enter(c, d, k) =>
                 /\ ContextIds' = ContextIds
                 /\ \A b \in ContextIds : contexts'[b].user = contexts[b].user
                 /\ Single' /\ HasSession(d)'
                 /\ \A e : e # d => (HasSession(e)' <=> HasSession(e))
                 /\ \A b \in ContextIds, j \in Slots : contexts'[b].sessions[j] # NULL =>
                       \/ contexts'[b].sessions[j] = contexts[b].sessions[j]
                       \/ /\ contexts'[b].sessions[j].device = d
                          /\ contexts'[b].sessions[j].threads = k
<1>1. \A b \in ContextIds, j \in Slots :
         contexts[b].sessions[j] # NULL => contexts[b].sessions[j].device # d
  BY DEF HasSession
<1>2. Free(c) # {}
  BY <1>1, RoomForOne
<1> SUFFICES ASSUME Enter(c, d, k)
             PROVE  /\ ContextIds' = ContextIds
                    /\ \A b \in ContextIds : contexts'[b].user = contexts[b].user
                    /\ Single' /\ HasSession(d)'
                    /\ \A e : e # d => (HasSession(e)' <=> HasSession(e))
                    /\ \A b \in ContextIds, j \in Slots : contexts'[b].sessions[j] # NULL =>
                          \/ contexts'[b].sessions[j] = contexts[b].sessions[j]
                          \/ /\ contexts'[b].sessions[j].device = d
                             /\ contexts'[b].sessions[j].threads = k
  BY <1>2
<1>3. /\ ContextIds' = ContextIds
      /\ \A b \in ContextIds : contexts'[b].user = contexts[b].user
  BY <1>2, EnterFills
<1>4. PICK i \in Slots :
         /\ contexts[c].sessions[i] = NULL
         /\ contexts'[c].sessions[i] # NULL
         /\ contexts'[c].sessions[i].device = d
         /\ contexts'[c].sessions[i].threads = k
         /\ \A b \in ContextIds, j \in Slots :
               b # c \/ j # i => contexts'[b].sessions[j] = contexts[b].sessions[j]
  BY <1>2, EnterFills
<1>5. Single'
  BY <1>1, <1>3, <1>4 DEF Single
<1>6. HasSession(d)'
  BY <1>3, <1>4 DEF HasSession
<1>7. ASSUME NEW e, e # d PROVE HasSession(e)' <=> HasSession(e)
  <2>1. \A b \in ContextIds, j \in Slots :
           contexts'[b].sessions[j] # NULL /\ contexts'[b].sessions[j].device = e
           <=> contexts[b].sessions[j] # NULL /\ contexts[b].sessions[j].device = e
    BY <1>4, <1>7
  <2> QED BY <1>3, <2>1 DEF HasSession
<1> QED BY <1>3, <1>4, <1>5, <1>6, <1>7

(* A device that leaves takes its session out of the context.               *)
LEMMA LeavesTakes ==
    ASSUME IInv, EventLeaves
    PROVE  /\ ContextIds' = ContextIds
           /\ \A b \in ContextIds : contexts'[b].user = contexts[b].user
           /\ Single => Single'
           /\ \A e : e # thread["conn"].event.device => (HasSession(e)' <=> HasSession(e))
           /\ \A e : HasSession(e)' => HasSession(e)
           /\ \A b \in ContextIds, j \in Slots : contexts'[b].sessions[j] # NULL =>
                 contexts'[b].sessions[j] = contexts[b].sessions[j]
<1> DEFINE c == thread["conn"].context
           d == thread["conn"].event.device
           mine == {i \in Slots : contexts[c].sessions[i] # NULL
                       /\ contexts[c].sessions[i].device = d}
           ctx == [contexts[c] EXCEPT !.sessions =
                      [i \in Slots |-> IF i \in mine THEN NULL ELSE @[i]]]
<1>1. /\ thread["conn"].at = "lock"
      /\ contexts' = [contexts EXCEPT ![c].sessions =
                         [i \in Slots |-> IF i \in mine THEN NULL ELSE @[i]]]
  BY DEF EventLeaves, At
<1>2. c \in ContextIds
  BY <1>1, Apart DEF IInv, ThreadsSound
<1>3. /\ contexts \in Seq(Context) /\ ContextIds = 1 .. Len(contexts) /\ Len(contexts) \in Nat
      /\ contexts[c] \in Context
  BY <1>2, NumbersOfContexts DEF IInv, TypeOK, ContextIds
<1>4. contexts' = [contexts EXCEPT ![c] = ctx]
  BY <1>1
<1>5. /\ ctx \in Context /\ ctx.user = contexts[c].user
      /\ \A j \in Slots : ctx.sessions[j] = IF j \in mine THEN NULL ELSE contexts[c].sessions[j]
  BY <1>3 DEF Context
<1> HIDE DEF ctx
<1>6. /\ Len(contexts') = Len(contexts) /\ contexts'[c] = ctx
      /\ \A b \in ContextIds : b # c => contexts'[b] = contexts[b]
  BY <1>2, <1>3, <1>4, <1>5
<1>7. ContextIds' = ContextIds
  BY <1>6 DEF ContextIds
<1>8. \A b \in ContextIds, j \in Slots :
         /\ contexts'[b].sessions[j] # NULL => contexts'[b].sessions[j] = contexts[b].sessions[j]
         /\ contexts[b].sessions[j] # NULL /\ contexts[b].sessions[j].device # d =>
               contexts'[b].sessions[j] = contexts[b].sessions[j]
  BY <1>5, <1>6
<1>9. \A b \in ContextIds : contexts'[b].user = contexts[b].user
  BY <1>5, <1>6
<1> HIDE DEF c, d, mine
<1>10. (Single => Single') /\ \A e : HasSession(e)' => HasSession(e)
  BY <1>7, <1>8 DEF Single, HasSession
<1>11. \A e : e # d => (HasSession(e)' <=> HasSession(e))
  BY <1>7, <1>8 DEF HasSession
<1> QED BY <1>7, <1>8, <1>9, <1>10, <1>11 DEF d

(* The sessions of other devices are where they were.                       *)
LEMMA SessionsSame ==
    ASSUME contexts' = contexts
    PROVE  (\A c : HasSession(c)' <=> HasSession(c)) /\ (Single' <=> Single)
BY DEF HasSession, Single, ContextIds

LEMMA SessionsWithNew ==
    ASSUME IInv, NEW t \in Threads, Inserts(t)
    PROVE  (\A c : HasSession(c)' <=> HasSession(c)) /\ (Single => Single')
<1>1. PICK n : /\ ContextIds' = ContextIds \cup {n} /\ n \notin ContextIds
               /\ \A c \in ContextIds : contexts'[c] = contexts[c]
               /\ \A i \in Slots : contexts'[n].sessions[i] = NULL
  BY InsertAdds
<1> QED BY <1>1 DEF HasSession, Single

(* The session of a device is in the context of its user.                   *)
LEMMA SessionPlace ==
    ASSUME IInv, NEW c \in ContextIds, NEW d \in Devices, contexts[c].user = User[d],
           NEW b \in ContextIds, NEW i \in Slots,
           contexts[b].sessions[i] # NULL, contexts[b].sessions[i].device = d, ~met
    PROVE  b = c
BY DEF IInv, OwnSessions, OneContext

-----------------------------------------------------------------------------
(* The events of the old manager fit the sessions they find at a backup.    *)

LEMMA Kinds ==
    /\ \A c, d \in Devices :
          /\ Connected(c) = Connected(d) => c = d
          /\ Disconnected(c) = Disconnected(d) => c = d
          /\ Connected(c) # Disconnected(d)
    /\ \A d \in Devices :
          /\ Connected(d) \in Events /\ Disconnected(d) \in Events
          /\ Connected(d).kind = "CONNECTED" /\ Connected(d).device = d
          /\ Disconnected(d).kind = "DISCONNECTED" /\ Disconnected(d).device = d
    /\ \A e \in Events :
          /\ e.device \in Devices
          /\ e.kind = "CONNECTED" => e = Connected(e.device)
          /\ e.kind = "DISCONNECTED" => e = Disconnected(e.device)
          /\ e.kind \in {"CONNECTED", "DISCONNECTED"}
<1>1. \A e \in Events :
          /\ e.device \in Devices
          /\ e.kind \in {"CONNECTED", "DISCONNECTED"}
          /\ e.kind = "CONNECTED" => e = Connected(e.device)
          /\ e.kind = "DISCONNECTED" => e = Disconnected(e.device)
  BY DEF Events, Connected, Disconnected
<1>2. \A d \in Devices :
          /\ Connected(d) \in Events /\ Disconnected(d) \in Events
          /\ Connected(d).kind = "CONNECTED" /\ Connected(d).device = d
          /\ Disconnected(d).kind = "DISCONNECTED" /\ Disconnected(d).device = d
  BY DEF Events, Connected, Disconnected
<1>3. \A c, d \in Devices :
          /\ Connected(c) = Connected(d) => c = d
          /\ Disconnected(c) = Disconnected(d) => c = d
          /\ Connected(c) # Disconnected(d)
  BY <1>2
<1> QED BY <1>1, <1>2, <1>3

LEMMA Unread ==
    ASSUME TypeOK
    PROVE  /\ events \in Seq(Events) /\ Len(events) \in Nat
           /\ \A k \in 1 .. Len(events) : events[k] \in Events
           /\ device \in [Devices -> DeviceStates]
BY DEF TypeOK

LEMMA Sent ==
    ASSUME TypeOK, NEW e \in Events, events' = Append(events, e)
    PROVE  /\ Len(events') = Len(events) + 1
           /\ \A k \in 1 .. Len(events) : events'[k] = events[k]
           /\ events'[Len(events) + 1] = e
           /\ \A f : Coming(f)' <=> Coming(f) \/ f = e
<1>1. events \in Seq(Events) /\ Len(events) \in Nat
  BY Unread
<1>2. /\ Len(events') = Len(events) + 1
      /\ \A k \in 1 .. Len(events) : events'[k] = events[k]
      /\ events'[Len(events) + 1] = e
  BY <1>1
<1>3. \A k : k \in 1 .. Len(events') <=> k \in 1 .. Len(events) \/ k = Len(events) + 1
  BY <1>1, <1>2
<1> QED BY <1>2, <1>3 DEF Coming

(* The events and what a device does.                                       *)
LEMMA StreamGrows ==
    ASSUME IInv, Stream, NEW d \in Devices, OldManagerAccepts(d) \/ OldManagerLetsGo(d)
    PROVE  Stream'
<1> DEFINE n == Len(events)
           e == IF device[d] = "new" THEN Connected(d) ELSE Disconnected(d)
<1>1. /\ UNCHANGED <<contexts, thread>>
      /\ \/ device[d] = "new" /\ device' = [device EXCEPT ![d] = "here"]
         \/ device[d] = "here" /\ device' = [device EXCEPT ![d] = "left"]
      /\ events' = Append(events, e)
  <2>1. CASE OldManagerAccepts(d)
    <3>1. e = Connected(d)
      BY <2>1 DEF OldManagerAccepts
    <3> HIDE DEF e
    <3>2. UNCHANGED <<contexts, thread>>
      BY <2>1 DEF OldManagerAccepts, server
    <3>3. device[d] = "new" /\ device' = [device EXCEPT ![d] = "here"]
      BY <2>1 DEF OldManagerAccepts
    <3>4. events' = Append(events, e)
      BY <2>1, <3>1 DEF OldManagerAccepts
    <3> QED BY <3>2, <3>3, <3>4
  <2>2. CASE OldManagerLetsGo(d)
    <3>1. e = Disconnected(d)
      BY <2>2 DEF OldManagerLetsGo
    <3> HIDE DEF e
    <3> QED BY <2>2, <3>1 DEF OldManagerLetsGo, server
  <2> QED BY <2>1, <2>2
<1>2. /\ \A c : HasSession(c)' <=> HasSession(c)
      /\ \A f : Handling(f)' <=> Handling(f)
  BY <1>1 DEF HasSession, Handling, ContextIds
<1>3. /\ Len(events') = n + 1 /\ n \in Nat
      /\ \A k \in 1 .. n : events'[k] = events[k]
      /\ events'[n + 1] = e
      /\ \A f : Coming(f)' <=> Coming(f) \/ f = e
  BY <1>1, Sent, Kinds, Unread DEF IInv
<1>4. /\ device \in [Devices -> DeviceStates]
      /\ \A c \in Devices : c # d => device'[c] = device[c]
      /\ device[d] = "new" => device'[d] = "here"
      /\ device[d] = "here" => device'[d] = "left"
      /\ device[d] \in {"new", "here"}
  BY <1>1, Unread DEF IInv
<1>5. \A k \in 1 .. n + 1 : k \in 1 .. n \/ k = n + 1
  BY <1>3
<1>6. \A c \in Devices :
         /\ Connected(c) = e <=> c = d /\ device[d] = "new"
         /\ Disconnected(c) = e <=> c = d /\ device[d] # "new"
  BY Kinds
<1>7. e \in Events /\ e.device = d /\ (e.kind = "CONNECTED" <=> device[d] = "new")
  BY Kinds
<1> HIDE DEF n, e
<1>8. ~Handling(e) /\ ~Coming(e)
  <2>1. CASE device[d] = "new"
    BY <1>6, <2>1 DEF Stream
  <2>2. CASE device[d] # "new"
    BY <1>4, <1>6, <2>2 DEF Stream
  <2> QED BY <2>1, <2>2
<1>9. ASSUME NEW c \in Devices
      PROVE  /\ device'[c] \in {"new", "coming"} => ~HasSession(c)'
             /\ device'[c] \in {"new", "coming", "waiting"} =>
                   \A f \in {Connected(c), Disconnected(c)} : ~Handling(f)' /\ ~Coming(f)'
             /\ device'[c] = "here" =>
                   HasSession(c)' \/ Handling(Connected(c))' \/ Coming(Connected(c))'
             /\ Handling(Connected(c))' \/ Coming(Connected(c))' => ~HasSession(c)'
             /\ Handling(Disconnected(c))' \/ Coming(Disconnected(c))' => device'[c] = "left"
             /\ Handling(Disconnected(c))' => HasSession(c)'
  <2>1. CASE c = d
    BY <1>2, <1>3, <1>4, <1>6, <2>1 DEF Stream
  <2>2. CASE c # d
    BY <1>2, <1>3, <1>4, <1>6, <2>2 DEF Stream
  <2> QED BY <2>1, <2>2
<1>10. \A f \in Events : Handling(f)' => ~Coming(f)'
  BY <1>2, <1>3, <1>8 DEF Stream
<1>11. ASSUME NEW k \in 1 .. n + 1, NEW l \in 1 .. n + 1, events'[k] = events'[l]
       PROVE  k = l
  <2>1. \A j \in 1 .. n : events[j] # e
    BY <1>8 DEF Coming, n
  <2>2. \A i, j \in 1 .. n : events[i] = events[j] => i = j
    BY DEF Stream, n
  <2> QED BY <1>3, <1>5, <1>11, <2>1, <2>2
<1>12. ASSUME NEW k \in 1 .. n + 1, NEW c \in Devices, events'[k] = Disconnected(c)
       PROVE  \/ HasSession(c)' \/ Handling(Connected(c))'
              \/ \E l \in 1 .. k - 1 : events'[l] = Connected(c)
  <2>1. HasSession(c) \/ Handling(Connected(c))
           \/ \E l \in 1 .. k - 1 : l \in 1 .. n /\ events[l] = Connected(c)
    <3>1. CASE k \in 1 .. n
      <4>1. \A l \in 1 .. k - 1 : l \in 1 .. n
        BY <1>3, <3>1
      <4> QED BY <1>3, <1>12, <3>1, <4>1 DEF Stream, n
    <3>2. CASE k = n + 1
      <4>1. c = d /\ device[d] = "here"
        BY <1>3, <1>4, <1>6, <1>12, <3>2
      <4>2. HasSession(d) \/ Handling(Connected(d)) \/ \E l \in 1 .. n : events[l] = Connected(d)
        BY <4>1 DEF Stream, Coming, n
      <4>3. k - 1 = n
        BY <1>3, <3>2
      <4> QED BY <4>1, <4>2, <4>3
    <3> QED BY <1>5, <3>1, <3>2
  <2> QED BY <1>2, <1>3, <2>1
<1> QED BY <1>3, <1>9, <1>10, <1>11, <1>12 DEF Stream

(* The connection thread takes the first event.                             *)
LEMMA StreamMoves ==
    ASSUME IInv, Stream, mode = "BACKUP", ConnReads
    PROVE  Stream'
<1> DEFINE n == Len(events)
           e == Head(events)
<1>1. /\ UNCHANGED <<contexts, device>> /\ thread["conn"].at = "idle"
      /\ events # <<>> /\ events' = Tail(events)
      /\ thread' = [thread EXCEPT !["conn"].at = "search", !["conn"].event = e]
  BY DEF ConnReads, At, server
<1>2. \A c : HasSession(c)' <=> HasSession(c)
  BY <1>1 DEF HasSession, ContextIds
<1>3. /\ n \in Nat \ {0} /\ Len(events') = n - 1 /\ events[1] = e
      /\ \A k \in 1 .. n - 1 : events'[k] = events[k + 1]
  BY <1>1, Unread DEF IInv
<1>4. /\ \A f : ~Handling(f)
      /\ \A f : Handling(f)' <=> f = e
  <2>1. thread'["conn"].at = "search" /\ thread'["conn"].event = e
    BY <1>1, Apart DEF IInv, TypeOK, Task
  <2> QED BY <1>1, <2>1 DEF Handling
<1> HIDE DEF n, e
<1>5. \A k \in 1 .. n : k = 1 \/ k - 1 \in 1 .. n - 1
  BY <1>3
<1>6. \A k \in 1 .. n - 1 : k + 1 \in 1 .. n
  BY <1>3
<1>7. \A f : Coming(f) <=> Coming(f)' \/ f = e
  <2> SUFFICES ASSUME NEW f PROVE Coming(f) <=> Coming(f)' \/ f = e
    OBVIOUS
  <2>1. ASSUME NEW k \in 1 .. n, events[k] = f PROVE Coming(f)' \/ f = e
    <3>1. CASE k = 1
      BY <1>3, <2>1, <3>1
    <3>2. CASE k # 1
      <4>1. k - 1 \in 1 .. n - 1 /\ (k - 1) + 1 = k
        BY <1>3, <3>2
      <4>2. events'[k - 1] = f
        BY <1>3, <2>1, <4>1
      <4> QED BY <1>3, <4>1, <4>2 DEF Coming
    <3> QED BY <3>1, <3>2
  <2>2. f = e => Coming(f)
    BY <1>3 DEF Coming, n
  <2>3. Coming(f)' => Coming(f)
    BY <1>3, <1>6 DEF Coming, n
  <2> QED BY <2>1, <2>2, <2>3 DEF Coming, n
<1>8. e \in Events /\ \A d \in Devices : e = Disconnected(d) => HasSession(d)
  <2>1. e \in Events /\ 1 \in 1 .. n
    BY <1>3, Unread DEF IInv, n
  <2>2. ASSUME NEW d \in Devices, e = Disconnected(d) PROVE HasSession(d)
    <3>1. ~(\E l \in 1 .. 1 - 1 : events[l] = Connected(d))
      OBVIOUS
    <3> QED BY <1>3, <1>4, <2>1, <2>2, <3>1 DEF Stream, n
  <2> QED BY <2>1, <2>2
<1>9. ASSUME NEW c \in Devices
      PROVE  /\ device'[c] \in {"new", "coming"} => ~HasSession(c)'
             /\ device'[c] \in {"new", "coming", "waiting"} =>
                   \A f \in {Connected(c), Disconnected(c)} : ~Handling(f)' /\ ~Coming(f)'
             /\ device'[c] = "here" =>
                   HasSession(c)' \/ Handling(Connected(c))' \/ Coming(Connected(c))'
             /\ Handling(Connected(c))' \/ Coming(Connected(c))' => ~HasSession(c)'
             /\ Handling(Disconnected(c))' \/ Coming(Disconnected(c))' => device'[c] = "left"
             /\ Handling(Disconnected(c))' => HasSession(c)'
  BY <1>1, <1>2, <1>4, <1>7, <1>8 DEF Stream
<1>10. \A i, j \in 1 .. n : events[i] = events[j] => i = j
  BY DEF Stream, n
<1>11. \A f \in Events : Handling(f)' => ~Coming(f)'
  <2> SUFFICES ASSUME NEW f \in Events, f = e, Coming(f)' PROVE FALSE
    BY <1>4
  <2>1. PICK k \in 1 .. n - 1 : events[k + 1] = e
    BY <1>3 DEF Coming
  <2>2. k + 1 \in 1 .. n /\ 1 \in 1 .. n /\ k + 1 # 1
    BY <1>3, <1>6
  <2> QED BY <1>3, <1>10, <2>1, <2>2
<1>12. ASSUME NEW k \in 1 .. n - 1, NEW l \in 1 .. n - 1, events'[k] = events'[l]
       PROVE  k = l
  <2>1. k + 1 = l + 1
    BY <1>3, <1>6, <1>10, <1>12
  <2> QED BY <2>1
<1>13. ASSUME NEW k \in 1 .. n - 1, NEW c \in Devices, events'[k] = Disconnected(c)
       PROVE  \/ HasSession(c)' \/ Handling(Connected(c))'
              \/ \E l \in 1 .. k - 1 : events'[l] = Connected(c)
  <2>1. k + 1 \in 1 .. n /\ events[k + 1] = Disconnected(c) /\ (k + 1) - 1 = k
    BY <1>3, <1>6, <1>13
  <2>2. HasSession(c) \/ \E l \in 1 .. k : events[l] = Connected(c)
    BY <1>4, <2>1 DEF Stream, n
  <2>3. ASSUME NEW l \in 1 .. k, events[l] = Connected(c)
        PROVE  Handling(Connected(c))' \/ \E j \in 1 .. k - 1 : events'[j] = Connected(c)
    <3>1. CASE l = 1
      BY <1>3, <1>4, <2>3, <3>1
    <3>2. CASE l # 1
      <4>1. l - 1 \in 1 .. k - 1 /\ l - 1 \in 1 .. n - 1 /\ (l - 1) + 1 = l
        BY <1>3, <3>2
      <4>2. events'[l - 1] = Connected(c)
        BY <1>3, <2>3, <4>1
      <4> QED BY <4>1, <4>2
    <3> QED BY <3>1, <3>2
  <2> QED BY <1>2, <2>2, <2>3
<1> QED BY <1>3, <1>9, <1>11, <1>12, <1>13 DEF Stream

(* What becomes of a device that no event is about leaves the events alone. *)
LEMMA StreamKept ==
    ASSUME IInv, Stream, UNCHANGED events,
           \A f : Handling(f)' <=> Handling(f),
           \A c \in Devices :
              \/ device[c] = "coming" /\ device'[c] = "waiting"
              \/ /\ HasSession(c)' <=> HasSession(c)
                 /\ \/ device'[c] = device[c]
                    \/ device[c] = "new" /\ device'[c] = "coming"
                    \/ device[c] \in {"here", "waiting"} /\ device'[c] = "gone"
    PROVE  Stream'
<1>1. \A f : Coming(f)' <=> Coming(f)
  BY DEF Coming
<1>2. ASSUME NEW c \in Devices, device[c] = "coming", device'[c] = "waiting"
      PROVE  \A f \in {Connected(c), Disconnected(c)} : ~Handling(f) /\ ~Coming(f)
  BY <1>2 DEF Stream
<1>3. ASSUME NEW c \in Devices
      PROVE  /\ device'[c] \in {"new", "coming"} => ~HasSession(c)'
             /\ device'[c] \in {"new", "coming", "waiting"} =>
                   \A f \in {Connected(c), Disconnected(c)} : ~Handling(f)' /\ ~Coming(f)'
             /\ device'[c] = "here" =>
                   HasSession(c)' \/ Handling(Connected(c))' \/ Coming(Connected(c))'
             /\ Handling(Connected(c))' \/ Coming(Connected(c))' => ~HasSession(c)'
             /\ Handling(Disconnected(c))' \/ Coming(Disconnected(c))' => device'[c] = "left"
             /\ Handling(Disconnected(c))' => HasSession(c)'
  <2>1. CASE device[c] = "coming" /\ device'[c] = "waiting"
    BY <1>1, <1>2, <2>1
  <2>2. CASE HasSession(c)' <=> HasSession(c)
    BY <1>1, <2>2 DEF Stream
  <2> QED BY <2>1, <2>2
<1>4. ASSUME NEW k \in 1 .. Len(events), NEW c \in Devices, events[k] = Disconnected(c)
      PROVE  \/ HasSession(c)' \/ Handling(Connected(c))'
             \/ \E l \in 1 .. k - 1 : events[l] = Connected(c)
  <2>1. ~(device[c] = "coming" /\ device'[c] = "waiting")
    BY <1>2, <1>4 DEF Coming
  <2> QED BY <1>4, <2>1 DEF Stream
<1> QED BY <1>1, <1>3, <1>4 DEF Stream

(* The event in hand is done with.                                          *)
LEMMA StreamDone ==
    ASSUME IInv, Stream, UNCHANGED <<events, device>>, NEW d \in Devices,
           NEW e \in {Connected(d), Disconnected(d)}, Handling(e),
           \A f : ~Handling(f)',
           e = Connected(d) => HasSession(d)',
           \A c \in Devices : c # d => (HasSession(c)' <=> HasSession(c))
    PROVE  Stream'
<1> DEFINE n == Len(events)
<1>1. \A f : Coming(f)' <=> Coming(f)
  BY DEF Coming
<1>3. \A f : Handling(f) => f = e
  BY DEF Handling
<1>4. ~Coming(e)
  BY Kinds DEF Stream
<1>5. ASSUME NEW c \in Devices
      PROVE  /\ device'[c] \in {"new", "coming"} => ~HasSession(c)'
             /\ device'[c] \in {"new", "coming", "waiting"} =>
                   \A f \in {Connected(c), Disconnected(c)} : ~Handling(f)' /\ ~Coming(f)'
             /\ device'[c] = "here" =>
                   HasSession(c)' \/ Handling(Connected(c))' \/ Coming(Connected(c))'
             /\ Handling(Connected(c))' \/ Coming(Connected(c))' => ~HasSession(c)'
             /\ Handling(Disconnected(c))' \/ Coming(Disconnected(c))' => device'[c] = "left"
             /\ Handling(Disconnected(c))' => HasSession(c)'
  <2>1. CASE c = d
    <3>1. device[d] \notin {"new", "coming", "waiting"}
      BY DEF Stream
    <3>2. e = Disconnected(d) => device[d] = "left" /\ HasSession(d)
      BY DEF Stream
    <3>3. ~Coming(Connected(d))
      BY <1>4, <3>2 DEF Stream
    <3>4. Coming(Disconnected(d)) => device[d] = "left"
      BY DEF Stream
    <3>5. device[d] = "here" => e = Connected(d)
      BY <3>2
    <3> QED BY <1>1, <2>1, <3>1, <3>3, <3>4, <3>5
  <2>2. CASE c # d
    <3>1. ~Handling(Connected(c)) /\ ~Handling(Disconnected(c))
      BY <1>3, <2>2, Kinds
    <3> QED BY <1>1, <2>2, <3>1 DEF Stream
  <2> QED BY <2>1, <2>2
<1>6. ASSUME NEW k \in 1 .. n, NEW c \in Devices, events[k] = Disconnected(c)
      PROVE  HasSession(c)' \/ \E l \in 1 .. k - 1 : events[l] = Connected(c)
  <2>1. HasSession(c) \/ Handling(Connected(c)) \/ \E l \in 1 .. k - 1 : events[l] = Connected(c)
    BY <1>6 DEF Stream
  <2>2. c = d => e = Connected(d)
    BY <1>4, <1>6 DEF Coming
  <2>3. Handling(Connected(c)) => c = d
    BY <1>3, Kinds
  <2> QED BY <2>1, <2>2, <2>3
<1> QED BY <1>1, <1>5, <1>6 DEF Stream

-----------------------------------------------------------------------------
(* The steps of a backup.                                                   *)

(* Its connection thread handles the CONNECTED of a device that has no      *)
(* session.                                                                 *)
LEMMA WaitingEnters ==
    ASSUME IInv, Waiting, mode = "BACKUP", EventEnters
    PROVE  /\ Single' /\ Stream'
           /\ \A b \in ContextIds', j \in Slots :
                 contexts'[b].sessions[j] # NULL => contexts'[b].sessions[j].threads = "none"
<1>0. PICK c, d : c = thread["conn"].context /\ d = thread["conn"].event.device
  OBVIOUS
<1>1. /\ UNCHANGED <<events, device>>
      /\ thread["conn"].at = "lock" /\ thread["conn"].event.kind = "CONNECTED"
      /\ thread' = [thread EXCEPT !["conn"] = AtRest]
  BY DEF EventEnters, At
<1>2. /\ thread["conn"].event \in Events /\ c \in ContextIds /\ contexts[c].user = User[d]
  BY <1>0, <1>1, Apart DEF IInv, ThreadsSound
<1>3. d \in Devices /\ thread["conn"].event = Connected(d)
  BY <1>0, <1>1, <1>2, Kinds
<1>4. Handling(Connected(d)) /\ ~HasSession(d)
  BY <1>1, <1>3 DEF Handling, Waiting, Stream
<1>5. \A f : ~Handling(f)'
  BY <1>1, Apart DEF Handling, IInv, TypeOK, AtRest
<1>6. Free(c) # {} => Enter(c, d, "none")
  BY <1>0 DEF EventEnters
<1>7. Single
  BY DEF Waiting
<1>8. Free(c) # {}
  BY <1>2, <1>3, <1>4, <1>7, EnterAdds
<1>9. /\ ContextIds' = ContextIds /\ Single' /\ HasSession(d)'
      /\ \A e : e # d => (HasSession(e)' <=> HasSession(e))
      /\ \A b \in ContextIds, j \in Slots : contexts'[b].sessions[j] # NULL =>
            \/ contexts'[b].sessions[j] = contexts[b].sessions[j]
            \/ contexts'[b].sessions[j].threads = "none"
  <2>1. Enter(c, d, "none") /\ "none" \in {"none", "client", "astray"}
    BY <1>6, <1>8
  <2>2. c \in ContextIds /\ d \in Devices /\ contexts[c].user = User[d] /\ ~HasSession(d)
    BY <1>2, <1>3, <1>4
  <2> QED BY <1>7, <2>1, <2>2, EnterAdds
<1>10. Stream'
  <2>1. Connected(d) \in {Connected(d), Disconnected(d)}
    OBVIOUS
  <2>2. Stream /\ UNCHANGED <<events, device>>
    BY <1>1 DEF Waiting
  <2>3. \A e \in Devices : e # d => (HasSession(e)' <=> HasSession(e))
    BY <1>9
  <2>4. HasSession(d)' /\ d \in Devices /\ Handling(Connected(d))
    BY <1>3, <1>4, <1>9
  <2> QED BY <1>5, <2>1, <2>2, <2>3, <2>4, StreamDone
<1>11. \A b \in ContextIds', j \in Slots :
          contexts'[b].sessions[j] # NULL => contexts'[b].sessions[j].threads = "none"
  BY <1>9 DEF Waiting
<1> QED BY <1>9, <1>10, <1>11

(* It handles a DISCONNECTED, of a device that has a session.               *)
LEMMA WaitingLeaves ==
    ASSUME IInv, Waiting, mode = "BACKUP", EventLeaves
    PROVE  /\ Single' /\ Stream'
           /\ \A b \in ContextIds', j \in Slots :
                 contexts'[b].sessions[j] # NULL => contexts'[b].sessions[j].threads = "none"
           /\ ~met => running'
<1> DEFINE c == thread["conn"].context
           d == thread["conn"].event.device
<1>1. /\ UNCHANGED <<events, device>>
      /\ thread["conn"].at = "lock" /\ thread["conn"].event.kind = "DISCONNECTED"
      /\ thread' = [thread EXCEPT !["conn"] = AtRest]
      /\ running' = (\E i \in Slots : contexts[c].sessions[i] # NULL
                                     /\ contexts[c].sessions[i].device = d)
  BY DEF EventLeaves, At
<1>2. /\ thread["conn"].event \in Events /\ c \in ContextIds /\ contexts[c].user = User[d]
  BY <1>1, Apart DEF IInv, ThreadsSound
<1>3. d \in Devices /\ thread["conn"].event = Disconnected(d)
  BY <1>1, <1>2, Kinds
<1>4. Handling(Disconnected(d)) /\ HasSession(d)
  BY <1>1, <1>3 DEF Handling, Waiting, Stream
<1>5. \A f : ~Handling(f)'
  BY <1>1, Apart DEF Handling, IInv, TypeOK, AtRest
<1>6. ASSUME ~met PROVE running'
  <2>1. PICK b \in ContextIds, i \in Slots :
           contexts[b].sessions[i] # NULL /\ contexts[b].sessions[i].device = d
    BY <1>4 DEF HasSession
  <2>2. b = c
    BY <1>2, <1>3, <1>6, <2>1, SessionPlace
  <2> QED BY <1>1, <2>1, <2>2
<1>7. /\ ContextIds' = ContextIds /\ Single'
      /\ \A e : e # d => (HasSession(e)' <=> HasSession(e))
      /\ \A b \in ContextIds, j \in Slots : contexts'[b].sessions[j] # NULL =>
            contexts'[b].sessions[j] = contexts[b].sessions[j]
  BY LeavesTakes DEF Waiting
<1> HIDE DEF c, d
<1>8. Stream'
  <2>1. Disconnected(d) \in {Connected(d), Disconnected(d)} /\ Disconnected(d) # Connected(d)
    BY <1>3, Kinds
  <2> QED BY <1>1, <1>3, <1>4, <1>5, <1>7, <2>1, StreamDone DEF Waiting
<1>9. \A b \in ContextIds', j \in Slots :
         contexts'[b].sessions[j] # NULL => contexts'[b].sessions[j].threads = "none"
  BY <1>7 DEF Waiting
<1> QED BY <1>6, <1>7, <1>8, <1>9

(* A client that nobody sent gets a session too.                            *)
LEMMA WaitingClient ==
    ASSUME IInv, Waiting, mode = "BACKUP", ClientEnters
    PROVE  Waiting'
<1> DEFINE c == thread["main"].context
           d == thread["main"].event.device
<1>1. /\ UNCHANGED <<events, role, late, cut>> /\ hasty' = hasty
      /\ thread["main"].at = "lock" /\ thread' = [thread EXCEPT !["main"] = AtRest]
      /\ Free(c) # {} => Enter(c, d, "none") /\ device' = [device EXCEPT ![d] = "waiting"]
  BY DEF ClientEnters, At, IInv, TypeOK
<1>2. /\ thread["main"].event \in Events /\ c \in ContextIds /\ contexts[c].user = User[d]
  BY <1>1, Apart DEF IInv, ThreadsSound
<1>3. d \in Devices /\ device[d] = "coming" /\ ~HasSession(d)
  BY <1>1, <1>2, Kinds DEF Waiting, InHandOfMain, Stream
<1>4. thread'["main"].at = "idle" /\ thread'["conn"] = thread["conn"]
  BY <1>1, Apart DEF IInv, TypeOK, AtRest
<1> HIDE DEF c, d
<1>5. Free(c) # {} /\ Single
  BY <1>2, <1>3, EnterAdds DEF Waiting
<1>6. /\ ContextIds' = ContextIds /\ Single'
      /\ \A e : e # d => (HasSession(e)' <=> HasSession(e))
      /\ \A b \in ContextIds, j \in Slots : contexts'[b].sessions[j] # NULL =>
            \/ contexts'[b].sessions[j] = contexts[b].sessions[j]
            \/ contexts'[b].sessions[j].threads = "none"
  BY <1>1, <1>2, <1>3, <1>5, EnterAdds
<1>7. device'[d] = "waiting" /\ \A e \in Devices : e # d => device'[e] = device[e]
  BY <1>1, <1>3, <1>5 DEF IInv, TypeOK
<1>8. \A f : Handling(f)' <=> Handling(f)
  BY <1>4 DEF Handling
<1>9. Stream'
  BY <1>1, <1>3, <1>6, <1>7, <1>8, StreamKept DEF Waiting
<1>10. \A b \in ContextIds', j \in Slots :
          contexts'[b].sessions[j] # NULL => contexts'[b].sessions[j].threads = "none"
  BY <1>6 DEF Waiting
<1> QED BY <1>1, <1>4, <1>6, <1>7, <1>9, <1>10 DEF Waiting, InHandOfMain

(* The threads look for a context, and insert one that is empty.            *)
LEMMA WaitingLooks ==
    ASSUME IInv, Waiting, NEW t \in Threads, Searches(t) \/ Inserts(t)
    PROVE  Waiting'
<1>1. UNCHANGED <<role, device, late, hasty, cut, events>>
  BY DEF Searches, Inserts, history
<1>2. /\ thread[t].at \in {"search", "insert"}
      /\ thread'[t].at \in {"insert", "lock"}
      /\ thread'[t].event = thread[t].event
      /\ \A s \in Threads : s # t => thread'[s] = thread[s]
  BY GoesOn
<1>3. \A f : Handling(f)' <=> Handling(f)
  BY <1>2, Apart DEF Handling
<1>4. (\A c : HasSession(c)' <=> HasSession(c)) /\ Single'
  BY SessionsSame, SessionsWithNew DEF Waiting, Searches
<1>5. Stream'
  BY <1>1, <1>3, <1>4, StreamKept DEF Waiting
<1>6. \A b \in ContextIds', j \in Slots :
         contexts'[b].sessions[j] # NULL => contexts'[b].sessions[j].threads = "none"
  <2>1. CASE Searches(t)
    <3>1. contexts' = contexts
      BY <2>1 DEF Searches
    <3> QED BY <3>1 DEF ContextIds, Waiting
  <2>2. CASE Inserts(t)
    <3>1. PICK n : /\ ContextIds' = ContextIds \cup {n}
                   /\ \A c \in ContextIds : contexts'[c] = contexts[c]
                   /\ \A i \in Slots : contexts'[n].sessions[i] = NULL
      BY <2>2, InsertAdds
    <3> QED BY <3>1 DEF Waiting
  <2> QED BY <2>1, <2>2
<1>7. InHandOfMain({"coming"})'
  BY <1>1, <1>2, Apart DEF Waiting, InHandOfMain
<1>8. thread'["conn"].at # "out"
  BY <1>2, Apart DEF Waiting
<1> QED BY <1>1, <1>4, <1>5, <1>6, <1>7, <1>8 DEF Waiting

LEMMA WaitingKept ==
    ASSUME IInv, Waiting, [Next]_vars, running, mode = "BACKUP", running', mode' = "BACKUP"
    PROVE  Waiting'
<1>2. /\ device \in [Devices -> DeviceStates] /\ thread \in [Threads -> Task]
  BY DEF IInv, TypeOK
<1>3. ASSUME UNCHANGED <<contexts, role, late, hasty, cut>>, Stream',
             InHandOfMain({"coming"})', thread'["conn"].at # "out",
             \A c \in Devices : device'[c] \in {device[c], "here", "left", "gone", "coming"}
      PROVE  Waiting'
  <2>1. Single'
    BY <1>3, SessionsSame DEF Waiting
  <2>2. ContextIds' = ContextIds
    BY <1>3 DEF ContextIds
  <2>3. \A d \in Devices :
           device'[d] \in {"new", "here", "left", "gone", "coming", "waiting"}
    BY <1>3 DEF Waiting
  <2> QED BY <1>3, <2>1, <2>2, <2>3 DEF Waiting
<1>4. \A f \in Events : f.device \in Devices
  BY Kinds
<1>5. thread["main"].at # "idle" =>
         thread["main"].event.device \in Devices /\ device[thread["main"].event.device] = "coming"
  <2>1. thread["main"].at # "idle" => thread["main"].event \in Events
    <3>1. thread["main"] \in Task
      BY <1>2, Apart
    <3> QED BY <3>1, Apart DEF IInv, ThreadsSound, Task
  <2> QED BY <1>4, <2>1 DEF Waiting, InHandOfMain
<1>6. ASSUME NEW d \in Devices, OldManagerAccepts(d) \/ OldManagerLetsGo(d)
      PROVE  Waiting'
  <2>1. UNCHANGED <<contexts, role, late, hasty, cut, thread>>
    BY <1>6 DEF OldManagerAccepts, OldManagerLetsGo, server, history
  <2>2. \A c \in Devices :
           \/ device'[c] = device[c]
           \/ device[c] \in {"new", "here"} /\ device'[c] \in {"here", "left"}
    BY <1>2, <1>6 DEF OldManagerAccepts, OldManagerLetsGo
  <2>3. Stream'
    BY <1>6, StreamGrows DEF Waiting
  <2>4. InHandOfMain({"coming"})'
    BY <1>5, <2>1, <2>2 DEF InHandOfMain
  <2> QED BY <1>3, <2>1, <2>2, <2>3, <2>4 DEF Waiting
<1>7. CASE (\E d \in Devices : DeviceDies(d)) \/ OldManagerDies \/ UNCHANGED vars
  <2>1. UNCHANGED <<contexts, role, late, hasty, cut, thread, events>>
    BY <1>7 DEF DeviceDies, OldManagerDies, vars, server, history
  <2>2. \A c \in Devices :
           \/ device'[c] = device[c]
           \/ device[c] \in {"here", "waiting"} /\ device'[c] = "gone"
    BY <1>2, <1>7 DEF DeviceDies, OldManagerDies, vars
  <2>3. \A f : Handling(f)' <=> Handling(f)
    BY <2>1 DEF Handling
  <2>4. Stream'
    BY <2>1, <2>2, <2>3, SessionsSame, StreamKept DEF Waiting
  <2>5. InHandOfMain({"coming"})'
    BY <1>5, <2>1, <2>2 DEF InHandOfMain
  <2> QED BY <1>3, <2>1, <2>2, <2>4, <2>5 DEF Waiting
<1>8. CASE ConnReads
  <2>1. UNCHANGED <<contexts, role, device, late, hasty, cut>>
    BY <1>8 DEF ConnReads, server
  <2>2. thread'["main"] = thread["main"] /\ thread'["conn"].at # "out"
    BY <1>2, <1>8, Apart DEF ConnReads, Task
  <2>3. InHandOfMain({"coming"})'
    BY <2>1, <2>2 DEF Waiting, InHandOfMain
  <2>4. Stream'
    BY <1>8, StreamMoves DEF Waiting
  <2> QED BY <1>3, <2>1, <2>2, <2>3, <2>4
<1>9. ASSUME NEW d \in Devices, MainAccepts(d)
      PROVE  Waiting'
  <2>1. /\ UNCHANGED <<contexts, role, late, hasty, cut, events>>
        /\ device' = [device EXCEPT ![d] = IF @ = "new" THEN "coming" ELSE @]
        /\ device[d] \in {"new", "told"}
        /\ thread' = [thread EXCEPT !["main"].at = "search", !["main"].event = Connected(d)]
    BY <1>9 DEF MainAccepts, server
  <2>2. device[d] = "new"
    BY <2>1 DEF Waiting
  <2>3. device'[d] = "coming" /\ \A c \in Devices : c # d => device'[c] = device[c]
    BY <1>2, <2>1, <2>2
  <2>4. thread'["main"].event = Connected(d) /\ thread'["conn"] = thread["conn"]
    BY <1>2, <2>1, Apart DEF Task
  <2>5. \A f : Handling(f)' <=> Handling(f)
    BY <2>4 DEF Handling
  <2>6. Stream'
    BY <2>1, <2>2, <2>3, <2>5, SessionsSame, StreamKept DEF Waiting
  <2>7. InHandOfMain({"coming"})'
    BY <2>3, <2>4, Kinds DEF InHandOfMain
  <2>8. \A c \in Devices : device'[c] \in {device[c], "coming"}
    BY <2>3
  <2> QED BY <1>3, <2>1, <2>4, <2>6, <2>7, <2>8 DEF Waiting
<1>10. ASSUME NEW t \in Threads, Searches(t) \/ Inserts(t)
       PROVE  Waiting'
  BY <1>10, WaitingLooks
<1>11. CASE EventEnters \/ EventLeaves
  <2>1. /\ UNCHANGED <<role, device, hasty, cut>> /\ (late' <=> late)
        /\ thread' = [thread EXCEPT !["conn"] = AtRest]
    BY <1>11 DEF EventEnters, EventLeaves, Waiting
  <2>2. thread'["main"] = thread["main"] /\ thread'["conn"].at # "out"
    BY <1>2, <2>1, Apart DEF AtRest
  <2>3. InHandOfMain({"coming"})'
    BY <2>1, <2>2 DEF Waiting, InHandOfMain
  <2> QED BY <1>11, <2>1, <2>2, <2>3, WaitingEnters, WaitingLeaves DEF Waiting
<1>12. CASE ClientEnters
  BY <1>12, WaitingClient
<1>13. ~Promoted /\ ~Crashes /\ ~RoleStep
  <2>1. ~Promoted
    BY DEF Promoted
  <2>2. ~Crashes
    BY DEF Crashes
  <2>3. ~RoleStep
    <3>1. role.at = "backup"
      BY DEF Waiting
    <3> QED BY <3>1 DEF RoleStep, RoleLeavesLoop, ReplicasReturn, WalkLocksBucket,
                        WalkLocksContext, WalkNotifies, WalkFrees
  <2> QED BY <2>1, <2>2, <2>3
<1> QED BY <1>6, <1>7, <1>8, <1>9, <1>10, <1>11, <1>12, <1>13, Apart
    DEF Next, ConnStep, MainStep

-----------------------------------------------------------------------------
(* The contexts are in the bucket of their user, whatever happens.          *)

InPlace ==
    \A b \in 1 .. Buckets : \A i \in DOMAIN table[b] :
       keyHash[contexts[table[b][i]].user] = b

(* Only an insertion changes the table or the contexts' users.              *)
LEMMA UsersStay ==
    ASSUME IInv, [Next]_vars, \A t \in Threads : ~Inserts(t)
    PROVE  /\ UNCHANGED <<table, keyHash>> /\ ContextIds' = ContextIds
           /\ \A c \in ContextIds : contexts'[c].user = contexts[c].user
<1>1. ASSUME Len(contexts') = Len(contexts) PROVE ContextIds' = ContextIds
  BY <1>1 DEF ContextIds
<1>2. CASE UNCHANGED <<table, keyHash, contexts>>
  BY <1>1, <1>2
<1>3. CASE ClientEnters \/ EventEnters \/ EventLeaves
  <2>1. UNCHANGED <<table, keyHash>>
    BY <1>3 DEF ClientEnters, EventEnters, EventLeaves
  <2>2. \/ contexts' = contexts
        \/ \E t \in Threads : Enter(thread[t].context, thread[t].event.device, "client")
        \/ \E t \in Threads : Enter(thread[t].context, thread[t].event.device, "none")
        \/ \E t \in Threads : Enter(thread[t].context, thread[t].event.device, "astray")
        \/ EventLeaves
    BY <1>3, Apart DEF ClientEnters, EventEnters
  <2>3. \A c \in ContextIds : contexts[c] \in Context
    BY NumbersOfContexts DEF IInv
  <2>4. contexts \in Seq(Context) /\ ContextIds = 1 .. Len(contexts)
    BY DEF IInv, TypeOK, ContextIds
  <2>5. ASSUME NEW c, NEW s, contexts' = [contexts EXCEPT ![c].sessions = s]
        PROVE  /\ Len(contexts') = Len(contexts)
               /\ \A b \in ContextIds : contexts'[b].user = contexts[b].user
    <3> DEFINE ctx == [contexts[c] EXCEPT !.sessions = s]
    <3>1. contexts' = [contexts EXCEPT ![c] = ctx]
      BY <2>5
    <3>2. c \in ContextIds => ctx.user = contexts[c].user
      BY <2>3 DEF Context
    <3> HIDE DEF ctx
    <3>3. DOMAIN contexts' = DOMAIN contexts
      BY <3>1
    <3>4. \A b \in ContextIds : contexts'[b].user = contexts[b].user
      BY <2>4, <3>1, <3>2
    <3>5. Len(contexts') = Len(contexts)
      BY <3>1, <2>4
    <3> QED BY <3>4, <3>5
  <2>6. CASE EventLeaves
    <3>1. \E c, s : contexts' = [contexts EXCEPT ![c].sessions = s]
      BY <2>6 DEF EventLeaves
    <3> QED BY <1>1, <2>1, <2>5, <3>1
  <2>7. ASSUME NEW t \in Threads, NEW k, Enter(thread[t].context, thread[t].event.device, k)
        PROVE  \E c, s : contexts' = [contexts EXCEPT ![c].sessions = s]
    BY <2>7 DEF Enter
  <2> QED BY <1>1, <1>2, <2>1, <2>2, <2>5, <2>6, <2>7
<1>4. CASE WalkFrees
  <2>1. UNCHANGED <<table, keyHash>>
    BY <1>4 DEF WalkFrees
  <2>2. contexts' = [c \in ContextIds |-> IF InBucket(c)
                        THEN [contexts[c] EXCEPT !.sessions = [i \in Slots |-> NULL]]
                        ELSE contexts[c]]
    BY <1>4 DEF WalkFrees, SlotsAfterFree
  <2>3. \A c \in ContextIds : contexts[c] \in Context
    BY NumbersOfContexts DEF IInv
  <2>4. \A c \in ContextIds : contexts'[c].user = contexts[c].user
    BY <2>2, <2>3 DEF Context
  <2>5. ContextIds' = ContextIds
    <3>1. IInv'
      BY FreesKeeps, <1>4
    <3>2. DOMAIN contexts' = 1 .. Len(contexts)
      BY <2>2 DEF ContextIds
    <3>3. contexts' \in Seq(Context') /\ Len(contexts) \in Nat
      BY <3>1, NumbersOfContexts DEF IInv, TypeOK
    <3>4. DOMAIN contexts' = 1 .. Len(contexts')
      BY <3>3
    <3> QED BY <3>2, <3>4 DEF ContextIds
  <2> QED BY <2>1, <2>4, <2>5
<1>5. ASSUME NEW d \in Devices, OldManagerAccepts(d) \/ OldManagerLetsGo(d) \/ DeviceDies(d)
      PROVE  UNCHANGED <<table, keyHash, contexts>>
  BY <1>5 DEF OldManagerAccepts, OldManagerLetsGo, DeviceDies, server
<1>6. ASSUME OldManagerDies \/ Promoted \/ Crashes \/ ConnReads
      PROVE  UNCHANGED <<table, keyHash, contexts>>
  BY <1>6 DEF OldManagerDies, Promoted, Crashes, ConnReads, server
<1>7. ASSUME NEW d \in Devices, MainAccepts(d)
      PROVE  UNCHANGED <<table, keyHash, contexts>>
  BY <1>7 DEF MainAccepts, server
<1>8. ASSUME NEW t \in Threads, Searches(t)
      PROVE  UNCHANGED <<table, keyHash, contexts>>
  BY <1>8 DEF Searches
<1>9. ASSUME RoleLeavesLoop \/ ReplicasReturn \/ WalkLocksBucket \/ WalkLocksContext \/ WalkNotifies
      PROVE  UNCHANGED <<table, keyHash, contexts>>
  BY <1>9 DEF RoleLeavesLoop, ReplicasReturn, WalkLocksBucket, WalkLocksContext, WalkNotifies, server
<1>10. CASE UNCHANGED vars
  BY <1>2, <1>10 DEF vars, server
<1> QED BY <1>2, <1>3, <1>4, <1>5, <1>6, <1>7, <1>8, <1>9, <1>10, Apart
    DEF Next, ConnStep, MainStep, RoleStep

LEMMA PlacesKept ==
    ASSUME IInv, InPlace, [Next]_vars
    PROVE  InPlace'
<1>1. /\ table \in [1 .. Buckets -> Seq(ContextIds)]
      /\ \A b \in 1 .. Buckets : /\ table[b] \in Seq(ContextIds)
                                 /\ DOMAIN table[b] = 1 .. Len(table[b]) /\ Len(table[b]) \in Nat
                                 /\ \A i \in DOMAIN table[b] : table[b][i] \in ContextIds
  <2>1. table \in [1 .. Buckets -> Seq(ContextIds)]
    BY DEF IInv, TypeOK
  <2>2. ASSUME NEW b \in 1 .. Buckets
        PROVE  /\ table[b] \in Seq(ContextIds)
               /\ DOMAIN table[b] = 1 .. Len(table[b]) /\ Len(table[b]) \in Nat
               /\ \A i \in DOMAIN table[b] : table[b][i] \in ContextIds
    <3>1. table[b] \in Seq(ContextIds)
      BY <2>1
    <3> QED BY <3>1
  <2> QED BY <2>1, <2>2
<1>2. CASE \A t \in Threads : ~Inserts(t)
  BY <1>1, <1>2, UsersStay DEF InPlace
<1>3. ASSUME NEW t \in Threads, Inserts(t)
      PROVE  InPlace'
  <2> DEFINE u == User[thread[t].event.device]
             n == Len(contexts')
  <2>1. /\ keyHash' = keyHash
        /\ table' = [table EXCEPT ![keyHash[u]] = <<n>> \o @]
        /\ contexts' = Append(contexts, [user |-> u, sessions |-> [i \in Slots |-> NULL]])
    BY <1>3 DEF Inserts, LinkedList_push, Bucket
  <2>2. /\ ContextIds' = ContextIds \cup {n} /\ n \notin ContextIds
        /\ \A c \in ContextIds : contexts'[c] = contexts[c]
        /\ contexts'[n].user = u
    BY <1>3, InsertAdds
  <2> HIDE DEF n
  <2>6. ASSUME NEW b \in 1 .. Buckets, NEW i \in DOMAIN table'[b]
        PROVE  keyHash[contexts'[table'[b][i]].user] = b
    <3>1. CASE b # keyHash[u]
      <4>1. table'[b] = table[b]
        BY <1>1, <2>1, <3>1
      <4> QED BY <1>1, <2>2, <2>6, <4>1 DEF InPlace
    <3>2. CASE b = keyHash[u]
      <4>1. table'[b] = <<n>> \o table[b]
        BY <1>1, <2>1, <3>2
      <4>2. <<n>> \in Seq(ContextIds') /\ table[b] \in Seq(ContextIds')
        BY <1>1, <2>2, SeqMonotonic
      <4>3. /\ Len(<<n>> \o table[b]) = Len(table[b]) + 1
            /\ <<n>> \o table[b] \in Seq(ContextIds')
            /\ (<<n>> \o table[b])[1] = n
            /\ \A j \in 1 .. Len(table[b]) : (<<n>> \o table[b])[j + 1] = table[b][j]
        BY <4>2, ConcatProperties
      <4>4. DOMAIN table'[b] = 1 .. Len(table[b]) + 1
        BY <4>1, <4>3
      <4>5. CASE i = 1
        BY <2>2, <3>2, <4>1, <4>3, <4>5
      <4>6. CASE i # 1
        <5>1. i - 1 \in 1 .. Len(table[b]) /\ (i - 1) + 1 = i
          BY <1>1, <4>4, <4>6
        <5>2. table'[b][i] = table[b][i - 1]
          BY <4>1, <4>3, <5>1
        <5> QED BY <1>1, <2>2, <5>1, <5>2 DEF InPlace
      <4> QED BY <4>5, <4>6
    <3> QED BY <3>1, <3>2
  <2> QED BY <2>1, <2>6 DEF InPlace
<1> QED BY <1>2, <1>3

-----------------------------------------------------------------------------
(* The steps of a manager that serves nobody before the walks are over.     *)

LEMMA PatientKeep ==
    ASSUME IInv, Patient, UNCHANGED <<contexts, role, keyHash>>,
           \A f : Handling(f)' => Handling(f),
           InHandOfMain({"told", "coming"})',
           \A d \in Devices :
              \/ device'[d] = device[d]
              \/ device[d] = "new" /\ device'[d] \in {"here", "coming"}
              \/ device[d] \in {"here", "waiting"} /\ device'[d] \in {"left", "gone"}
    PROVE  Patient'
<1>1. ContextIds' = ContextIds /\ Single' /\ \A d : HasSession(d)' <=> HasSession(d)
  BY SessionsSame DEF Patient, ContextIds
<1>2. \A d \in Devices : device'[d] \in {"new", "coming"} => ~HasSession(d)'
  BY <1>1 DEF Patient
<1>3. \A d \in Devices : Handling(Connected(d))' =>
         ~HasSession(d)' /\ device'[d] \in {"here", "left", "gone"}
  BY <1>1 DEF Patient
<1>4. ASSUME NEW c \in ContextIds', NEW i \in Slots, contexts'[c].sessions[i] # NULL,
             role'.at = "manager" \/ (role'.at = "free" /\ keyHash'[contexts'[c].user] < role'.bucket)
      PROVE  device'[contexts'[c].sessions[i].device] \in {"served", "here", "left", "gone"}
  <2> DEFINE d == contexts[c].sessions[i].device
  <2>1. d \in Devices /\ device[d] \in {"served", "here", "left", "gone"}
    BY <1>1, <1>4 DEF IInv, OwnSessions, Patient
  <2> QED BY <1>4, <2>1
<1>5. role'.at # "manager" =>
         \A c \in ContextIds', i \in Slots :
            contexts'[c].sessions[i] # NULL => contexts'[c].sessions[i].threads # "client"
  BY <1>1 DEF Patient
<1> QED BY <1>1, <1>2, <1>3, <1>4, <1>5 DEF Patient

(* The client in the hand of the main thread stays what it is.              *)
LEMMA MainHolds ==
    ASSUME IInv, NEW S, InHandOfMain(S), thread'["main"] = thread["main"],
           \A d \in Devices : device'[d] = device[d] \/ device[d] \notin S
    PROVE  InHandOfMain(S)'
<1>1. thread["main"].at # "idle" => thread["main"].event.device \in Devices
  <2>1. thread["main"] \in Task
    BY Apart DEF IInv, TypeOK
  <2>2. thread["main"].at # "idle" => thread["main"].event \in Events
    BY <2>1, Apart DEF IInv, ThreadsSound, Task
  <2> QED BY <2>2, Kinds
<1> QED BY <1>1 DEF InHandOfMain

(* At its promotion the sessions of a backup have no threads.               *)
LEMMA PatientPromoted ==
    ASSUME IInv, Waiting, Promoted
    PROVE  Patient' /\ Calm'
<1>1. UNCHANGED <<keyHash, contexts, device, events, role, thread, history>>
  BY DEF Promoted
<1>2. Calm'
  BY <1>1 DEF Waiting, Calm, history
<1>3. /\ \A d \in Devices : Handling(Connected(d)) => ~HasSession(d)
      /\ \A d \in Devices : Handling(Connected(d)) => device[d] \notin {"new", "coming", "waiting"}
      /\ \A d \in Devices : device[d] \in {"new", "coming"} => ~HasSession(d)
  BY DEF Waiting, Stream
<1>4. InHandOfMain({"told", "coming"})
  BY DEF Waiting, InHandOfMain
<1>5. \A d \in Devices : Handling(Connected(d)) => device[d] \in {"here", "left", "gone"}
  BY <1>3 DEF Waiting
<1>6. Patient
  BY <1>3, <1>4, <1>5 DEF Waiting, Patient
<1>7. InHandOfMain({"told", "coming"})' /\ \A f : Handling(f)' => Handling(f)
  BY <1>1, <1>4 DEF InHandOfMain, Handling
<1> QED BY <1>1, <1>2, <1>6, <1>7, PatientKeep

(* The walk that tells the clients reaches those that have sessions.        *)
LEMMA PatientWalks ==
    ASSUME IInv, Patient,
           RoleLeavesLoop \/ ReplicasReturn \/ WalkLocksBucket \/ WalkLocksContext \/ WalkNotifies
    PROVE  Patient'
<1>1. UNCHANGED <<server, events, thread, history>> /\ contexts' = contexts /\ keyHash' = keyHash
  BY DEF RoleLeavesLoop, ReplicasReturn, WalkLocksBucket, WalkLocksContext, WalkNotifies, server
<1>2. /\ role.at \in {"backup", "awaiting", "bucket", "context", "slot"}
      /\ role'.at # "manager" /\ (role'.at = "free" => role'.bucket = 1)
  <2>1. role \in Walk
    BY DEF IInv, TypeOK
  <2>2. CASE RoleLeavesLoop \/ ReplicasReturn \/ WalkLocksContext
    BY <2>1, <2>2 DEF RoleLeavesLoop, ReplicasReturn, WalkLocksContext, Walk
  <2>3. NextBucket("bucket", "free").at # "manager"
        /\ (NextBucket("bucket", "free").at = "free" => NextBucket("bucket", "free").bucket = 1)
    BY <2>1 DEF NextBucket, Walk
  <2>4. CASE WalkLocksBucket
    BY <2>1, <2>3, <2>4 DEF WalkLocksBucket, Walk
  <2>5. AfterContext.at # "manager" /\ (AfterContext.at = "free" => AfterContext.bucket = 1)
    BY <2>1, <2>3 DEF AfterContext, Walk
  <2>6. CASE WalkNotifies
    <3>1. role.at = "slot" /\ \E reached : role' = AfterSlot(reached)
      BY <2>6 DEF WalkNotifies
    <3> QED BY <2>1, <2>5, <3>1 DEF AfterSlot, Walk
  <2> QED BY <2>2, <2>4, <2>6
<1>3. \A d \in Devices : device'[d] = device[d] \/ (HasSession(d) /\ device'[d] = "told")
  <2>1. CASE device' = device
    BY <2>1
  <2>2. CASE WalkNotifies
    <3> DEFINE c == table[role.bucket][role.node]
               session == contexts[c].sessions[role.slot]
    <3>1. c \in ContextIds /\ role.slot \in Slots
      <4>1. role.at = "slot" /\ role.node \in DOMAIN table[role.bucket]
        BY <2>2 DEF IInv, WalkSound, WalkNotifies, Walking
      <4>2. role.slot \in Slots /\ table[role.bucket] \in Seq(ContextIds)
        BY DEF IInv, TypeOK, Walk
      <4> QED BY <4>1, <4>2
    <3>2. \/ device' = device
          \/ session # NULL /\ device' = [device EXCEPT ![session.device] = "told"]
      BY <2>2 DEF WalkNotifies
    <3>3. session # NULL => HasSession(session.device)
      BY <3>1 DEF HasSession
    <3>4. device \in [Devices -> DeviceStates]
      BY DEF IInv, TypeOK
    <3> QED BY <3>2, <3>3, <3>4
  <2> QED BY <2>1, <2>2 DEF RoleLeavesLoop, ReplicasReturn, WalkLocksBucket, WalkLocksContext
<1>4. ContextIds' = ContextIds /\ Single' /\ \A d : HasSession(d)' <=> HasSession(d)
  BY <1>1, SessionsSame DEF Patient, ContextIds
<1>5. /\ \A d \in Devices : device'[d] \in {"new", "coming"} => ~HasSession(d)'
      /\ \A d \in Devices : Handling(Connected(d))' =>
            ~HasSession(d)' /\ device'[d] \in {"here", "left", "gone"}
  BY <1>1, <1>3, <1>4 DEF Patient, Handling
<1>6. InHandOfMain({"told", "coming"})'
  <2>1. thread["main"].at # "idle" => thread["main"].event.device \in Devices
    <3>1. thread["main"] \in Task
      BY Apart DEF IInv, TypeOK
    <3>2. thread["main"].at # "idle" => thread["main"].event \in Events
      BY <3>1, Apart DEF IInv, ThreadsSound, Task
    <3> QED BY <3>2, Kinds
  <2> QED BY <1>1, <1>3, <2>1 DEF Patient, InHandOfMain
<1>7. \A c \in ContextIds : keyHash[contexts[c].user] \in 1 .. Buckets
  BY NumbersOfContexts DEF IInv, TypeOK, Context
<1>8. ~(role'.at = "manager")
      /\ \A c \in ContextIds : ~(role'.at = "free" /\ keyHash[contexts[c].user] < role'.bucket)
  BY <1>2, <1>7
<1>9. \A c \in ContextIds, i \in Slots :
         contexts[c].sessions[i] # NULL => contexts[c].sessions[i].threads # "client"
  BY <1>2 DEF Patient
<1> QED BY <1>1, <1>4, <1>5, <1>6, <1>8, <1>9 DEF Patient

(* The walk that frees the sessions finds none that a client uses.          *)
LEMMA PatientFrees ==
    ASSUME IInv, Patient, WalkFrees
    PROVE  Patient' /\ cut' = cut
<1>1. /\ UNCHANGED <<keyHash, table, device, thread>> /\ role.at = "free"
      /\ role' = NextBucket("free", "manager")
      /\ contexts' = [c \in ContextIds |-> IF InBucket(c)
                         THEN [contexts[c] EXCEPT !.sessions = [i \in Slots |-> NULL]]
                         ELSE contexts[c]]
  BY DEF WalkFrees, SlotsAfterFree
<1>2. cut' = cut
  <2>1. \A c \in ContextIds, i \in Slots : contexts[c].sessions[i] # NULL =>
           contexts[c].sessions[i].threads # "client"
    BY <1>1 DEF Patient
  <2>2. \A d \in Devices : [device |-> d, threads |-> "client"] # NULL
    BY NullAssumption DEF Sessions
  <2>3. \A d \in Devices, c \in ContextIds, i \in Slots :
           contexts[c].sessions[i] # [device |-> d, threads |-> "client"]
    BY <2>1, <2>2
  <2> QED BY <2>3 DEF WalkFrees
<1>3. \A c \in ContextIds : contexts[c] \in Context
  BY NumbersOfContexts DEF IInv
<1>4. \A c \in ContextIds :
         /\ contexts'[c].user = contexts[c].user
         /\ InBucket(c) => \A i \in Slots : contexts'[c].sessions[i] = NULL
         /\ \A i \in Slots : contexts'[c].sessions[i] # NULL =>
               contexts'[c].sessions[i] = contexts[c].sessions[i]
  BY <1>1, <1>3 DEF Context
<1>5. ContextIds' = ContextIds
  <2>1. IInv'
    BY FreesKeeps
  <2>2. DOMAIN contexts' = 1 .. Len(contexts)
    BY <1>1 DEF ContextIds
  <2>3. contexts' \in Seq(Context') /\ Len(contexts) \in Nat
    BY <2>1, NumbersOfContexts DEF IInv, TypeOK
  <2> QED BY <2>2, <2>3 DEF ContextIds
<1>6. Single' /\ \A d : HasSession(d)' => HasSession(d)
  BY <1>4, <1>5 DEF Patient, Single, HasSession
<1>7. ASSUME NEW c \in ContextIds, NEW i \in Slots, contexts'[c].sessions[i] # NULL,
             role'.at = "manager" \/ (role'.at = "free" /\ keyHash[contexts[c].user] < role'.bucket)
      PROVE  keyHash[contexts[c].user] < role.bucket
  <2>1. role \in Walk /\ role.bucket \in 1 .. Buckets /\ keyHash[contexts[c].user] \in 1 .. Buckets
    BY <1>3 DEF IInv, TypeOK, Walk, Context
  <2>2. keyHash[contexts[c].user] # role.bucket
    BY <1>4, <1>7 DEF IInv, Stored, InBucket
  <2>3. CASE role.bucket = Buckets
    BY <2>1, <2>2, <2>3, SizesAssumption
  <2>4. CASE role.bucket # Buckets
    <3>1. role'.at = "free" /\ role'.bucket = role.bucket + 1
      BY <1>1, <2>1, <2>4 DEF NextBucket, Walk
    <3> QED BY <1>7, <2>1, <2>2, <3>1
  <2> QED BY <2>3, <2>4
<1>8. \A c \in ContextIds', i \in Slots :
         /\ contexts'[c].sessions[i] # NULL
         /\ role'.at = "manager" \/ (role'.at = "free" /\ keyHash'[contexts'[c].user] < role'.bucket)
         => device'[contexts'[c].sessions[i].device] \in {"served", "here", "left", "gone"}
  BY <1>1, <1>4, <1>5, <1>7 DEF Patient
<1>9. \A c \in ContextIds', i \in Slots :
         contexts'[c].sessions[i] # NULL => contexts'[c].sessions[i].threads # "client"
  BY <1>1, <1>4, <1>5 DEF Patient
<1>10. /\ \A d \in Devices : device'[d] \in {"new", "coming"} => ~HasSession(d)'
       /\ \A d \in Devices : Handling(Connected(d))' =>
             ~HasSession(d)' /\ device'[d] \in {"here", "left", "gone"}
       /\ InHandOfMain({"told", "coming"})'
  BY <1>1, <1>6 DEF Patient, Handling, InHandOfMain
<1> QED BY <1>2, <1>6, <1>8, <1>9, <1>10 DEF Patient

LEMMA PatientLooks ==
    ASSUME IInv, Patient, NEW t \in Threads, Searches(t) \/ Inserts(t)
    PROVE  Patient'
<1>1. UNCHANGED <<role, device, keyHash>>
  BY DEF Searches, Inserts
<1>2. /\ thread[t].at \in {"search", "insert"}
      /\ thread'[t].at \in {"insert", "lock"}
      /\ thread'[t].event = thread[t].event
      /\ \A s \in Threads : s # t => thread'[s] = thread[s]
  BY GoesOn
<1>3. \A f : Handling(f)' => Handling(f)
  BY <1>2, Apart DEF Handling
<1>4. InHandOfMain({"told", "coming"})'
  BY <1>1, <1>2, Apart DEF Patient, InHandOfMain
<1>5. CASE Searches(t)
  <2>1. contexts' = contexts
    BY <1>5 DEF Searches
  <2> QED BY <1>1, <1>3, <1>4, <2>1, PatientKeep
<1>6. CASE Inserts(t)
  <2>1. (\A d : HasSession(d)' <=> HasSession(d)) /\ Single'
    BY <1>6, SessionsWithNew DEF Patient
  <2>2. PICK n : /\ ContextIds' = ContextIds \cup {n}
                 /\ \A c \in ContextIds : contexts'[c] = contexts[c]
                 /\ \A i \in Slots : contexts'[n].sessions[i] = NULL
    BY <1>6, InsertAdds
  <2>3. \A c \in ContextIds', i \in Slots : contexts'[c].sessions[i] # NULL =>
           c \in ContextIds /\ contexts'[c] = contexts[c]
    BY <2>2
  <2>4. /\ \A d \in Devices : device'[d] \in {"new", "coming"} => ~HasSession(d)'
        /\ \A d \in Devices : Handling(Connected(d))' =>
              ~HasSession(d)' /\ device'[d] \in {"here", "left", "gone"}
    BY <1>1, <1>3, <2>1 DEF Patient
  <2>5. \A c \in ContextIds', i \in Slots :
           /\ contexts'[c].sessions[i] # NULL
           /\ role'.at = "manager" \/ (role'.at = "free" /\ keyHash'[contexts'[c].user] < role'.bucket)
           => device'[contexts'[c].sessions[i].device] \in {"served", "here", "left", "gone"}
    BY <1>1, <2>3 DEF Patient
  <2>6. role'.at # "manager" =>
           \A c \in ContextIds', i \in Slots :
              contexts'[c].sessions[i] # NULL => contexts'[c].sessions[i].threads # "client"
    BY <1>1, <2>3 DEF Patient
  <2> QED BY <1>4, <2>1, <2>4, <2>5, <2>6 DEF Patient
<1> QED BY <1>5, <1>6

(* A client that is served when the walks are over finds its slot.          *)
LEMMA PatientClient ==
    ASSUME IInv, Patient, Calm, mode # "BACKUP", ClientEnters, ~hasty'
    PROVE  Patient' /\ Calm'
<1>0. PICK c, d : c = thread["main"].context /\ d = thread["main"].event.device
  OBVIOUS
<1>1. /\ UNCHANGED <<keyHash, role, cut>> /\ role.at = "manager"
      /\ thread["main"].at = "lock" /\ thread' = [thread EXCEPT !["main"] = AtRest]
  BY DEF ClientEnters, At
<1>2. /\ thread["main"].event \in Events /\ c \in ContextIds /\ contexts[c].user = User[d]
  BY <1>0, <1>1, Apart DEF IInv, ThreadsSound
<1>3. d \in Devices /\ device[d] \in {"told", "coming"}
  BY <1>0, <1>1, <1>2, Kinds DEF Patient, InHandOfMain
<1>4. ~HasSession(d)
  <2> SUFFICES ASSUME NEW b \in ContextIds, NEW i \in Slots,
                      contexts[b].sessions[i] # NULL, contexts[b].sessions[i].device = d
               PROVE  FALSE
    BY DEF HasSession
  <2> QED BY <1>1, <1>3 DEF Patient
<1>5. Single
  BY DEF Patient
<1>6. Free(c) # {}
  BY <1>2, <1>3, <1>4, <1>5, EnterAdds
<1>7. Enter(c, d, "client") /\ device' = [device EXCEPT ![d] = "served"]
  BY <1>0, <1>6 DEF ClientEnters
<1>8. "client" \in {"none", "client", "astray"}
  OBVIOUS
<1>9. /\ ContextIds' = ContextIds /\ Single'
      /\ \A e : e # d => (HasSession(e)' <=> HasSession(e))
      /\ \A b \in ContextIds, j \in Slots : contexts'[b].sessions[j] # NULL =>
            \/ contexts'[b].sessions[j] = contexts[b].sessions[j]
            \/ contexts'[b].sessions[j].device = d
  BY <1>2, <1>3, <1>4, <1>5, <1>7, <1>8, EnterAdds
<1>10. device'[d] = "served" /\ \A e \in Devices : e # d => device'[e] = device[e]
  BY <1>3, <1>7 DEF IInv, TypeOK
<1>11. thread'["main"].at = "idle" /\ thread'["conn"] = thread["conn"]
  BY <1>1, Apart DEF IInv, TypeOK, AtRest
<1>12. \A f : Handling(f)' <=> Handling(f)
  BY <1>11 DEF Handling
<1>13. /\ \A e \in Devices : device'[e] \in {"new", "coming"} => ~HasSession(e)'
       /\ \A e \in Devices : Handling(Connected(e))' =>
             ~HasSession(e)' /\ device'[e] \in {"here", "left", "gone"}
  <2>1. ~Handling(Connected(d))
    BY <1>3 DEF Patient
  <2> QED BY <1>9, <1>10, <1>12, <2>1 DEF Patient
<1>14. \A b \in ContextIds', i \in Slots :
          contexts'[b].sessions[i] # NULL =>
             device'[contexts'[b].sessions[i].device] \in {"served", "here", "left", "gone"}
  <2> SUFFICES ASSUME NEW b \in ContextIds, NEW i \in Slots, contexts'[b].sessions[i] # NULL,
                      contexts'[b].sessions[i] = contexts[b].sessions[i],
                      contexts[b].sessions[i].device # d
               PROVE  device'[contexts[b].sessions[i].device] \in {"served", "here", "left", "gone"}
    BY <1>9, <1>10
  <2>1. contexts[b].sessions[i].device \in Devices
    BY DEF IInv, OwnSessions
  <2> QED BY <1>1, <1>10, <2>1 DEF Patient
<1>15. InHandOfMain({"told", "coming"})'
  BY <1>11 DEF InHandOfMain
<1>16. Calm'
  BY <1>1, <1>10 DEF Calm
<1> QED BY <1>1, <1>9, <1>13, <1>14, <1>15, <1>16 DEF Patient

(* An event that is handled late.                                           *)
LEMMA PatientEvent ==
    ASSUME IInv, Patient, EventEnters \/ EventLeaves
    PROVE  Patient'
<1>0. PICK c, d : c = thread["conn"].context /\ d = thread["conn"].event.device
  OBVIOUS
<1>1. /\ UNCHANGED <<keyHash, role, device>>
      /\ thread["conn"].at = "lock" /\ thread' = [thread EXCEPT !["conn"] = AtRest]
  BY DEF EventEnters, EventLeaves, At
<1>2. /\ thread["conn"].event \in Events /\ c \in ContextIds /\ contexts[c].user = User[d]
  BY <1>0, <1>1, Apart DEF IInv, ThreadsSound
<1>3. d \in Devices
  BY <1>0, <1>2, Kinds
<1>4. thread'["conn"].at = "idle" /\ thread'["main"] = thread["main"]
  BY <1>1, Apart DEF IInv, TypeOK, AtRest
<1>5. (\A f : ~Handling(f)') /\ InHandOfMain({"told", "coming"})'
  BY <1>1, <1>4 DEF Patient, Handling, InHandOfMain
<1>6. ContextIds' = ContextIds /\ Single'
      /\ (\A b \in ContextIds : contexts'[b].user = contexts[b].user)
      /\ (\A e \in Devices : HasSession(e)' =>
             HasSession(e) \/ device[e] \in {"here", "left", "gone"})
      /\ \A b \in ContextIds, j \in Slots : contexts'[b].sessions[j] # NULL =>
            \/ contexts'[b].sessions[j] = contexts[b].sessions[j]
            \/ /\ device[contexts'[b].sessions[j].device] \in {"here", "left", "gone"}
               /\ contexts'[b].sessions[j].threads # "client"
  <2>1. CASE EventLeaves
    BY <2>1, LeavesTakes DEF Patient
  <2>2. CASE EventEnters
    <3>1. thread["conn"].event = Connected(d)
      BY <1>0, <1>2, <2>2, Kinds DEF EventEnters
    <3>2. Handling(Connected(d))
      BY <1>1, <3>1 DEF Handling
    <3>3. ~HasSession(d) /\ device[d] \in {"here", "left", "gone"} /\ Single
      BY <1>3, <3>2 DEF Patient
    <3>4. Free(c) # {}
      BY <1>2, <1>3, <3>3, EnterAdds
    <3>5. PICK k \in {"none", "astray"} : Enter(c, d, k)
      <4>1. Enter(c, d, "none") \/ Enter(c, d, "astray")
        BY <1>0, <2>2, <3>4 DEF EventEnters
      <4> QED BY <4>1
    <3>6. k \in {"none", "client", "astray"} /\ k # "client"
      OBVIOUS
    <3>7. /\ ContextIds' = ContextIds /\ Single'
          /\ \A b \in ContextIds : contexts'[b].user = contexts[b].user
          /\ \A e : e # d => (HasSession(e)' <=> HasSession(e))
          /\ \A b \in ContextIds, j \in Slots : contexts'[b].sessions[j] # NULL =>
                \/ contexts'[b].sessions[j] = contexts[b].sessions[j]
                \/ /\ contexts'[b].sessions[j].device = d
                   /\ contexts'[b].sessions[j].threads = k
      BY <1>2, <1>3, <3>3, <3>5, <3>6, EnterAdds
    <3> QED BY <3>3, <3>6, <3>7
  <2> QED BY <2>1, <2>2
<1>7. \A e \in Devices : device'[e] \in {"new", "coming"} => ~HasSession(e)'
  BY <1>1, <1>6 DEF Patient
<1>8. role'.at # "manager" =>
         \A b \in ContextIds', i \in Slots :
            contexts'[b].sessions[i] # NULL => contexts'[b].sessions[i].threads # "client"
  BY <1>1, <1>6 DEF Patient
<1>9. \A b \in ContextIds', i \in Slots :
         /\ contexts'[b].sessions[i] # NULL
         /\ role'.at = "manager" \/ (role'.at = "free" /\ keyHash'[contexts'[b].user] < role'.bucket)
         => device'[contexts'[b].sessions[i].device] \in {"served", "here", "left", "gone"}
  BY <1>1, <1>6 DEF Patient
<1> QED BY <1>5, <1>6, <1>7, <1>8, <1>9 DEF Patient

LEMMA PatientKept ==
    ASSUME IInv, Patient, Calm, [Next]_vars, mode # "BACKUP", ~hasty', running'
    PROVE  Patient' /\ Calm'
<1>1. device \in [Devices -> DeviceStates] /\ thread \in [Threads -> Task]
  BY DEF IInv, TypeOK
<1>2. ASSUME NEW d \in Devices, OldManagerAccepts(d) \/ OldManagerLetsGo(d) \/ DeviceDies(d)
      PROVE  Patient' /\ Calm'
  <2>1. UNCHANGED <<contexts, role, keyHash, thread, cut>>
    BY <1>2 DEF OldManagerAccepts, OldManagerLetsGo, DeviceDies, server, history
  <2>2. \A c \in Devices :
           \/ device'[c] = device[c]
           \/ device[c] = "new" /\ device'[c] \in {"here", "coming"}
           \/ device[c] \in {"here", "waiting"} /\ device'[c] \in {"left", "gone"}
    BY <1>1, <1>2 DEF OldManagerAccepts, OldManagerLetsGo, DeviceDies
  <2>3. InHandOfMain({"told", "coming"})'
    BY <2>1, <2>2, MainHolds DEF Patient
  <2>4. \A f : Handling(f)' => Handling(f)
    BY <2>1 DEF Handling
  <2>5. Calm'
    BY <2>1, <2>2 DEF Calm
  <2> QED BY <2>1, <2>2, <2>3, <2>4, <2>5, PatientKeep
<1>3. CASE OldManagerDies \/ UNCHANGED vars
  <2>1. UNCHANGED <<contexts, role, keyHash, thread, cut, device>>
    BY <1>3 DEF OldManagerDies, vars, server, history
  <2>2. InHandOfMain({"told", "coming"})' /\ \A f : Handling(f)' => Handling(f)
    BY <2>1 DEF Patient, InHandOfMain, Handling
  <2> QED BY <2>1, <2>2, PatientKeep DEF Calm
<1>4. CASE ConnReads
  <2>1. UNCHANGED <<contexts, role, keyHash, device, cut>>
        /\ thread' = [thread EXCEPT !["conn"].at = "out"]
    BY <1>4 DEF ConnReads, server
  <2>2. thread'["main"] = thread["main"] /\ thread'["conn"].at = "out"
    BY <1>1, <2>1, Apart DEF Task
  <2>3. InHandOfMain({"told", "coming"})' /\ \A f : Handling(f)' => Handling(f)
    BY <2>1, <2>2 DEF Patient, InHandOfMain, Handling
  <2> QED BY <2>1, <2>3, PatientKeep DEF Calm
<1>5. ASSUME NEW d \in Devices, MainAccepts(d)
      PROVE  Patient' /\ Calm'
  <2>1. /\ UNCHANGED <<contexts, role, keyHash, cut>> /\ device[d] \in {"new", "told"}
        /\ device' = [device EXCEPT ![d] = IF @ = "new" THEN "coming" ELSE @]
        /\ thread' = [thread EXCEPT !["main"].at = "search", !["main"].event = Connected(d)]
    BY <1>5 DEF MainAccepts, server
  <2>2. device'[d] \in {"told", "coming"} /\ \A c \in Devices :
           device'[c] = device[c] \/ (device[c] = "new" /\ device'[c] = "coming")
    BY <1>1, <2>1
  <2>3. thread'["main"].event = Connected(d) /\ thread'["conn"] = thread["conn"]
    BY <1>1, <2>1, Apart DEF Task
  <2>4. InHandOfMain({"told", "coming"})' /\ \A f : Handling(f)' => Handling(f)
    BY <2>2, <2>3, Kinds DEF InHandOfMain, Handling
  <2> QED BY <2>1, <2>2, <2>4, PatientKeep DEF Calm
<1>6. ASSUME NEW t \in Threads, Searches(t) \/ Inserts(t)
      PROVE  Patient' /\ Calm'
  <2>1. UNCHANGED <<cut, device>>
    BY <1>6 DEF Searches, Inserts, history
  <2> QED BY <1>6, <2>1, PatientLooks DEF Calm
<1>7. CASE EventEnters \/ EventLeaves
  <2>1. UNCHANGED <<cut, device>>
    BY <1>7 DEF EventEnters, EventLeaves
  <2> QED BY <1>7, <2>1, PatientEvent DEF Calm
<1>8. CASE ClientEnters
  BY <1>8, PatientClient
<1>9. CASE RoleLeavesLoop \/ ReplicasReturn \/ WalkLocksBucket \/ WalkLocksContext \/ WalkNotifies
  <2>1. cut' = cut /\ \A d \in Devices : device'[d] = device[d] \/ device'[d] = "told"
    BY <1>1, <1>9 DEF RoleLeavesLoop, ReplicasReturn, WalkLocksBucket, WalkLocksContext,
                      WalkNotifies, history
  <2> QED BY <1>9, <2>1, PatientWalks DEF Calm
<1>10. CASE WalkFrees
  <2>1. device' = device
    BY <1>10 DEF WalkFrees
  <2> QED BY <1>10, <2>1, PatientFrees DEF Calm
<1>11. ~Promoted /\ ~Crashes
  BY DEF Promoted, Crashes
<1> QED BY <1>2, <1>3, <1>4, <1>5, <1>6, <1>7, <1>8, <1>9, <1>10, <1>11, Apart
    DEF Next, ConnStep, MainStep, RoleStep

-----------------------------------------------------------------------------
(* What a step leaves behind, whoever takes it.                             *)
LEMMA GoodStep == GoodInv /\ [Next]_vars => GoodInv'
<1> SUFFICES ASSUME GoodInv, [Next]_vars PROVE GoodInv'
  OBVIOUS
<1>1. IInv /\ IInv'
  BY StepIInv DEF GoodInv
<1>2. CASE UNCHANGED vars
  <2>1. UNCHANGED <<server, alive, device, events, role, thread, history>>
    BY <1>2 DEF vars
  <2>2. (Waiting' <=> Waiting) /\ (Patient' <=> Patient) /\ (Calm' <=> Calm)
    BY <2>1 DEF server, history, Waiting, Patient, Calm, Single, Stream, HasSession, Handling,
                Coming, InHandOfMain, ContextIds
  <2> QED BY <1>1, <2>1, <2>2 DEF GoodInv, server, history
<1>3. CASE Next
  <2>1. running /\ mode' \in {mode, "BACKUP_MANAGER"} /\ mode' \in {"BACKUP", "BACKUP_MANAGER"}
    <3>1. running
      BY <1>3 DEF Next, OldManagerAccepts, OldManagerLetsGo, DeviceDies, OldManagerDies, Promoted,
                  ConnStep, MainStep, RoleStep, Crashes, ConnReads,
                  Searches, Inserts, EventEnters, EventLeaves, MainAccepts, ClientEnters,
                  RoleLeavesLoop, ReplicasReturn, WalkLocksBucket, WalkLocksContext,
                  WalkNotifies, WalkFrees, At
    <3>2. mode' = mode \/ mode' = "BACKUP_MANAGER"
      BY <1>3 DEF Next, OldManagerAccepts, OldManagerLetsGo, DeviceDies, OldManagerDies, Promoted,
                  ConnStep, MainStep, RoleStep, Crashes, ConnReads,
                  Searches, Inserts, EventEnters, EventLeaves, MainAccepts, ClientEnters,
                  RoleLeavesLoop, ReplicasReturn, WalkLocksBucket, WalkLocksContext,
                  WalkNotifies, WalkFrees, server
    <3> QED BY <1>1, <3>1, <3>2 DEF IInv, TypeOK
  <2>2. hasty => hasty'
    BY <1>3 DEF Next, OldManagerAccepts, OldManagerLetsGo, DeviceDies, OldManagerDies, Promoted,
                ConnStep, MainStep, RoleStep, Crashes, ConnReads,
                Searches, Inserts, EventEnters, EventLeaves, MainAccepts, ClientEnters,
                RoleLeavesLoop, ReplicasReturn, WalkLocksBucket, WalkLocksContext,
                WalkNotifies, WalkFrees, history
  <2>3. CASE ~running'
    <3>1. Searches("main") \/ Searches("conn") \/ EventLeaves \/ Crashes
      BY <1>3, <2>1, <2>3, Apart
         DEF Next, OldManagerAccepts, OldManagerLetsGo, DeviceDies, OldManagerDies, Promoted,
             ConnStep, MainStep, RoleStep, ConnReads, Inserts,
             EventEnters, MainAccepts, ClientEnters, RoleLeavesLoop, ReplicasReturn,
             WalkLocksBucket, WalkLocksContext, WalkNotifies, WalkFrees, server
    <3>2. UNCHANGED <<cut, device>>
      BY <3>1 DEF Searches, EventLeaves, Crashes, history
    <3> QED BY <1>1, <2>2, <2>3, <3>2 DEF GoodInv, Calm
  <2>4. CASE running' /\ mode' = "BACKUP"
    <3>1. mode = "BACKUP" /\ Waiting
      BY <2>1, <2>4 DEF GoodInv
    <3>2. Waiting'
      BY <1>1, <2>1, <2>4, <3>1, WaitingKept
    <3>3. Waiting' => Calm'
      BY DEF Waiting, Calm
    <3> QED BY <1>1, <2>4, <3>2, <3>3 DEF GoodInv
  <2>5. CASE running' /\ mode' # "BACKUP" /\ mode = "BACKUP"
    <3>1. Promoted
      BY <1>3, <2>5
         DEF Next, OldManagerAccepts, OldManagerLetsGo, DeviceDies, OldManagerDies, Crashes,
             ConnStep, MainStep, RoleStep, ConnReads, Searches, Inserts,
             EventEnters, EventLeaves, MainAccepts, ClientEnters, RoleLeavesLoop, ReplicasReturn,
             WalkLocksBucket, WalkLocksContext, WalkNotifies, WalkFrees, server
    <3>2. Waiting
      BY <2>1, <2>5 DEF GoodInv
    <3> QED BY <1>1, <2>5, <3>1, <3>2, PatientPromoted DEF GoodInv
  <2>6. CASE running' /\ mode' # "BACKUP" /\ mode # "BACKUP"
    <3>1. CASE hasty'
      BY <1>1, <2>6, <3>1 DEF GoodInv
    <3>2. CASE ~hasty'
      <4>1. Patient /\ Calm
        BY <2>1, <2>2, <2>6, <3>2 DEF GoodInv
      <4>2. Patient' /\ Calm'
        BY <1>1, <2>6, <3>2, <4>1, PatientKept
      <4> QED BY <1>1, <2>6, <4>2 DEF GoodInv
    <3> QED BY <3>1, <3>2
  <2> QED BY <2>3, <2>4, <2>5, <2>6
<1> QED BY <1>2, <1>3

LEMMA GoodInit == Init => GoodInv
<1> SUFFICES ASSUME Init PROVE GoodInv
  OBVIOUS
<1>1. ContextIds = {} /\ Len(events) = 0 /\ \A f : ~Handling(f) /\ ~Coming(f)
  <2>1. Len(events) = 0 /\ ~(\E k \in 1 .. 0 : TRUE)
    BY DEF Init
  <2> QED BY <2>1, Apart DEF Init, ContextIds, Handling, Coming, AtRest
<1>2. Single /\ Stream
  <2>1. ~(\E k \in 1 .. Len(events) : TRUE)
    BY <1>1
  <2> QED BY <1>1, <2>1 DEF Init, Single, Stream, HasSession
<1>3. Waiting
  BY <1>1, <1>2, Apart DEF Init, Waiting, InHandOfMain, AtRest
<1>4. Calm
  BY DEF Init, Calm
<1> QED BY <1>3, <1>4, InitIInv DEF Init, GoodInv

(* For any users, devices, slots and buckets: a manager that serves nobody  *)
(* before its walks are over frees no session under a client, and turns no  *)
(* client away, if no user has more devices than slots (server.c:61-93,     *)
(* connectionManagement.c:181-215).                                         *)
THEOREM PatientClientsServed == Spec => []PatienceRewarded
<1>1. GoodInv => PatienceRewarded
  BY DEF GoodInv, Calm, PatienceRewarded
<1> QED BY <1>1, GoodInit, GoodStep, PTL DEF Spec

-----------------------------------------------------------------------------
(* What the server can die of.                                              *)

DeathInv ==
    /\ GoodInv
    /\ InPlace
    /\ DiesOnlyOfThese

(* Without a collision a list that has an element has the right one.        *)
LEMMA DeathKept ==
    ASSUME DeathInv, [Next]_vars
    PROVE  DiesOnlyOfThese'
<1>1. IInv /\ InPlace /\ DiesOnlyOfThese
  BY DEF DeathInv, GoodInv
<1>2. keyHash' = keyHash /\ (Collision' <=> Collision)
  <2>1. keyHash' = keyHash
    <3>1. ASSUME NEW t \in Threads, Inserts(t) PROVE keyHash' = keyHash
      BY <3>1 DEF Inserts
    <3> QED BY <1>1, <3>1, UsersStay
  <2> QED BY <2>1 DEF Collision
<1>3. ASSUME UNCHANGED <<running, late, cut>>, met => met'
      PROVE  DiesOnlyOfThese'
  BY <1>1, <1>2, <1>3 DEF DiesOnlyOfThese
<1>4. CASE Crashes
  BY <1>4 DEF Crashes, DiesOnlyOfThese, history
<1>5. CASE running'
  BY <1>5 DEF DiesOnlyOfThese
<1>6. ASSUME NEW t \in Threads, Searches(t)
      PROVE  DiesOnlyOfThese'
  <2> DEFINE u == User[thread[t].event.device]
             b == keyHash[u]
  <2>1. /\ running' = ~WalksOff(b, u) /\ UNCHANGED <<late, cut, met>> /\ thread[t].at = "search"
    BY <1>6 DEF Searches, Bucket, At, history
  <2>2. u \in Users /\ b \in 1 .. Buckets
    <3>1. thread[t].event \in Events
      BY <1>1, <2>1 DEF IInv, ThreadsSound
    <3> QED BY <1>1, <3>1, UserAssumption DEF Events, IInv, TypeOK
  <2> HIDE DEF b, u
  <2>3. WalksOff(b, u) => Collision
    <3> SUFFICES ASSUME table[b] # <<>>, Named(b, u) = {} PROVE Collision
      BY DEF WalksOff
    <3>1. table[b] \in Seq(ContextIds)
      BY <1>1, <2>2 DEF IInv, TypeOK
    <3>2. 1 \in DOMAIN table[b] /\ table[b][1] \in ContextIds
      BY <3>1
    <3> DEFINE v == contexts[table[b][1]].user
    <3>3. keyHash[v] = b
      BY <1>1, <2>2, <3>2 DEF InPlace
    <3>4. v \in Users
      BY <1>1, <3>2, NumbersOfContexts DEF IInv, Context
    <3>5. v # u
      BY <3>2 DEF Named
    <3> HIDE DEF v
    <3> QED BY <2>2, <3>3, <3>4, <3>5 DEF Collision, b
  <2> QED BY <1>2, <2>1, <2>3 DEF DiesOnlyOfThese
<1>7. CASE EventLeaves
  <2>1. CASE mode = "BACKUP"
    <3>1. running
      BY <1>7 DEF EventLeaves, At
    <3>2. ~met => running'
      BY <1>1, <1>7, <2>1, <3>1, WaitingLeaves DEF DeathInv, GoodInv
    <3>3. met' = met
      BY <1>7 DEF EventLeaves
    <3> QED BY <3>2, <3>3 DEF DiesOnlyOfThese
  <2>2. CASE mode # "BACKUP"
    BY <1>7, <2>2 DEF EventLeaves, DiesOnlyOfThese
  <2> QED BY <2>1, <2>2
<1>8. ASSUME NEW d \in Devices,
             OldManagerAccepts(d) \/ OldManagerLetsGo(d) \/ DeviceDies(d) \/ MainAccepts(d)
      PROVE  DiesOnlyOfThese'
  <2>1. UNCHANGED <<running, late, cut>>
    BY <1>8 DEF OldManagerAccepts, OldManagerLetsGo, DeviceDies, MainAccepts, server, history
  <2>2. (met' = met) \/ MainAccepts(d)
    BY <1>8 DEF OldManagerAccepts, OldManagerLetsGo, DeviceDies, history
  <2>3. MainAccepts(d) => (met => met')
    BY DEF MainAccepts
  <2> QED BY <1>3, <2>1, <2>2, <2>3
<1>9. CASE OldManagerDies \/ ConnReads \/ ClientEnters \/ UNCHANGED vars
  <2>1. UNCHANGED <<running, late, cut>>
    BY <1>9 DEF OldManagerDies, ConnReads, ClientEnters, vars, server, history
  <2>2. (met' = met) \/ ConnReads
    BY <1>9 DEF OldManagerDies, ClientEnters, vars, history
  <2>3. ConnReads => (met => met')
    <3>1. CASE mode = "BACKUP"
      BY <3>1 DEF ConnReads
    <3>2. CASE mode # "BACKUP"
      BY <3>2 DEF ConnReads
    <3> QED BY <3>1, <3>2
  <2> QED BY <1>3, <2>1, <2>2, <2>3
<1>10. CASE Promoted \/ EventEnters \/ \E t \in Threads : Inserts(t)
  <2>1. running' = running /\ running
    BY <1>10 DEF Promoted, EventEnters, Inserts, At
  <2> QED BY <1>5, <2>1
<1>11. CASE RoleStep
  <2>1. running
    BY <1>11 DEF RoleStep, RoleLeavesLoop, ReplicasReturn, WalkLocksBucket,
                 WalkLocksContext, WalkNotifies, WalkFrees
  <2>2. running' = running
    BY <1>11 DEF RoleStep, RoleLeavesLoop, ReplicasReturn, WalkLocksBucket,
                 WalkLocksContext, WalkNotifies, WalkFrees, server
  <2> QED BY <1>5, <2>1, <2>2
<1> QED BY <1>4, <1>6, <1>7, <1>8, <1>9, <1>10, <1>11, Apart DEF Next, ConnStep, MainStep

(* For any users, devices, slots and buckets the hand-over kills the server *)
(* only in four cases: two users share a bucket, and one is looked for in a *)
(* list that holds the other (contextHashTable.c:20-26); an event of the    *)
(* old manager is handled after the promotion (serverRoles.c:282-293); a    *)
(* session is freed under its client (connectionManagement.c:198-206); or a *)
(* client nobody sent meets the first event of its user, so that the user   *)
(* may have two contexts (connectionManagement.c:36-44).                    *)
THEOREM HandoverSurvived == Spec => []DiesOnlyOfThese
<1>1. Init => DeathInv
  <2> SUFFICES ASSUME Init PROVE DeathInv
    OBVIOUS
  <2>1. InPlace /\ DiesOnlyOfThese
    BY DEF Init, InPlace, DiesOnlyOfThese
  <2> QED BY <2>1, GoodInit DEF DeathInv
<1>2. DeathInv /\ [Next]_vars => DeathInv'
  <2> SUFFICES ASSUME DeathInv, [Next]_vars PROVE DeathInv'
    OBVIOUS
  <2>1. GoodInv' /\ InPlace'
    BY GoodStep, PlacesKept DEF DeathInv, GoodInv
  <2> QED BY <2>1, DeathKept DEF DeathInv
<1>3. DeathInv => DiesOnlyOfThese
  BY DEF DeathInv
<1> QED BY <1>1, <1>2, <1>3, PTL DEF Spec


-----------------------------------------------------------------------------
(* The walk that tells the clients, and what it has come by.                *)

(* A session that the new manager inherited or gave, and its client.        *)
Heard(c, i) ==
    contexts[c].sessions[i] # NULL /\ contexts[c].sessions[i].threads = "none"
       => ~Unserved(contexts[c].sessions[i].device)

(* What the walk has come by: all of a bucket, all of a context, a slot.    *)
Passed(c, i) ==
    \/ role.at \in {"free", "manager"}
    \/ role.at \in {"bucket"} \cup Walking /\ keyHash[contexts[c].user] < role.bucket
    \/ role.at \in Walking /\ \E k \in 1 .. role.node - 1 : table[role.bucket][k] = c
    \/ role.at = "slot" /\ table[role.bucket][role.node] = c /\ i < role.slot

ToldInv ==
    /\ IInv
    /\ alive => mode = "BACKUP"
    /\ mode = "BACKUP" => role.at = "backup"
    /\ role.at \in {"backup", "awaiting"} => role.bucket = 1
    /\ \A c \in ContextIds, i \in Slots : Passed(c, i) => Heard(c, i)

(* A step of a manager gives no session without threads, and no device      *)
(* comes back to the old manager or waits for a backup.                     *)
LEMMA HeardStays ==
    ASSUME IInv, NEW c \in ContextIds, NEW i \in Slots, Heard(c, i),
           \/ contexts'[c].sessions[i] = NULL
           \/ contexts'[c].sessions[i] = contexts[c].sessions[i]
           \/ contexts'[c].sessions[i].threads # "none",
           \A d \in Devices : Unserved(d)' => Unserved(d)
    PROVE  Heard(c, i)'
<1>1. contexts[c].sessions[i] # NULL => contexts[c].sessions[i].device \in Devices
  BY DEF IInv, OwnSessions
<1> QED BY <1>1 DEF Heard, Unserved

(* The steps of a server that is a manager, but for those of its walks.     *)
LEMMA HeardByOthers ==
    ASSUME IInv, ~alive, mode # "BACKUP", ~RoleStep, [Next]_vars
    PROVE  /\ UNCHANGED <<role, keyHash, alive, mode>>
           /\ \A d \in Devices : Unserved(d)' => Unserved(d)
           /\ ContextIds \subseteq ContextIds'
           /\ \A c \in ContextIds :
                 /\ contexts'[c].user = contexts[c].user
                 /\ \A i \in Slots : Heard(c, i) => Heard(c, i)'
           /\ \A c \in ContextIds' \ ContextIds, i \in Slots : contexts'[c].sessions[i] = NULL
           /\ role.at \in Walking => table'[role.bucket] = table[role.bucket]
<1>1. device \in [Devices -> DeviceStates] /\ \A d \in Devices : ~OldManagerAccepts(d)
  BY DEF IInv, TypeOK, OldManagerAccepts
<1>2. UNCHANGED <<role, keyHash, alive, mode>>
  <2>1. ~Promoted /\ ~OldManagerDies
    BY DEF Promoted, OldManagerDies
  <2> QED BY <1>1, <2>1
      DEF Next, OldManagerLetsGo, DeviceDies, ConnStep, MainStep, Crashes, ConnReads, Searches,
          Inserts, EventEnters, EventLeaves, MainAccepts, ClientEnters, vars, server, history
<1>3. ASSUME NEW d \in Devices, Unserved(d)' PROVE Unserved(d)
  <2>1. CASE device' = device
    BY <1>3, <2>1 DEF Unserved
  <2>2. ASSUME NEW e \in Devices, OldManagerLetsGo(e) \/ DeviceDies(e) \/ MainAccepts(e)
        PROVE  Unserved(d)
    BY <1>1, <1>3, <2>2 DEF OldManagerLetsGo, DeviceDies, MainAccepts, Unserved
  <2>3. CASE ClientEnters
    BY <1>1, <1>3, <2>3 DEF ClientEnters, Unserved
  <2>4. CASE OldManagerDies \/ Promoted \/ Crashes \/ ConnStep \/ UNCHANGED vars
            \/ Searches("main") \/ Inserts("main")
    BY <2>1, <2>4 DEF OldManagerDies, Promoted, Crashes, ConnStep, ConnReads, Searches, Inserts,
                      EventEnters, EventLeaves, vars
  <2> QED BY <1>1, <2>2, <2>3, <2>4 DEF Next, MainStep
<1>4. CASE \E t \in Threads : Inserts(t)
  <2>1. PICK t \in Threads : Inserts(t)
    BY <1>4
  <2>2. PICK n : /\ ContextIds' = ContextIds \cup {n} /\ n \notin ContextIds
                 /\ \A c \in ContextIds : contexts'[c] = contexts[c]
                 /\ \A i \in Slots : contexts'[n].sessions[i] = NULL
    BY <2>1, InsertAdds
  <2>3. role.at \in Walking => table'[role.bucket] = table[role.bucket]
    <3>1. table \in [1 .. Buckets -> Seq(ContextIds)] /\ role \in Walk
      BY DEF IInv, TypeOK
    <3>2. ~Locked(Bucket(t)) /\ \E list : table' = [table EXCEPT ![Bucket(t)] = list]
      BY <2>1 DEF Inserts
    <3> QED BY <3>1, <3>2 DEF Locked, Walk
  <2>4. \A c \in ContextIds, i \in Slots : Heard(c, i) => Heard(c, i)'
    BY <1>3, <2>2, HeardStays
  <2> QED BY <1>2, <1>3, <2>2, <2>3, <2>4
<1>5. CASE \A t \in Threads : ~Inserts(t)
  <2>1. /\ UNCHANGED <<table, keyHash>> /\ ContextIds' = ContextIds
        /\ \A c \in ContextIds : contexts'[c].user = contexts[c].user
    BY <1>5, UsersStay
  <2>2. ASSUME NEW c \in ContextIds, NEW i \in Slots
        PROVE  \/ contexts'[c].sessions[i] = NULL
               \/ contexts'[c].sessions[i] = contexts[c].sessions[i]
               \/ contexts'[c].sessions[i].threads # "none"
    <3>1. CASE contexts' = contexts
      BY <3>1
    <3>2. CASE EventLeaves
      BY <3>2, LeavesTakes
    <3>3. ASSUME NEW t \in Threads, thread[t].at = "lock", NEW k \in {"client", "astray"},
                 Free(thread[t].context) # {},
                 Enter(thread[t].context, thread[t].event.device, k)
          PROVE  \/ contexts'[c].sessions[i] = contexts[c].sessions[i]
                 \/ contexts'[c].sessions[i].threads # "none"
      <4>1. thread[t].context \in ContextIds /\ thread[t].event.device \in Devices
        BY <3>3 DEF IInv, ThreadsSound, Events
      <4> QED BY <3>3, <4>1, EnterFills
    <3>4. CASE ClientEnters \/ EventEnters
      <4>1. \/ contexts' = contexts
            \/ \E t \in Threads, k \in {"client", "astray"} :
                  /\ thread[t].at = "lock"
                  /\ Free(thread[t].context) # {}
                  /\ Enter(thread[t].context, thread[t].event.device, k)
        BY <3>4, Apart DEF ClientEnters, EventEnters, At
      <4> QED BY <3>1, <3>3, <4>1
    <3>5. CASE ConnReads \/ Searches("conn") \/ Searches("main") \/ OldManagerDies \/ Promoted
               \/ Crashes \/ UNCHANGED vars
               \/ \E d \in Devices : OldManagerLetsGo(d) \/ DeviceDies(d) \/ MainAccepts(d)
      BY <3>1, <3>5 DEF ConnReads, Searches, OldManagerDies, Promoted, Crashes, vars, server,
                        OldManagerLetsGo, DeviceDies, MainAccepts
    <3> QED BY <1>1, <1>5, <3>2, <3>4, <3>5, Apart DEF Next, ConnStep, MainStep
  <2>3. \A c \in ContextIds, i \in Slots : Heard(c, i) => Heard(c, i)'
    BY <1>3, <2>2, HeardStays
  <2> QED BY <1>2, <1>3, <2>1, <2>3
<1> QED BY <1>4, <1>5

(* Who is behind the walk in the next bucket was so, or is of this one.     *)
LEMMA PassesBucket ==
    ASSUME IInv, role.at \in {"bucket", "slot"}, role' = NextBucket("bucket", "free"),
           UNCHANGED <<keyHash, table, contexts>>,
           NEW c \in ContextIds, NEW i \in Slots, Passed(c, i)'
    PROVE  Passed(c, i) \/ \E k \in DOMAIN table[role.bucket] : table[role.bucket][k] = c
<1>1. role \in Walk /\ role.bucket \in 1 .. Buckets /\ keyHash \in [Users -> 1 .. Buckets]
  BY DEF IInv, TypeOK, Walk
<1>2. contexts[c].user \in Users /\ keyHash[contexts[c].user] \in 1 .. Buckets
  BY <1>1, NumbersOfContexts DEF IInv, Context
<1>3. \/ role'.at = "bucket" /\ role'.bucket = role.bucket + 1
      \/ role'.at = "free" /\ role.bucket = Buckets
  BY <1>1 DEF NextBucket, Walk
<1>4. keyHash[contexts[c].user] <= role.bucket
  BY <1>1, <1>2, <1>3, SizesAssumption DEF Passed, Walking
<1>5. CASE keyHash[contexts[c].user] < role.bucket
  BY <1>5 DEF Passed, Walking
<1>6. CASE keyHash[contexts[c].user] = role.bucket
  BY <1>6 DEF IInv, Stored
<1> QED BY <1>1, <1>2, <1>4, <1>5, <1>6

(* The steps of the walks.                                                  *)
LEMMA HeardByWalk ==
    ASSUME ToldInv, RoleStep, mode # "BACKUP", IInv'
    PROVE  ToldInv'
<1>1. IInv /\ ~alive
  BY DEF ToldInv
<1>2. role \in Walk /\ role.bucket \in 1 .. Buckets /\ role.slot \in 1 .. MAX_SESSIONS
      /\ role.node \in Nat /\ device \in [Devices -> DeviceStates]
      /\ table[role.bucket] \in Seq(ContextIds)
  BY <1>1 DEF IInv, TypeOK, Walk, Slots
<1>3. CASE RoleLeavesLoop \/ ReplicasReturn
  <2>1. /\ UNCHANGED <<keyHash, contexts, table, mode, alive, device>>
        /\ role.bucket = 1 /\ role'.bucket = 1 /\ role'.at \in {"awaiting", "bucket"}
    BY <1>2, <1>3 DEF RoleLeavesLoop, ReplicasReturn, ToldInv, server, Walk
  <2>2. \A c \in ContextIds : keyHash[contexts[c].user] \in 1 .. Buckets
    BY <1>1, NumbersOfContexts DEF IInv, TypeOK, Context
  <2>3. \A c \in ContextIds, i \in Slots : ~Passed(c, i)'
    BY <2>1, <2>2 DEF Passed, Walking
  <2> QED BY <1>1, <2>1, <2>3 DEF ToldInv, ContextIds
<1>4. CASE WalkLocksBucket \/ WalkLocksContext
  <2>1. UNCHANGED <<keyHash, contexts, table, mode, alive, device>>
    BY <1>4 DEF WalkLocksBucket, WalkLocksContext, server
  <2>2. \A c \in ContextIds, i \in Slots : Heard(c, i) => Heard(c, i)'
    BY <2>1 DEF Heard, Unserved
  <2>3. ASSUME NEW c \in ContextIds, NEW i \in Slots, Passed(c, i)' PROVE Passed(c, i)
    <3>1. CASE WalkLocksBucket /\ table[role.bucket] = <<>>
      <4>1. role.at = "bucket" /\ role' = NextBucket("bucket", "free")
            /\ DOMAIN table[role.bucket] = {}
        BY <3>1 DEF WalkLocksBucket
      <4> QED BY <1>1, <2>1, <2>3, <4>1, PassesBucket
    <3>2. CASE WalkLocksBucket /\ table[role.bucket] # <<>>
      <4>1. /\ role.at = "bucket" /\ role'.at = "context"
            /\ role'.bucket = role.bucket /\ role'.node = 1
        BY <1>2, <3>2 DEF WalkLocksBucket, Walk
      <4> QED BY <2>1, <2>3, <4>1 DEF Passed, Walking
    <3>3. CASE WalkLocksContext
      <4>1. /\ role.at = "context" /\ role'.at = "slot"
            /\ role'.bucket = role.bucket /\ role'.node = role.node /\ role'.slot = 1
        BY <1>2, <3>3 DEF WalkLocksContext, Walk
      <4>2. ~(i < 1)
        BY SizesAssumption DEF Slots
      <4> QED BY <2>1, <2>3, <4>1, <4>2 DEF Passed, Walking
    <3> QED BY <1>4, <3>1, <3>2, <3>3
  <2>4. ContextIds' = ContextIds /\ role'.at \notin {"backup", "awaiting"}
    <3>1. role'.at \in {"bucket", "free", "context", "slot"}
      <4>1. CASE WalkLocksBucket
        BY <1>2, <4>1 DEF WalkLocksBucket, NextBucket, Walk
      <4>2. CASE WalkLocksContext
        BY <1>2, <4>2 DEF WalkLocksContext, Walk
      <4> QED BY <1>4, <4>1, <4>2
    <3> QED BY <2>1, <3>1 DEF ContextIds
  <2>5. \A c \in ContextIds, i \in Slots : Passed(c, i)' => Heard(c, i)'
    BY <2>2, <2>3 DEF ToldInv
  <2> QED BY <1>1, <2>1, <2>4, <2>5 DEF ToldInv
<1>5. CASE WalkNotifies
  <2>1. /\ UNCHANGED <<keyHash, contexts, table, mode, alive>> /\ role.at = "slot"
        /\ role' = IF role.slot < MAX_SESSIONS THEN [role EXCEPT !.slot = @ + 1] ELSE AfterContext
    <3>1. UNCHANGED <<keyHash, contexts, table, mode, alive>> /\ role.at = "slot"
      BY <1>5, Zenon DEF WalkNotifies, server
    <3>2. \E reached : role' = AfterSlot(reached)
      BY <1>5, Zenon DEF WalkNotifies
    <3> QED BY <3>1, <3>2 DEF AfterSlot
  <2>2. PICK h \in ContextIds : h = table[role.bucket][role.node]
    <3>1. role.node \in DOMAIN table[role.bucket]
      BY <1>1, <1>2, <2>1 DEF IInv, WalkSound, Walking
    <3> QED BY <1>2, <3>1
  <2>3. /\ \A d \in Devices : Unserved(d)' => Unserved(d)
        /\ \A i \in Slots : i = role.slot => Heard(h, i)'
    <3> DEFINE session == contexts[table[role.bucket][role.node]].sessions[role.slot]
    <3>1. \/ session = NULL /\ device' = device
          \/ session # NULL /\ device[session.device] \in {"left", "gone"} /\ device' = device
          \/ session # NULL /\ device' = [device EXCEPT ![session.device] = "told"]
      BY <1>5, Zenon DEF WalkNotifies
    <3>2. session = contexts[h].sessions[role.slot] /\ session = contexts'[h].sessions[role.slot]
      BY <2>1, <2>2
    <3>3. session # NULL => session.device \in Devices
      <4>1. role.slot \in Slots
        BY <1>2 DEF Slots
      <4>2. contexts[h].sessions[role.slot] # NULL =>
               contexts[h].sessions[role.slot].device \in Devices
        BY <1>1, <2>2, <4>1 DEF IInv, OwnSessions
      <4> QED BY <3>2, <4>2
    <3>4. /\ \A d \in Devices : Unserved(d)' => Unserved(d)
          /\ \A d \in Devices : session # NULL /\ d = session.device => ~Unserved(d)'
      <4> HIDE DEF session
      <4> QED BY <1>2, <3>1, <3>3 DEF Unserved
    <3>5. ASSUME NEW i \in Slots, i = role.slot PROVE Heard(h, i)'
      <4>1. CASE session = NULL
        BY <3>2, <3>5, <4>1 DEF Heard
      <4>2. CASE session # NULL
        <5>1. PICK e \in Devices : e = session.device
          BY <3>3, <4>2
        <5>2. ~Unserved(e)'
          BY <3>4, <4>2, <5>1
        <5> QED BY <3>2, <3>5, <5>1, <5>2 DEF Heard, Unserved
      <4> QED BY <4>1, <4>2
    <3> QED BY <3>4, <3>5
  <2>4. \A c \in ContextIds, i \in Slots : Heard(c, i) => Heard(c, i)'
    BY <1>1, <2>1, <2>3, HeardStays
  <2>5. ASSUME NEW c \in ContextIds, NEW i \in Slots, Passed(c, i)'
        PROVE  Passed(c, i) \/ (c = h /\ i = role.slot)
    <3>1. i \in 1 .. MAX_SESSIONS
      BY DEF Slots
    <3>2. CASE role.slot < MAX_SESSIONS
      <4>1. /\ role'.at = "slot" /\ role'.bucket = role.bucket
            /\ role'.node = role.node /\ role'.slot = role.slot + 1
        BY <1>2, <2>1, <3>2 DEF Walk
      <4>2. Passed(c, i) \/ (table[role.bucket][role.node] = c /\ i < role.slot + 1)
        BY <2>1, <2>5, <4>1 DEF Passed, Walking
      <4>3. i < role.slot + 1 => i < role.slot \/ i = role.slot
        BY <1>2, <3>1, SizesAssumption
      <4> QED BY <2>1, <2>2, <4>2, <4>3 DEF Passed, Walking
    <3>3. CASE ~(role.slot < MAX_SESSIONS)
      <4>1. i < role.slot \/ i = role.slot
        BY <1>2, <3>1, <3>3, SizesAssumption
      <4>2. role' = AfterContext
        BY <2>1, <3>3
      <4>3. ASSUME NEW k \in 1 .. role.node, table[role.bucket][k] = c
            PROVE  Passed(c, i) \/ (c = h /\ i = role.slot)
        <5>1. k = role.node \/ k \in 1 .. role.node - 1
          BY <1>2
        <5> QED BY <2>1, <2>2, <4>1, <4>3, <5>1 DEF Passed, Walking
      <4>4. CASE role.node < Len(table[role.bucket])
        <5>1. role'.at = "context" /\ role'.bucket = role.bucket /\ role'.node = role.node + 1
          BY <1>2, <4>2, <4>4 DEF AfterContext, Walk
        <5>2. 1 .. role'.node - 1 = 1 .. role.node
          BY <1>2, <5>1
        <5>3. Passed(c, i) \/ \E k \in 1 .. role.node : table[role.bucket][k] = c
          BY <2>1, <2>5, <5>1, <5>2 DEF Passed, Walking
        <5> QED BY <4>3, <5>3
      <4>5. CASE ~(role.node < Len(table[role.bucket]))
        <5>1. role' = NextBucket("bucket", "free")
          BY <4>2, <4>5 DEF AfterContext
        <5>2. Passed(c, i) \/ \E k \in DOMAIN table[role.bucket] : table[role.bucket][k] = c
          BY <1>1, <2>1, <2>5, <5>1, PassesBucket
        <5>3. \A k \in DOMAIN table[role.bucket] : k \in 1 .. role.node
          BY <1>2, <4>5
        <5> QED BY <4>3, <5>2, <5>3
      <4> QED BY <4>4, <4>5
    <3> QED BY <3>2, <3>3
  <2>6. \A c \in ContextIds, i \in Slots : Passed(c, i)' => Heard(c, i)'
    <3>1. ASSUME NEW c \in ContextIds, NEW i \in Slots, Passed(c, i)' PROVE Heard(c, i)'
      <4>1. CASE Passed(c, i)
        BY <2>4, <4>1 DEF ToldInv
      <4>2. CASE c = h /\ i = role.slot
        BY <2>3, <4>2
      <4> QED BY <2>5, <3>1, <4>1, <4>2
    <3> QED BY <3>1
  <2>7. ContextIds' = ContextIds /\ role'.at \notin {"backup", "awaiting"}
    BY <1>2, <2>1 DEF AfterContext, NextBucket, Walk, ContextIds
  <2> QED BY <1>1, <2>1, <2>6, <2>7 DEF ToldInv
<1>6. CASE WalkFrees
  <2>1. UNCHANGED <<keyHash, mode, table, alive, device>> /\ role.at = "free"
        /\ role' = NextBucket("free", "manager")
    BY <1>6 DEF WalkFrees
  <2>2. role'.at \in {"free", "manager"}
    BY <1>2, <2>1 DEF NextBucket, Walk
  <2>3. ContextIds' = ContextIds
    <3>1. DOMAIN contexts' = ContextIds /\ contexts' \in Seq(Context)
      BY <1>6 DEF WalkFrees, IInv, TypeOK
    <3> QED BY <3>1 DEF ContextIds
  <2>4. \A c \in ContextIds, i \in Slots :
           contexts'[c].sessions[i] = NULL \/ contexts'[c].sessions[i] = contexts[c].sessions[i]
    <3>1. \A c \in ContextIds : contexts[c] \in Context
      BY <1>1, NumbersOfContexts DEF IInv
    <3> QED BY <1>6, <3>1 DEF WalkFrees, SlotsAfterFree, Context
  <2>5. \A d \in Devices : Unserved(d)' => Unserved(d)
    BY <2>1 DEF Unserved
  <2>6. \A c \in ContextIds, i \in Slots : Heard(c, i) => Heard(c, i)'
    BY <1>1, <2>4, <2>5, HeardStays
  <2>7. \A c \in ContextIds, i \in Slots : Passed(c, i)
    BY <2>1 DEF Passed
  <2>8. \A c \in ContextIds, i \in Slots : Heard(c, i)'
    BY <2>6, <2>7 DEF ToldInv
  <2> QED BY <1>1, <2>1, <2>2, <2>3, <2>8 DEF ToldInv
<1> QED BY <1>3, <1>4, <1>5, <1>6 DEF RoleStep

LEMMA ToldStep == ToldInv /\ [Next]_vars => ToldInv'
<1> SUFFICES ASSUME ToldInv, [Next]_vars PROVE ToldInv'
  OBVIOUS
<1>1. IInv /\ IInv'
  BY StepIInv DEF ToldInv
<1>2. CASE mode = "BACKUP"
  <2>1. role.at = "backup" /\ role.bucket = 1
    BY <1>2 DEF ToldInv
  <2>2. ~RoleStep
    BY <1>2, <2>1 DEF RoleStep, RoleLeavesLoop, ReplicasReturn, WalkLocksBucket,
                      WalkLocksContext, WalkNotifies, WalkFrees
  <2>3. role' = role
    BY <2>2 DEF Next, OldManagerAccepts, OldManagerLetsGo, DeviceDies, OldManagerDies,
                Promoted, ConnStep, MainStep, Crashes, ConnReads, Searches, Inserts,
                EventEnters, EventLeaves, MainAccepts, ClientEnters, vars
  <2>4. alive' => mode' = "BACKUP"
    <3>1. mode' = mode \/ Promoted
      BY <2>2 DEF Next, OldManagerAccepts, OldManagerLetsGo, DeviceDies, OldManagerDies, ConnStep,
                  MainStep, Crashes, ConnReads, Searches, Inserts, EventEnters, EventLeaves,
                  MainAccepts, ClientEnters, vars, server
    <3>2. Promoted => ~alive'
      BY DEF Promoted
    <3> QED BY <1>2, <3>1, <3>2
  <2>5. \A c, i : ~Passed(c, i)'
    BY <2>1, <2>3 DEF Passed, Walking
  <2> QED BY <1>1, <1>2, <2>1, <2>3, <2>4, <2>5 DEF ToldInv
<1>3. CASE mode # "BACKUP" /\ RoleStep
  BY <1>1, <1>3, HeardByWalk
<1>4. CASE mode # "BACKUP" /\ ~RoleStep
  <2>1. /\ UNCHANGED <<role, keyHash, alive, mode>>
        /\ ContextIds \subseteq ContextIds'
        /\ \A c \in ContextIds :
              /\ contexts'[c].user = contexts[c].user
              /\ \A i \in Slots : Heard(c, i) => Heard(c, i)'
        /\ \A c \in ContextIds' \ ContextIds, i \in Slots : contexts'[c].sessions[i] = NULL
        /\ role.at \in Walking => table'[role.bucket] = table[role.bucket]
    BY <1>1, <1>4, HeardByOthers DEF ToldInv
  <2>2. ASSUME NEW c \in ContextIds', NEW i \in Slots, Passed(c, i)' PROVE Heard(c, i)'
    <3>1. CASE c \in ContextIds
      <4>1. Passed(c, i)
        BY <2>1, <2>2, <3>1 DEF Passed, Walking
      <4> QED BY <2>1, <3>1, <4>1 DEF ToldInv
    <3>2. CASE c \notin ContextIds
      BY <2>1, <3>2 DEF Heard
    <3> QED BY <3>1, <3>2
  <2> QED BY <1>1, <2>1, <2>2 DEF ToldInv
<1> QED BY <1>2, <1>3, <1>4

LEMMA ToldInit == Init => ToldInv
<1> SUFFICES ASSUME Init PROVE ToldInv
  OBVIOUS
<1>1. IInv
  BY InitIInv
<1> QED BY <1>1 DEF Init, ToldInv, Passed, Walking

(* For any users, devices, slots and buckets: before the new manager frees  *)
(* a session that it has inherited, or gave while it was a backup, the walk *)
(* over the table has told its client, unless the client was gone           *)
(* (connectionManagement.c:217-267, serverRoles.c:579-581).                 *)
THEOREM ToldBeforeSessionsGo == Spec => []ToldBeforeFreed
<1>1. ToldInv => ToldBeforeFreed
  BY DEF ToldInv, ToldBeforeFreed, Known, Passed, Heard
<1> QED BY <1>1, ToldInit, ToldStep, PTL DEF Spec
=============================================================================
