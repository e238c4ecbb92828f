---------------------------- MODULE SessionsProofs ----------------------------
(***************************************************************************)
(* What is proved of the sessions for every number of devices, slots,       *)
(* changes and buffer entries: types, that a slot never holds a freed       *)
(* session, that a session is freed only when its threads are idle, that a  *)
(* walk that ends has told everyone, that events reach the backup in order  *)
(* and that it keeps no session of a client that has left.                  *)
(*                                                                          *)
(* The first part follows the end of a session.  Its interface thread       *)
(* passes the join of the receiving thread only when that is out of its     *)
(* loop's body, clears the slot before it frees, and cannot clear it before *)
(* the main thread has filled it, because that holds the lock until then.   *)
(* The second part follows a walk: what it owes is still ahead of it.  The  *)
(* third follows the events to the backup.                                  *)
(***************************************************************************)
EXTENDS Sessions, TLAPS

ThreadState == [at : Places, slot : 1 .. MAX_SESSIONS + 1, to : Clients \cup {None}]

(* An interface thread that has begun to end its session, has waited for    *)
(* the receiving thread, has cleared the slot.                              *)
Ended == {"close", "join receive", "join send", "unlink", "notify", "free", "done"}
Joined == {"join send", "unlink", "notify", "free", "done"}
Unlinked == {"notify", "free", "done"}

(* A receiving or sending thread that does nothing on its session's behalf. *)
Idle == {"none", "loop", "done"}

(* A client that the main thread has not made a session for.                *)
Fresh ==
    \A c \in Clients : client[c] \in {"knocking", "answered"} =>
       /\ thread[c]["interface"].at = "none"
       /\ ~freed[c]
       /\ \A i \in Slots : sessions[i] # c

MainBusy ==
    /\ main.at # "accepting" => main.client \in Clients
    /\ Locked =>
          /\ client[main.client] \notin {"knocking", "answered"}
          /\ \A i \in Slots : sessions[i] # main.client
          /\ ~freed[main.client]
          /\ thread[main.client]["interface"].at \notin Unlinked

SlotsLinked ==
    \A i \in Slots : sessions[i] # None =>
       /\ index[sessions[i]] = i
       /\ ~freed[sessions[i]]
       /\ thread[sessions[i]]["interface"].at \notin Unlinked

FreedAtLast == \A c \in Clients : freed[c] => thread[c]["interface"].at = "done"

EndedInactive ==
    \A c \in Clients :
       /\ thread[c]["interface"].at \in Ended => ~active[c]
       /\ thread[c]["interface"].at \in Joined => thread[c]["receive"].at \in Idle
       /\ thread[c]["send"].at \in Idle

AddsInSlots ==
    \A c \in Clients, t \in Threads : thread[c][t].at = "add" => thread[c][t].slot \in Slots

IndInv ==
    /\ TypeOK
    /\ Fresh
    /\ MainBusy
    /\ SlotsLinked
    /\ FreedAtLast
    /\ EndedInactive
    /\ AddsInSlots

(* What a step may do to the rest of the state, as far as its type goes.    *)
Data == <<up, closed, buffer, changes, owed, events, backup>>

DataTyped ==
    /\ up \in BOOLEAN
    /\ closed \in [Clients -> BOOLEAN]
    /\ buffer \in [Clients -> Seq(Clients)]
    /\ changes \in 0 .. MaxChanges
    /\ owed \in [Clients -> [Changers -> SUBSET Clients]]
    /\ events \in Seq(Events)
    /\ backup_up \in BOOLEAN
    /\ backup_sessions \in [Slots -> Clients \cup {None}]

LEMMA TypedData == TypeOK => DataTyped
BY DEF TypeOK, DataTyped

LEMMA DataStill ==
    ASSUME TypeOK, UNCHANGED Data
    PROVE  DataTyped'
BY DEF TypeOK, Data, DataTyped, backup

(* No thread moves and no slot changes; a client may go on.                 *)
LEMMA ThreadsStill ==
    ASSUME IndInv, DataTyped',
           UNCHANGED <<main, sessions, index, active, freed, thread>>,
           client' \in [Clients -> ClientPlaces],
           \A c \in Clients : client'[c] \in {"knocking", "answered"} => client'[c] = client[c]
    PROVE  IndInv'
<1>1. TypeOK'
  BY DEF IndInv, TypeOK, DataTyped
<1>2. Fresh'
  BY DEF IndInv, Fresh
<1>3. MainBusy'
  <2> SUFFICES ASSUME main'.at # "accepting"
               PROVE  /\ main.client \in Clients
                      /\ Locked => client'[main.client] \notin {"knocking", "answered"}
    BY DEF IndInv, MainBusy, Locked
  <2> QED BY DEF IndInv, MainBusy, Locked
<1>4. SlotsLinked' /\ FreedAtLast' /\ EndedInactive' /\ AddsInSlots'
  BY DEF IndInv, SlotsLinked, FreedAtLast, EndedInactive, AddsInSlots
<1> QED BY <1>1, <1>2, <1>3, <1>4 DEF IndInv

(* One thread moves in the middle of its life.                              *)
LEMMA ThreadMoves ==
    ASSUME IndInv, DataTyped',
           NEW c \in Clients, NEW t \in Threads, NEW v \in ThreadState,
           thread' = [thread EXCEPT ![c][t] = v],
           thread[c][t].at # "none",
           v.at = "add" => v.slot \in Slots,
           t = "interface" => thread[c][t].at \notin Ended /\ v.at \notin Ended,
           t = "receive" => thread[c][t].at \notin Idle \/ v.at \in Idle \/ active[c],
           t = "send" => v.at \in Idle,
           UNCHANGED <<client, main, sessions, index, active, freed>>
    PROVE  IndInv'
<1> USE DEF Threads
<1>1. thread' \in [Clients -> [Threads -> ThreadState]]
  BY DEF IndInv, TypeOK, ThreadState
<1>2. TypeOK'
  BY <1>1 DEF IndInv, TypeOK, DataTyped, ThreadState
<1>3. /\ \A d \in Clients, u \in Threads : d # c \/ u # t => thread'[d][u] = thread[d][u]
      /\ thread'[c][t] = v
  BY DEF IndInv, TypeOK
<1>4. \A d \in Clients :
         \/ thread'[d]["interface"] = thread[d]["interface"]
         \/ /\ d = c /\ t = "interface"
            /\ thread[d]["interface"].at \notin Ended \cup {"none"}
            /\ thread'[d]["interface"].at \notin Ended
  BY <1>3
<1>5. Fresh'
  BY <1>4 DEF IndInv, Fresh
<1>6. MainBusy'
  BY <1>4 DEF IndInv, MainBusy, Locked, Ended, Unlinked
<1>7. SlotsLinked'
  BY <1>4 DEF IndInv, TypeOK, SlotsLinked, Ended, Unlinked
<1>8. FreedAtLast'
  BY <1>4 DEF IndInv, FreedAtLast, Ended
<1>9. EndedInactive'
  <2> SUFFICES ASSUME NEW d \in Clients
               PROVE  /\ thread'[d]["interface"].at \in Ended => ~active[d]
                      /\ thread'[d]["interface"].at \in Joined => thread'[d]["receive"].at \in Idle
                      /\ thread'[d]["send"].at \in Idle
    BY DEF EndedInactive
  <2>1. thread'[d]["interface"].at \in Ended => thread'[d]["interface"] = thread[d]["interface"]
    BY <1>4
  <2>2. Joined \subseteq Ended
    BY DEF Joined, Ended
  <2>3. thread'[d]["send"].at \in Idle
    BY <1>3 DEF IndInv, EndedInactive
  <2>4. thread'[d]["interface"].at \in Joined => thread'[d]["receive"].at \in Idle
    BY <1>3, <2>1, <2>2 DEF IndInv, EndedInactive
  <2> QED BY <2>1, <2>3, <2>4 DEF IndInv, EndedInactive
<1>10. AddsInSlots'
  BY <1>3 DEF IndInv, AddsInSlots
<1> QED BY <1>2, <1>5, <1>6, <1>7, <1>8, <1>9, <1>10 DEF IndInv

LEMMA PlaceTyped ==
    ASSUME NEW p \in Places
    PROVE  Place(p) \in ThreadState /\ Place(p).at = p /\ Place(p).slot = 1
BY SlotsAssumption DEF Place, ThreadState

-----------------------------------------------------------------------------
(* Clients and the main thread.                                             *)

LEMMA DiesKeeps ==
    ASSUME IndInv, Dies
    PROVE  IndInv'
<1>1. DataTyped'
  BY DEF IndInv, TypeOK, Dies, manager, backup, DataTyped
<1> QED BY <1>1, ThreadsStill DEF Dies, manager, IndInv, TypeOK

LEMMA ClientKeeps ==
    ASSUME IndInv, NEW c \in Clients, ClientExits(c) \/ ClientEnds(c) \/ ClientDies(c)
    PROVE  IndInv'
<1>1. DataTyped'
  BY DataStill DEF IndInv, ClientExits, ClientEnds, ClientDies, ClientGoes, Data, manager
<1>2. UNCHANGED <<main, sessions, index, active, freed, thread>>
  BY DEF ClientExits, ClientEnds, ClientDies, ClientGoes, manager
<1>3. /\ client' \in [Clients -> ClientPlaces]
      /\ \A d \in Clients : client'[d] \in {"knocking", "answered"} => client'[d] = client[d]
  BY DEF ClientExits, ClientEnds, ClientDies, ClientGoes, IndInv, TypeOK, ClientPlaces
<1> QED BY <1>1, <1>2, <1>3, ThreadsStill

LEMMA AcceptKeeps ==
    ASSUME IndInv, NEW c \in Clients, MainAccepts(c)
    PROVE  IndInv'
<1>1. DataTyped'
  BY DataStill DEF IndInv, MainAccepts, Data
<1>2. TypeOK'
  BY <1>1 DEF IndInv, TypeOK, MainAccepts, DataTyped, ClientPlaces, MainPlaces
<1>3. Fresh'
  BY DEF IndInv, TypeOK, Fresh, MainAccepts
<1>4. MainBusy'
  BY DEF MainBusy, Locked, MainAccepts
<1>5. SlotsLinked' /\ FreedAtLast' /\ EndedInactive' /\ AddsInSlots'
  BY DEF IndInv, MainAccepts, SlotsLinked, FreedAtLast, EndedInactive, AddsInSlots
<1> QED BY <1>2, <1>3, <1>4, <1>5 DEF IndInv

LEMMA TellTyped ==
    ASSUME TypeOK, NEW c \in Clients, NEW type \in {"CONNECTED", "FILE", "DISCONNECTED"},
           Tell(type, c)
    PROVE  events' \in Seq(Events)
<1>1. [type |-> type, client |-> c] \in Events
  BY DEF Events
<1> QED BY <1>1 DEF Tell, TypeOK

LEMMA CreateKeeps ==
    ASSUME IndInv, MainCreates
    PROVE  IndInv'
<1> DEFINE c == main.client
<1>1. /\ c \in Clients
      /\ client[c] = "answered"
      /\ client' = [client EXCEPT ![c] = "connected"]
      /\ UNCHANGED <<up, sessions, freed, closed, buffer, thread, changes, owed, backup>>
  BY DEF IndInv, MainBusy, MainCreates, MainAt
<1>2. /\ thread[c]["interface"].at = "none"
      /\ ~freed[c]
      /\ \A i \in Slots : sessions[i] # c
  BY <1>1 DEF IndInv, Fresh
<1>3. client' \in [Clients -> ClientPlaces]
  BY <1>1 DEF IndInv, TypeOK, ClientPlaces
<1>4. CASE Free(sessions) = {}
  <2>1. main' = [at |-> "accepting", client |-> None] /\ UNCHANGED <<index, active, events>>
    BY <1>4 DEF MainCreates
  <2>2. TypeOK'
    BY <1>1, <1>3, <2>1 DEF IndInv, TypeOK, MainPlaces, backup
  <2>3. Fresh'
    BY <1>1, <2>1 DEF IndInv, TypeOK, Fresh
  <2>4. MainBusy'
    BY <2>1 DEF MainBusy, Locked
  <2>5. SlotsLinked' /\ FreedAtLast' /\ EndedInactive' /\ AddsInSlots'
    BY <1>1, <2>1 DEF IndInv, SlotsLinked, FreedAtLast, EndedInactive, AddsInSlots
  <2> QED BY <2>2, <2>3, <2>4, <2>5 DEF IndInv
<1>5. CASE Free(sessions) # {}
  <2>1. PICK i \in FirstFree(sessions) : index' = [index EXCEPT ![c] = i]
    BY <1>5 DEF MainCreates
  <2>2. i \in Slots /\ sessions[i] = None
    BY <2>1 DEF FirstFree, Free
  <2>3. /\ active' = [active EXCEPT ![c] = TRUE]
        /\ Tell("CONNECTED", c)
        /\ main' = [main EXCEPT !.at = "interface"]
    BY <1>5 DEF MainCreates, MainGoes
  <2>4. events' \in Seq(Events)
    BY <1>1, <2>3, TellTyped DEF IndInv
  <2>5. TypeOK'
    BY <1>1, <1>3, <2>1, <2>2, <2>3, <2>4 DEF IndInv, TypeOK, MainPlaces, backup
  <2>6. Fresh'
    BY <1>1, <2>3 DEF IndInv, TypeOK, Fresh
  <2>7. MainBusy'
    <3>1. main'.client = c /\ client'[c] = "connected"
      BY <1>1, <2>3 DEF IndInv, TypeOK
    <3>2. thread'[c]["interface"].at \notin Unlinked
      BY <1>1, <1>2 DEF Unlinked
    <3> QED BY <1>1, <1>2, <3>1, <3>2 DEF MainBusy
  <2>8. SlotsLinked'
    BY <1>1, <1>2, <2>1 DEF IndInv, TypeOK, SlotsLinked
  <2>9. EndedInactive'
    BY <1>1, <1>2, <2>3 DEF IndInv, TypeOK, EndedInactive, Ended
  <2>10. FreedAtLast' /\ AddsInSlots'
    BY <1>1 DEF IndInv, FreedAtLast, AddsInSlots
  <2> QED BY <2>5, <2>6, <2>7, <2>8, <2>9, <2>10 DEF IndInv
<1> QED BY <1>4, <1>5

LEMMA RestingTyped ==
    ASSUME NEW t \in Threads
    PROVE  /\ Resting(t) \in ThreadState
           /\ Resting(t).at = IF t = "interface" THEN "reading" ELSE "loop"
BY PlaceTyped DEF Resting, Places

LEMMA StartKeeps ==
    ASSUME IndInv, NEW t \in Threads, MainStarts(t)
    PROVE  IndInv'
<1> USE DEF Threads
<1> DEFINE c == main.client
<1>1. /\ main.at = t
      /\ main' = [main EXCEPT !.at = Following(t)]
      /\ thread' = [thread EXCEPT ![c][t] = Resting(t)]
      /\ UNCHANGED <<up, client, sessions, index, active, freed, closed, buffer, changes,
                     owed, events, backup>>
  BY DEF MainStarts, MainAt, MainGoes
<1>2. c \in Clients /\ Locked
  BY <1>1 DEF IndInv, MainBusy, Locked
<1>3. Following(t) \in {"send", "receive", "publish"}
  BY DEF Following
<1>4. /\ Resting(t) \in ThreadState
      /\ Resting(t).at = IF t = "interface" THEN "reading" ELSE "loop"
  BY RestingTyped
<1>5. /\ \A d \in Clients, u \in Threads : d # c \/ u # t => thread'[d][u] = thread[d][u]
      /\ thread'[c][t] = Resting(t)
  BY <1>1, <1>2 DEF IndInv, TypeOK
<1>6. TypeOK'
  <2>1. thread' \in [Clients -> [Threads -> ThreadState]]
    BY <1>1, <1>2, <1>4 DEF IndInv, TypeOK, ThreadState
  <2>2. main' \in [at : MainPlaces, client : Clients \cup {None}]
    BY <1>1, <1>3 DEF IndInv, TypeOK, MainPlaces
  <2> QED BY <1>1, <2>1, <2>2 DEF IndInv, TypeOK, ThreadState, backup
<1>7. main'.client = c /\ main'.at \in {"send", "receive", "publish"}
  BY <1>1, <1>3 DEF IndInv, TypeOK
<1>8. Fresh'
  BY <1>1, <1>2, <1>5 DEF IndInv, Fresh, MainBusy
<1>9. \A d \in Clients :
         thread'[d]["interface"].at \in Ended =>
            thread'[d]["interface"] = thread[d]["interface"]
  BY <1>4, <1>5 DEF Ended
<1>10. Unlinked \subseteq Ended /\ Joined \subseteq Ended
  BY DEF Unlinked, Joined, Ended
<1>11. MainBusy'
  BY <1>1, <1>2, <1>7, <1>9, <1>10 DEF IndInv, MainBusy
<1>12. SlotsLinked'
  BY <1>1, <1>9, <1>10 DEF IndInv, TypeOK, SlotsLinked
<1>13. FreedAtLast'
  <2> SUFFICES ASSUME NEW d \in Clients, freed[d]
               PROVE  thread'[d]["interface"].at = "done"
    BY <1>1 DEF FreedAtLast
  <2>1. d # c
    BY <1>2 DEF IndInv, MainBusy
  <2> QED BY <1>5, <2>1 DEF IndInv, FreedAtLast
<1>14. EndedInactive'
  <2> SUFFICES ASSUME NEW d \in Clients
               PROVE  /\ thread'[d]["interface"].at \in Ended => ~active[d]
                      /\ thread'[d]["interface"].at \in Joined => thread'[d]["receive"].at \in Idle
                      /\ thread'[d]["send"].at \in Idle
    BY <1>1 DEF EndedInactive
  <2> QED BY <1>4, <1>5, <1>9, <1>10 DEF IndInv, EndedInactive, Idle
<1>15. AddsInSlots'
  BY <1>4, <1>5 DEF IndInv, AddsInSlots
<1> QED BY <1>6, <1>8, <1>11, <1>12, <1>13, <1>14, <1>15 DEF IndInv

LEMMA PublishKeeps ==
    ASSUME IndInv, MainPublishes
    PROVE  IndInv'
<1> DEFINE c == main.client
<1>1. /\ Locked
      /\ sessions' = [sessions EXCEPT ![index[c]] = c]
      /\ main' = [at |-> "accepting", client |-> None]
      /\ UNCHANGED <<up, client, index, active, freed, closed, buffer, thread, changes, owed,
                     events, backup>>
  BY DEF MainPublishes, MainAt, Locked
<1>2. /\ c \in Clients
      /\ client[c] \notin {"knocking", "answered"}
      /\ \A i \in Slots : sessions[i] # c
      /\ ~freed[c]
      /\ thread[c]["interface"].at \notin Unlinked
  BY <1>1 DEF IndInv, MainBusy, Locked
<1>3. index[c] \in Slots
  BY <1>2 DEF IndInv, TypeOK
<1>4. TypeOK'
  BY <1>1, <1>2, <1>3 DEF IndInv, TypeOK, MainPlaces, backup
<1>5. Fresh'
  BY <1>1, <1>2, <1>3 DEF IndInv, TypeOK, Fresh
<1>6. MainBusy'
  BY <1>1 DEF MainBusy, Locked
<1>7. SlotsLinked'
  BY <1>1, <1>2, <1>3 DEF IndInv, TypeOK, SlotsLinked
<1>8. FreedAtLast' /\ EndedInactive' /\ AddsInSlots'
  BY <1>1 DEF IndInv, FreedAtLast, EndedInactive, AddsInSlots
<1> QED BY <1>4, <1>5, <1>6, <1>7, <1>8 DEF IndInv

-----------------------------------------------------------------------------
(* Walks.                                                                   *)

LEMMA OwedTyped ==
    ASSUME TypeOK, NEW c \in Clients, NEW t \in Changers, Walks(c, t)
    PROVE  owed' \in [Clients -> [Changers -> SUBSET Clients]]
BY DEF TypeOK, Walks

(* A thread in a walk is in the middle of its life.                         *)
LEMMA WalkMoves ==
    ASSUME IndInv, DataTyped', NEW c \in Clients, NEW t \in Changers, NEW v \in ThreadState,
           thread' = [thread EXCEPT ![c][t] = v],
           thread[c][t].at \in {"fan", "add", "event", "reading", "chunk", "call"},
           v.at \notin Ended,
           v.at = "add" => v.slot \in Slots,
           UNCHANGED <<client, main, sessions, index, active, freed>>
    PROVE  IndInv'
<1>1. t \in Threads /\ t # "send"
  BY DEF Threads, Changers
<1>2. /\ thread[c][t].at # "none"
      /\ thread[c][t].at \notin Ended
      /\ thread[c][t].at \notin Idle
  BY DEF Ended, Idle
<1> QED BY <1>1, <1>2, ThreadMoves

LEMMA FanKeeps ==
    ASSUME IndInv, NEW c \in Clients, NEW t \in Changers, FanStep(c, t)
    PROVE  IndInv'
<1>1. thread[c][t] \in ThreadState /\ t \in Threads
  BY DEF IndInv, TypeOK, ThreadState, Changers, Threads
<1>2. CASE FanLooks(c, t)
  <2> DEFINE i == thread[c][t].slot
             v == IF i > LastSlot THEN Place("event")
                  ELSE IF i = index[c] \/ sessions[i] = None
                       THEN [thread[c][t] EXCEPT !.slot = i + 1]
                       ELSE [thread[c][t] EXCEPT !.at = "add"]
  <2>1. /\ thread[c][t].at = "fan"
        /\ thread' = [thread EXCEPT ![c][t] = v]
        /\ UNCHANGED <<up, client, main, sessions, index, active, freed, closed, buffer,
                       changes, owed, events, backup>>
    BY <1>2, <1>1 DEF FanLooks, At, IndInv, TypeOK
  <2>2. DataTyped'
    BY <2>1, DataStill DEF IndInv, Data
  <2>3. v \in ThreadState /\ v.at \notin Ended /\ (v.at = "add" => v.slot \in Slots)
    <3>1. CASE i > LastSlot
      BY <3>1, PlaceTyped DEF Places, Ended
    <3>2. CASE ~(i > LastSlot)
      <4>1. i \in Slots /\ i + 1 \in 1 .. MAX_SESSIONS + 1
        BY <1>1, <3>2, SlotsAssumption DEF LastSlot, Slots, ThreadState
      <4>2. CASE i = index[c] \/ sessions[i] = None
        BY <1>1, <2>1, <3>2, <4>1, <4>2 DEF ThreadState, Ended
      <4>3. CASE ~(i = index[c] \/ sessions[i] = None)
        <5>1. v = [thread[c][t] EXCEPT !.at = "add"]
          BY <3>2, <4>3
        <5>2. "add" \in Places /\ "add" \notin Ended
          BY DEF Places, Ended
        <5> QED BY <1>1, <4>1, <5>1, <5>2 DEF ThreadState
      <4> QED BY <4>2, <4>3
    <3> QED BY <3>1, <3>2
  <2> HIDE DEF v
  <2> QED BY <2>1, <2>2, <2>3, WalkMoves
<1>3. CASE FanLooksAgain(c, t)
  <2> DEFINE i == thread[c][t].slot
  <2>1. CASE Dies
    BY <2>1, DiesKeeps
  <2>2. CASE ~Dies
    <3>1. /\ thread[c][t].at = "add"
          /\ thread' = [thread EXCEPT ![c][t].to = sessions[i]]
          /\ UNCHANGED <<up, client, main, sessions, index, active, freed, closed, buffer,
                         changes, owed, events, backup>>
      BY <1>3, <2>2 DEF FanLooksAgain, At
    <3>2. i \in Slots /\ sessions[i] \in Clients \cup {None}
      BY <1>1, <3>1 DEF IndInv, TypeOK, AddsInSlots
    <3> DEFINE v == [thread[c][t] EXCEPT !.to = sessions[i]]
    <3>3. v \in ThreadState /\ v.at = "add" /\ v.slot = i
      BY <1>1, <3>1, <3>2 DEF ThreadState
    <3>4. thread' = [thread EXCEPT ![c][t] = v]
      BY <1>1, <3>1 DEF IndInv, TypeOK
    <3>5. DataTyped'
      BY <3>1, DataStill DEF IndInv, Data
    <3>6. v.at \notin Ended
      BY <3>3 DEF Ended
    <3> HIDE DEF v
    <3> QED BY <3>1, <3>2, <3>3, <3>4, <3>5, <3>6, WalkMoves
  <2> QED BY <2>1, <2>2
<1>4. ASSUME thread[c][t].at = "add",
             thread' = [thread EXCEPT ![c][t] = Onward(c, t)],
             DataTyped',
             UNCHANGED <<client, main, sessions, index, active, freed>>
      PROVE  IndInv'
  <2> DEFINE i == thread[c][t].slot
  <2>1. i \in Slots
    BY <1>1, <1>4 DEF IndInv, AddsInSlots
  <2>2. i + 1 \in 1 .. MAX_SESSIONS + 1
    BY <2>1, SlotsAssumption DEF Slots
  <2>3. Onward(c, t) \in ThreadState /\ Onward(c, t).at = "fan"
    BY <2>2 DEF Onward, ThreadState, Places
  <2>4. Onward(c, t).at \notin Ended
    BY <2>3 DEF Ended
  <2> QED BY <1>4, <2>3, <2>4, WalkMoves
<1>5. CASE FanAdds(c, t)
  <2> DEFINE d == thread[c][t].to
  <2>1. d \in Clients
    BY <1>1, <1>5 DEF FanAdds, ThreadState
  <2>2. buffer' \in [Clients -> Seq(Clients)]
    BY <1>5, <2>1 DEF FanAdds, IndInv, TypeOK
  <2>3. owed' \in [Clients -> [Changers -> SUBSET Clients]]
    BY <1>5, <2>1 DEF FanAdds, IndInv, TypeOK
  <2>4. DataTyped'
    BY <1>5, <2>2, <2>3 DEF FanAdds, IndInv, TypeOK, DataTyped, backup
  <2> QED BY <1>4, <1>5, <2>4 DEF FanAdds, At
<1>6. CASE FanAddsToFreed(c, t)
  <2>1. CASE Dies
    BY <2>1, DiesKeeps
  <2>2. CASE ~Dies
    <3>1. DataTyped'
      BY <1>6, <2>2, DataStill DEF FanAddsToFreed, IndInv, Data
    <3> QED BY <1>4, <1>6, <2>2, <3>1 DEF FanAddsToFreed, At
  <2> QED BY <2>1, <2>2
<1>7. CASE FileEvent(c, t)
  <2>1. events' \in Seq(Events)
    BY <1>7, TellTyped DEF FileEvent, IndInv
  <2>2. DataTyped'
    BY <1>7, <2>1 DEF FileEvent, IndInv, TypeOK, DataTyped, backup
  <2>3. /\ Resting(t) \in ThreadState
        /\ Resting(t).at \in {"reading", "loop"}
    BY <1>1, RestingTyped
  <2>4. Resting(t).at \notin Ended /\ Resting(t).at # "add"
    BY <2>3 DEF Ended
  <2> QED BY <1>7, <2>2, <2>3, <2>4, WalkMoves DEF FileEvent, At
<1> QED BY <1>2, <1>3, <1>5, <1>6, <1>7 DEF FanStep

-----------------------------------------------------------------------------
(* The interface thread.                                                    *)

LEMMA DeletesKeeps ==
    ASSUME IndInv, NEW c \in Clients, InterfaceDeletes(c)
    PROVE  IndInv'
<1>1. changes' \in 0 .. MaxChanges
  BY BoundsAssumption DEF InterfaceDeletes, IndInv, TypeOK
<1>2. \E p \in {"fan", "event"} :
         /\ thread' = [thread EXCEPT ![c]["interface"] = Place(p)]
         /\ owed' \in [Clients -> [Changers -> SUBSET Clients]]
  <2>1. CASE Walks(c, "interface")
    BY <2>1, OwedTyped DEF Walks, Goes, IndInv, Changers
  <2>2. CASE ~Walks(c, "interface")
    BY <2>2 DEF InterfaceDeletes, Goes, IndInv, TypeOK
  <2> QED BY <2>1, <2>2
<1>3. PICK p \in {"fan", "event"} :
         /\ thread' = [thread EXCEPT ![c]["interface"] = Place(p)]
         /\ owed' \in [Clients -> [Changers -> SUBSET Clients]]
  BY <1>2
<1>4. DataTyped'
  BY <1>1, <1>3 DEF InterfaceDeletes, IndInv, TypeOK, DataTyped, backup
<1>5. /\ Place(p) \in ThreadState /\ Place(p).at = p
      /\ p \notin Ended /\ p # "add"
  BY PlaceTyped DEF Places, Ended
<1>6. /\ thread[c]["interface"].at = "reading"
      /\ UNCHANGED <<client, main, sessions, index, active, freed>>
      /\ "interface" \in Changers
  BY DEF InterfaceDeletes, At, Changers
<1> QED BY <1>3, <1>4, <1>5, <1>6, WalkMoves

(* The interface thread goes on towards its end.                            *)
LEMMA EndMoves ==
    ASSUME IndInv, DataTyped', NEW c \in Clients, NEW p \in Ended \ Unlinked,
           Goes(c, "interface", p),
           thread[c]["interface"].at \notin Unlinked \cup {"none"},
           ~active'[c],
           \A d \in Clients : active'[d] => active[d],
           active' \in [Clients -> BOOLEAN],
           p \in Joined => thread[c]["receive"].at \in Idle,
           UNCHANGED <<client, main, sessions, index, freed>>
    PROVE  IndInv'
<1>1. Place(p) \in ThreadState /\ Place(p).at = p
  BY PlaceTyped DEF Places, Ended
<1>2. /\ thread' \in [Clients -> [Threads -> ThreadState]]
      /\ \A d \in Clients, u \in Threads :
            d # c \/ u # "interface" => thread'[d][u] = thread[d][u]
      /\ thread'[c]["interface"] = Place(p)
  BY <1>1 DEF Goes, IndInv, TypeOK, ThreadState, Threads
<1>3. TypeOK'
  BY <1>2 DEF IndInv, TypeOK, DataTyped, ThreadState
<1>4. Fresh'
  BY <1>2 DEF IndInv, Fresh, Threads
<1>5. MainBusy'
  BY <1>1, <1>2 DEF IndInv, MainBusy, Locked, Threads
<1>6. SlotsLinked'
  <2> SUFFICES ASSUME NEW i \in Slots, sessions[i] # None
               PROVE  /\ index[sessions[i]] = i
                      /\ ~freed[sessions[i]]
                      /\ thread'[sessions[i]]["interface"].at \notin Unlinked
    BY DEF SlotsLinked
  <2>1. sessions[i] \in Clients
    BY DEF IndInv, TypeOK
  <2>2. \/ thread'[sessions[i]]["interface"] = thread[sessions[i]]["interface"]
        \/ thread'[sessions[i]]["interface"].at = p
    BY <1>1, <1>2, <2>1 DEF Threads
  <2> QED BY <2>2 DEF IndInv, SlotsLinked
<1>7. FreedAtLast'
  BY <1>2 DEF IndInv, FreedAtLast, Threads, Unlinked
<1>8. EndedInactive'
  <2> SUFFICES ASSUME NEW d \in Clients
               PROVE  /\ thread'[d]["interface"].at \in Ended => ~active'[d]
                      /\ thread'[d]["interface"].at \in Joined => thread'[d]["receive"].at \in Idle
                      /\ thread'[d]["send"].at \in Idle
    BY DEF EndedInactive
  <2>1. /\ thread'[d]["receive"] = thread[d]["receive"]
        /\ thread'[d]["send"] = thread[d]["send"]
        /\ d # c => thread'[d]["interface"] = thread[d]["interface"]
    BY <1>2 DEF Threads
  <2>2. CASE d = c
    BY <1>1, <1>2, <2>1, <2>2 DEF IndInv, EndedInactive
  <2>3. CASE d # c
    BY <2>1, <2>3 DEF IndInv, EndedInactive
  <2> QED BY <2>2, <2>3
<1>9. AddsInSlots'
  BY <1>1, <1>2 DEF IndInv, AddsInSlots, Ended
<1> QED BY <1>3, <1>4, <1>5, <1>6, <1>7, <1>8, <1>9 DEF IndInv

LEMMA ExitKeeps ==
    ASSUME IndInv, NEW c \in Clients,
           \/ InterfaceExits(c)
           \/ InterfaceReset(c)
           \/ InterfaceCloses(c)
    PROVE  IndInv'
<1> USE DEF Ended, Unlinked, Joined
<1>1. CASE InterfaceExits(c)
  <2>1. DataTyped'
    BY <1>1, DataStill DEF InterfaceExits, IndInv, Data
  <2>2. /\ active' \in [Clients -> BOOLEAN] /\ ~active'[c]
        /\ \A d \in Clients : active'[d] => active[d]
    BY <1>1 DEF InterfaceExits, IndInv, TypeOK
  <2> QED BY <1>1, <2>1, <2>2, EndMoves DEF InterfaceExits, At
<1>2. CASE InterfaceReset(c)
  BY <1>2, DiesKeeps DEF InterfaceReset
<1>3. CASE InterfaceCloses(c)
  <2>1. DataTyped'
    BY <1>3 DEF InterfaceCloses, IndInv, TypeOK, DataTyped, backup
  <2>2. ~active[c] /\ active' = active
    BY <1>3 DEF InterfaceCloses, At, IndInv, EndedInactive
  <2>3. active \in [Clients -> BOOLEAN]
    BY DEF IndInv, TypeOK
  <2> QED BY <1>3, <2>1, <2>2, <2>3, EndMoves DEF InterfaceCloses, At
<1> QED BY <1>1, <1>2, <1>3

LEMMA JoinKeeps ==
    ASSUME IndInv, NEW c \in Clients,
           \/ InterfaceJoinsReceive(c)
           \/ InterfaceJoinsSend(c)
           \/ InterfaceJoinsGarbage(c)
    PROVE  IndInv'
<1> USE DEF Ended, Unlinked, Joined
<1>1. ASSUME NEW t \in {"receive", "send"}, NEW p \in {"join send", "unlink"},
             InterfaceJoins(c, t, p),
             thread[c]["interface"].at \in Ended \ Unlinked,
             thread[c]["receive"].at \in Idle
      PROVE  IndInv'
  <2>1. DataTyped'
    BY <1>1, DataStill DEF InterfaceJoins, IndInv, Data
  <2>2. ~active[c] /\ active \in [Clients -> BOOLEAN]
    BY <1>1 DEF IndInv, TypeOK, EndedInactive
  <2>3. UNCHANGED <<client, main, sessions, index, active, freed>> /\ Goes(c, "interface", p)
    BY <1>1 DEF InterfaceJoins
  <2> QED BY <1>1, <2>1, <2>2, <2>3, EndMoves
<1>2. CASE InterfaceJoinsReceive(c)
  <2>1. thread[c]["receive"].at \in Idle /\ thread[c]["interface"].at = "join receive"
    BY <1>2 DEF InterfaceJoinsReceive, InterfaceJoins, Joinable, Idle, At
  <2> QED BY <1>1, <1>2, <2>1 DEF InterfaceJoinsReceive
<1>3. CASE InterfaceJoinsSend(c)
  <2>1. thread[c]["receive"].at \in Idle /\ thread[c]["interface"].at = "join send"
    BY <1>3 DEF InterfaceJoinsSend, At, IndInv, EndedInactive
  <2> QED BY <1>1, <1>3, <2>1 DEF InterfaceJoinsSend
<1>4. CASE InterfaceJoinsGarbage(c)
  BY <1>4, DiesKeeps DEF InterfaceJoinsGarbage
<1> QED BY <1>2, <1>3, <1>4

(* What follows the clearing of the slot: the thread is past it already or  *)
(* the session is in no slot and not being published.                       *)
LEMMA UnlinkedMoves ==
    ASSUME IndInv, DataTyped', NEW c \in Clients, NEW p \in Unlinked,
           Goes(c, "interface", p),
           thread[c]["interface"].at \in Joined \ {"done"},
           \A i \in Slots : sessions'[i] # c,
           Locked => main.client # c,
           \A i \in Slots : sessions'[i] \in {sessions[i], None},
           sessions' \in [Slots -> Clients \cup {None}],
           freed' \in [Clients -> BOOLEAN],
           \A d \in Clients \ {c} : freed'[d] = freed[d],
           freed'[c] => p = "done",
           UNCHANGED <<client, main, index, active>>
    PROVE  IndInv'
<1>1. Place(p) \in ThreadState /\ Place(p).at = p
  BY PlaceTyped DEF Places, Unlinked
<1>2. /\ thread' \in [Clients -> [Threads -> ThreadState]]
      /\ \A d \in Clients, u \in Threads :
            d # c \/ u # "interface" => thread'[d][u] = thread[d][u]
      /\ thread'[c]["interface"] = Place(p)
  BY <1>1 DEF Goes, IndInv, TypeOK, ThreadState, Threads
<1>3. \A d \in Clients : d # c => thread'[d]["interface"] = thread[d]["interface"]
  BY <1>2 DEF Threads
<1>4. TypeOK'
  BY <1>2 DEF IndInv, TypeOK, DataTyped, ThreadState
<1>5. Fresh'
  <2> SUFFICES ASSUME NEW d \in Clients, client[d] \in {"knocking", "answered"}
               PROVE  /\ thread'[d]["interface"].at = "none"
                      /\ ~freed'[d]
                      /\ \A i \in Slots : sessions'[i] # d
    BY DEF Fresh
  <2>1. /\ thread[d]["interface"].at = "none"
        /\ ~freed[d]
        /\ \A i \in Slots : sessions[i] # d
    BY DEF IndInv, Fresh
  <2>2. d # c
    BY <2>1 DEF Joined
  <2>3. d # None
    BY ClientsAssumption
  <2> QED BY <1>3, <2>1, <2>2, <2>3
<1>6. MainBusy'
  <2>1. main'.at # "accepting" => main'.client \in Clients
    BY DEF IndInv, MainBusy
  <2>2. ASSUME Locked
        PROVE  /\ client[main.client] \notin {"knocking", "answered"}
               /\ \A i \in Slots : sessions'[i] # main.client
               /\ ~freed'[main.client]
               /\ thread'[main.client]["interface"].at \notin Unlinked
    <3>1. main.client \in Clients /\ main.client # c /\ main.client # None
      BY <2>2, ClientsAssumption DEF IndInv, MainBusy, Locked
    <3> QED BY <1>3, <2>2, <3>1 DEF IndInv, MainBusy
  <2> QED BY <2>1, <2>2 DEF MainBusy, Locked
<1>7. SlotsLinked'
  <2> SUFFICES ASSUME NEW i \in Slots, sessions'[i] # None
               PROVE  /\ index[sessions'[i]] = i
                      /\ ~freed'[sessions'[i]]
                      /\ thread'[sessions'[i]]["interface"].at \notin Unlinked
    BY DEF SlotsLinked
  <2>1. sessions'[i] = sessions[i] /\ sessions[i] \in Clients \ {c}
    BY DEF IndInv, TypeOK
  <2> QED BY <1>3, <2>1 DEF IndInv, SlotsLinked
<1>8. FreedAtLast'
  BY <1>1, <1>2, <1>3 DEF IndInv, FreedAtLast
<1>9. EndedInactive'
  <2> SUFFICES ASSUME NEW d \in Clients
               PROVE  /\ thread'[d]["interface"].at \in Ended => ~active[d]
                      /\ thread'[d]["interface"].at \in Joined => thread'[d]["receive"].at \in Idle
                      /\ thread'[d]["send"].at \in Idle
    BY DEF EndedInactive
  <2>1. /\ thread'[d]["receive"] = thread[d]["receive"]
        /\ thread'[d]["send"] = thread[d]["send"]
    BY <1>2 DEF Threads
  <2>2. Joined \subseteq Ended
    BY DEF Joined, Ended
  <2> QED BY <1>3, <2>1, <2>2 DEF IndInv, EndedInactive
<1>10. AddsInSlots'
  BY <1>1, <1>2 DEF IndInv, AddsInSlots, Unlinked
<1> QED BY <1>4, <1>5, <1>6, <1>7, <1>8, <1>9, <1>10 DEF IndInv

LEMMA UnlinksKeeps ==
    ASSUME IndInv, NEW c \in Clients,
           \/ InterfaceUnlinks(c)
           \/ InterfaceNotifies(c)
           \/ InterfaceFrees(c)
    PROVE  IndInv'
<1> USE DEF Unlinked, Joined
<1>1. CASE InterfaceUnlinks(c)
  <2>1. owed' \in [Clients -> [Changers -> SUBSET Clients]]
    BY <1>1 DEF InterfaceUnlinks, Leaving, IndInv, TypeOK
  <2>2. DataTyped'
    BY <1>1, <2>1 DEF InterfaceUnlinks, IndInv, TypeOK, DataTyped, backup
  <2>3. /\ index[c] \in Slots
        /\ sessions' = [sessions EXCEPT ![index[c]] = None]
        /\ \A i \in Slots : sessions[i] = c => i = index[c]
    BY <1>1, ClientsAssumption DEF InterfaceUnlinks, IndInv, TypeOK, SlotsLinked
  <2>4. /\ \A i \in Slots : sessions'[i] # c
        /\ \A i \in Slots : sessions'[i] \in {sessions[i], None}
        /\ sessions' \in [Slots -> Clients \cup {None}]
    BY <2>3, ClientsAssumption DEF IndInv, TypeOK
  <2>5. /\ thread[c]["interface"].at = "unlink"
        /\ ~Locked
        /\ Goes(c, "interface", "notify")
        /\ UNCHANGED <<client, main, index, active, freed>>
    BY <1>1 DEF InterfaceUnlinks, At
  <2>6. ~freed[c] /\ freed \in [Clients -> BOOLEAN]
    BY <2>5 DEF IndInv, TypeOK, FreedAtLast
  <2> QED BY <2>2, <2>4, <2>5, <2>6, UnlinkedMoves
<1>2. ASSUME thread[c]["interface"].at \in {"notify", "free"}
      PROVE  /\ \A i \in Slots : sessions[i] # c
             /\ Locked => main.client # c
             /\ ~freed[c]
             /\ sessions \in [Slots -> Clients \cup {None}]
             /\ freed \in [Clients -> BOOLEAN]
  BY <1>2, ClientsAssumption DEF IndInv, TypeOK, SlotsLinked, MainBusy, FreedAtLast
<1>3. CASE InterfaceNotifies(c)
  <2>1. events' \in Seq(Events)
    BY <1>3, TellTyped DEF InterfaceNotifies, IndInv
  <2>2. DataTyped'
    BY <1>3, <2>1 DEF InterfaceNotifies, IndInv, TypeOK, DataTyped, backup
  <2>3. /\ thread[c]["interface"].at = "notify"
        /\ Goes(c, "interface", "free")
        /\ UNCHANGED <<client, main, sessions, index, active, freed>>
    BY <1>3 DEF InterfaceNotifies, At
  <2> QED BY <1>2, <2>2, <2>3, UnlinkedMoves
<1>4. CASE InterfaceFrees(c)
  <2>1. DataTyped'
    BY <1>4, DataStill DEF InterfaceFrees, IndInv, Data
  <2>2. /\ thread[c]["interface"].at = "free"
        /\ Goes(c, "interface", "done")
        /\ freed' = [freed EXCEPT ![c] = TRUE]
        /\ UNCHANGED <<client, main, sessions, index, active>>
    BY <1>4 DEF InterfaceFrees, At
  <2>3. freed' \in [Clients -> BOOLEAN] /\ \A d \in Clients \ {c} : freed'[d] = freed[d]
    BY <1>2, <2>2
  <2> QED BY <1>2, <2>1, <2>2, <2>3, UnlinkedMoves
<1> QED BY <1>1, <1>3, <1>4

LEMMA InterfaceKeeps ==
    ASSUME IndInv, NEW c \in Clients, InterfaceStep(c)
    PROVE  IndInv'
BY ExitKeeps, JoinKeeps, UnlinksKeeps DEF InterfaceStep

-----------------------------------------------------------------------------
(* The sending and the receiving thread.                                    *)

LEMMA SendKeeps ==
    ASSUME IndInv, NEW c \in Clients, SendStep(c)
    PROVE  IndInv'
<1>1. CASE Sends(c)
  <2>1. buffer' \in [Clients -> Seq(Clients)]
    BY <1>1 DEF Sends, IndInv, TypeOK
  <2>2. DataTyped'
    BY <1>1, <2>1 DEF Sends, IndInv, TypeOK, DataTyped, backup
  <2>3. client \in [Clients -> ClientPlaces]
    BY DEF IndInv, TypeOK
  <2> QED BY <1>1, <2>2, <2>3, ThreadsStill DEF Sends
<1>2. CASE SendStops(c)
  <2>1. DataTyped'
    BY <1>2, DataStill DEF SendStops, IndInv, Data
  <2>2. Place("done") \in ThreadState /\ Place("done").at = "done"
    BY PlaceTyped DEF Places
  <2> QED BY <1>2, <2>1, <2>2, ThreadMoves DEF SendStops, At, Goes, Threads, Idle
<1> QED BY <1>1, <1>2 DEF SendStep

LEMMA ReceiveKeeps ==
    ASSUME IndInv, NEW c \in Clients, ReceiveBegins(c) \/ ReceiveStep(c)
    PROVE  IndInv'
<1> DEFINE place == thread[c]["receive"].at
<1>1. ASSUME NEW p \in Places \ {"add"}, Goes(c, "receive", p), DataTyped',
             place # "none",
             place \notin Idle \/ p \in Idle \/ active[c],
             UNCHANGED <<client, main, sessions, index, active, freed>>
      PROVE  IndInv'
  <2>1. Place(p) \in ThreadState /\ Place(p).at = p
    BY PlaceTyped
  <2> QED BY <1>1, <2>1, ThreadMoves DEF Goes, Threads
<1>2. CASE ReceiveLoop(c)
  <2>1. DataTyped'
    BY <1>2, DataStill DEF ReceiveLoop, IndInv, Data
  <2>2. place = "loop"
    BY <1>2 DEF ReceiveLoop, At
  <2>3. CASE active[c]
    BY <1>1, <1>2, <2>1, <2>2, <2>3 DEF ReceiveLoop, Places
  <2>4. CASE ~active[c]
    BY <1>1, <1>2, <2>1, <2>2, <2>4 DEF ReceiveLoop, Places, Idle
  <2> QED BY <2>3, <2>4
<1>3. CASE ReceiveCalls(c)
  <2>1. CASE closed[c]
    BY <1>3, <2>1, DiesKeeps DEF ReceiveCalls
  <2>2. CASE ~closed[c]
    <3>1. DataTyped'
      BY <1>3, <2>2, DataStill DEF ReceiveCalls, IndInv, Data
    <3> QED BY <1>1, <1>3, <2>2, <3>1 DEF ReceiveCalls, At, Idle, Places
  <2> QED BY <2>1, <2>2
<1>4. CASE ReceiveBegins(c)
  <2>1. changes' \in 0 .. MaxChanges
    BY <1>4, BoundsAssumption DEF ReceiveBegins, IndInv, TypeOK
  <2>2. DataTyped'
    BY <1>4, <2>1 DEF ReceiveBegins, IndInv, TypeOK, DataTyped, backup
  <2> QED BY <1>1, <1>4, <2>2 DEF ReceiveBegins, At, Idle, Places
<1>5. CASE ReceiveEnds(c)
  <2>1. DataTyped'
    BY <1>5, DataStill DEF ReceiveEnds, IndInv, Data
  <2> QED BY <1>1, <1>5, <2>1 DEF ReceiveEnds, At, Idle, Places
<1>6. CASE ReceiveFails(c)
  BY <1>6, DiesKeeps DEF ReceiveFails
<1>7. CASE ReceiveFile(c)
  <2>1. "receive" \in Changers
    BY DEF Changers
  <2>2. \E p \in {"fan", "event"} :
           /\ Goes(c, "receive", p)
           /\ owed' \in [Clients -> [Changers -> SUBSET Clients]]
    <3>1. CASE Walks(c, "receive")
      BY <2>1, <3>1, OwedTyped DEF Walks, IndInv
    <3>2. CASE ~Walks(c, "receive")
      BY <1>7, <3>2 DEF ReceiveFile, IndInv, TypeOK
    <3> QED BY <3>1, <3>2
  <2>3. DataTyped'
    BY <1>7, <2>2 DEF ReceiveFile, IndInv, TypeOK, DataTyped, backup
  <2> QED BY <1>1, <1>7, <2>2, <2>3 DEF ReceiveFile, At, Idle, Places
<1> QED BY <1>2, <1>3, <1>4, <1>5, <1>6, <1>7 DEF ReceiveStep

LEMMA BackupKeeps ==
    ASSUME IndInv, NEW c \in Clients, BackupStep(c)
    PROVE  IndInv'
<1>1. events' \in Seq(Events)
  <2>1. events # <<>> /\ events' = Tail(events)
    BY DEF BackupStep, BackupConnected, BackupFile, BackupDisconnected, BackupDies, Received
  <2> QED BY <2>1 DEF IndInv, TypeOK
<1>2. UNCHANGED <<up, client, manager>>
  BY DEF BackupStep, BackupConnected, BackupFile, BackupDisconnected, BackupDies
<1>3. backup_up' \in BOOLEAN
  BY DEF BackupStep, BackupConnected, BackupFile, BackupDisconnected, BackupDies, backup,
         IndInv, TypeOK
<1>4. backup_sessions' \in [Slots -> Clients \cup {None}]
  <2>1. CASE BackupConnected(c)
    <3>1. FirstFree(backup_sessions) \subseteq Slots
      BY DEF FirstFree, Free
    <3> QED BY <2>1, <3>1 DEF BackupConnected, IndInv, TypeOK
  <2>2. CASE BackupDisconnected(c)
    BY <2>2 DEF BackupDisconnected, Without, IndInv, TypeOK
  <2>3. CASE BackupFile(c) \/ BackupDies(c)
    BY <2>3 DEF BackupFile, BackupDies, backup, IndInv, TypeOK
  <2> QED BY <2>1, <2>2, <2>3 DEF BackupStep
<1>5. DataTyped'
  <2>1. UNCHANGED <<up, closed, buffer, changes, owed>>
    BY <1>2 DEF manager
  <2> QED BY <1>1, <1>3, <1>4, <2>1 DEF IndInv, TypeOK, DataTyped
<1>6. client' = client /\ client \in [Clients -> ClientPlaces]
  BY <1>2 DEF IndInv, TypeOK
<1> QED BY <1>2, <1>5, <1>6, ThreadsStill DEF manager

-----------------------------------------------------------------------------
LEMMA InitHolds == Init => IndInv
<1> SUFFICES ASSUME Init PROVE IndInv
  OBVIOUS
<1>1. Place("none") \in ThreadState /\ Place("none").at = "none"
  BY PlaceTyped DEF Places
<1>2. TypeOK
  BY <1>1, SlotsAssumption, BoundsAssumption
  DEF Init, TypeOK, ThreadState, Slots, ClientPlaces, MainPlaces
<1>3. Fresh
  BY <1>1, ClientsAssumption DEF Init, Fresh, Threads
<1>4. MainBusy
  BY DEF Init, MainBusy, Locked
<1>5. SlotsLinked /\ FreedAtLast
  BY DEF Init, SlotsLinked, FreedAtLast
<1>6. EndedInactive /\ AddsInSlots
  BY <1>1 DEF Init, EndedInactive, AddsInSlots, Threads, Ended, Joined, Idle
<1> QED BY <1>2, <1>3, <1>4, <1>5, <1>6 DEF IndInv

LEMMA StepKeeps == IndInv /\ [Next]_vars => IndInv'
<1> SUFFICES ASSUME IndInv, [Next]_vars PROVE IndInv'
  OBVIOUS
<1>1. ASSUME NEW c \in Clients,
             ClientExits(c) \/ ClientEnds(c) \/ ClientDies(c)
      PROVE  IndInv'
  BY <1>1, ClientKeeps
<1>2. ASSUME NEW c \in Clients, InterfaceDeletes(c) \/ InterfaceStep(c)
      PROVE  IndInv'
  BY <1>2, DeletesKeeps, InterfaceKeeps
<1>3. ASSUME NEW c \in Clients, SendStep(c) \/ ReceiveBegins(c) \/ ReceiveStep(c)
      PROVE  IndInv'
  BY <1>3, SendKeeps, ReceiveKeeps
<1>4. ASSUME NEW c \in Clients, NEW t \in Changers, FanStep(c, t)
      PROVE  IndInv'
  BY <1>4, FanKeeps
<1>5. ASSUME NEW c \in Clients, NEW t \in {"receive", "send"}, OwnSessionFreed(c, t)
      PROVE  IndInv'
  BY <1>5, DiesKeeps DEF OwnSessionFreed
<1>6. ASSUME NEW c \in Clients, BackupStep(c)
      PROVE  IndInv'
  BY <1>6, BackupKeeps
<1>7. CASE MainStep
  BY <1>7, AcceptKeeps, CreateKeeps, StartKeeps, PublishKeeps DEF MainStep
<1>8. CASE UNCHANGED vars
  <2>1. DataTyped' /\ UNCHANGED <<client, main, sessions, index, active, freed, thread>>
    BY <1>8, DataStill DEF vars, manager, backup, Data, IndInv
  <2>2. client \in [Clients -> ClientPlaces]
    BY DEF IndInv, TypeOK
  <2> QED BY <2>1, <2>2, ThreadsStill
<1> QED BY <1>1, <1>2, <1>3, <1>4, <1>5, <1>6, <1>7, <1>8 DEF Next

THEOREM Invariance == Spec => []IndInv
BY InitHolds, StepKeeps, PTL DEF Spec

(* Every variable keeps its type, for any number of devices and slots.      *)
THEOREM TypeCorrect == Spec => []TypeOK
<1>1. IndInv => TypeOK
  BY DEF IndInv
<1> QED BY <1>1, Invariance, PTL

(* Whoever finds a session in a slot finds one that has not been freed and  *)
(* that is in this slot (server.c:91, 544-549, 565).                        *)
THEOREM SlotsHoldLiveSessions == Spec => []SlotsLive
<1>1. IndInv => SlotsLive
  BY DEF IndInv, SlotsLinked, SlotsLive
<1> QED BY <1>1, Invariance, PTL

(* A session that is freed has no thread at work, though the join may have  *)
(* been of a thread not created yet (server.c:85-91, 539-541, 565).         *)
THEOREM FreedSessionsIdle == Spec => []FreedIdle
<1>1. IndInv => FreedIdle
  BY DEF IndInv, FreedAtLast, EndedInactive, FreedIdle, Ended, Joined, Idle
<1> QED BY <1>1, Invariance, PTL

-----------------------------------------------------------------------------
(* Walks reach everyone.  A session that a walk still owes the change to is *)
(* in a slot that the walk has not passed; the walk skips a slot when it is *)
(* empty, or when it is its own, and nobody else is ever in that one.       *)

(* A session with its interface thread at work is in its slot, or about to  *)
(* be put there.                                                            *)
InOwnSlot ==
    /\ \A c \in Clients :
          thread[c]["interface"].at \notin {"none"} \cup Unlinked =>
             sessions[index[c]] = c \/ (Locked /\ main.client = c)
    /\ \A c \in Clients :
          thread[c]["receive"].at # "none" => thread[c]["interface"].at # "none"
    /\ Locked => sessions[index[main.client]] = None
    /\ main.at \in {"send", "receive", "publish"} =>
          thread[main.client]["interface"].at # "none"
    /\ main.at \in {"interface", "send", "receive"} =>
          thread[main.client]["receive"].at = "none"
    /\ main.at = "interface" => thread[main.client]["interface"].at = "none"

Ahead(c, t, d) ==
    \E i \in Slots :
       /\ sessions[i] = d
       /\ thread[c][t].slot <= i
       /\ thread[c][t].to # None /\ thread[c][t].slot = i => thread[c][t].to = d

OwedAhead ==
    \A c \in Clients, t \in Changers :
       /\ thread[c][t].at # "add" => thread[c][t].to = None
       /\ \A d \in owed[c][t] :
             thread[c][t].at \in {"fan", "add"} /\ d # c /\ Ahead(c, t, d)

TellInv == IndInv /\ InOwnSlot /\ OwedAhead

(* A thread that changes files walks past its own slot only.                *)
LEMMA OwnSlot ==
    ASSUME TellInv, NEW c \in Clients, NEW t \in Changers,
           thread[c][t].at \in {"fan", "add"}
    PROVE  sessions[index[c]] \in {c, None}
<1>1. thread[c]["interface"].at \notin {"none"} \cup Unlinked
  <2>1. CASE t = "interface"
    BY <2>1 DEF Unlinked
  <2>2. CASE t = "receive"
    BY <2>2 DEF TellInv, InOwnSlot, IndInv, EndedInactive, Idle, Joined, Unlinked
  <2> QED BY <2>1, <2>2 DEF Changers
<1> QED BY <1>1 DEF TellInv, InOwnSlot

(* Neither slots nor walks are concerned.                                   *)
LEMMA TellStill ==
    ASSUME TellInv, IndInv', UNCHANGED <<sessions, index, owed, thread>>,
           main' = main \/ (~Locked /\ ~Locked')
    PROVE  TellInv'
<1>1. CASE main' = main
  BY <1>1 DEF TellInv, InOwnSlot, OwedAhead, Ahead, Locked
<1>2. CASE ~Locked /\ ~Locked'
  <2>1. InOwnSlot'
    BY <1>2 DEF TellInv, InOwnSlot, Locked
  <2> QED BY <2>1 DEF TellInv, OwedAhead, Ahead
<1> QED BY <1>1, <1>2

(* A thread moves that is not in a walk, and does not start one.            *)
LEMMA TellMoves ==
    ASSUME TellInv, IndInv', NEW c \in Clients, NEW t \in Threads, NEW p \in Places,
           Goes(c, t, p),
           p \notin {"none", "fan", "add"},
           thread[c][t].at \notin {"none", "fan", "add"},
           t = "interface" /\ p \notin Unlinked => thread[c][t].at \notin Unlinked,
           UNCHANGED <<main, sessions, index, owed>>
    PROVE  TellInv'
<1>1. /\ \A d \in Clients, u \in Threads : d # c \/ u # t => thread'[d][u] = thread[d][u]
      /\ thread'[c][t] = Place(p)
      /\ Place(p).at = p /\ Place(p).to = None
  BY DEF Goes, TellInv, IndInv, TypeOK, Place
<1>2. \A d \in Clients :
         /\ thread'[d]["receive"].at = "none" <=> thread[d]["receive"].at = "none"
         /\ thread'[d]["interface"].at = "none" <=> thread[d]["interface"].at = "none"
         /\ thread'[d]["interface"].at \notin Unlinked => thread[d]["interface"].at \notin Unlinked
  BY <1>1 DEF Threads
<1>3. InOwnSlot'
  <2>1. \A d \in Clients :
           thread'[d]["interface"].at \notin {"none"} \cup Unlinked =>
              sessions[index[d]] = d \/ (Locked /\ main.client = d)
    BY <1>2 DEF TellInv, InOwnSlot
  <2>2. /\ main.at \in {"send", "receive", "publish"} =>
              thread'[main.client]["interface"].at # "none"
        /\ main.at \in {"interface", "send", "receive"} =>
              thread'[main.client]["receive"].at = "none"
        /\ main.at = "interface" => thread'[main.client]["interface"].at = "none"
    BY <1>2 DEF TellInv, InOwnSlot, IndInv, MainBusy
  <2> QED BY <1>2, <2>1, <2>2 DEF TellInv, InOwnSlot, Locked
<1>4. OwedAhead'
  <2> SUFFICES ASSUME NEW d \in Clients, NEW u \in Changers
               PROVE  /\ thread'[d][u].at # "add" => thread'[d][u].to = None
                      /\ \A e \in owed[d][u] :
                            thread'[d][u].at \in {"fan", "add"} /\ e # d /\ Ahead(d, u, e)'
    BY DEF OwedAhead
  <2>1. u \in Threads
    BY DEF Changers, Threads
  <2>2. CASE d = c /\ u = t
    BY <1>1, <2>2 DEF TellInv, OwedAhead
  <2>3. CASE ~(d = c /\ u = t)
    <3>1. thread'[d][u] = thread[d][u]
      BY <1>1, <2>1, <2>3
    <3> QED BY <3>1 DEF TellInv, OwedAhead, Ahead
  <2> QED BY <2>2, <2>3
<1> QED BY <1>3, <1>4 DEF TellInv

LEMMA TellWalks ==
    ASSUME TellInv, IndInv', NEW c \in Clients, NEW t \in Changers,
           Walks(c, t),
           thread[c][t].at \in {"reading", "chunk"},
           UNCHANGED <<main, sessions, index>>
    PROVE  TellInv'
<1> DEFINE others == {d \in Clients \ {c} : \E i \in Slots : sessions[i] = d}
<1>1. t \in Threads
  BY DEF Changers, Threads
<1>2. /\ \A d \in Clients, u \in Threads : d # c \/ u # t => thread'[d][u] = thread[d][u]
      /\ thread'[c][t] = Place("fan")
      /\ Place("fan").at = "fan" /\ Place("fan").to = None /\ Place("fan").slot = 1
  BY <1>1 DEF Walks, Goes, TellInv, IndInv, TypeOK, Place
<1>3. /\ \A d \in Clients, u \in Changers : d # c \/ u # t => owed'[d][u] = owed[d][u]
      /\ owed'[c][t] = others
  BY DEF Walks, TellInv, IndInv, TypeOK
<1>4. InOwnSlot'
  <2>1. \A d \in Clients :
           /\ thread'[d]["receive"].at = "none" <=> thread[d]["receive"].at = "none"
           /\ thread'[d]["interface"].at = "none" <=> thread[d]["interface"].at = "none"
           /\ thread'[d]["interface"].at \in Unlinked <=> thread[d]["interface"].at \in Unlinked
    BY <1>1, <1>2 DEF Threads, Unlinked
  <2>2. /\ main.at \in {"send", "receive", "publish"} =>
              thread'[main.client]["interface"].at # "none"
        /\ main.at \in {"interface", "send", "receive"} =>
              thread'[main.client]["receive"].at = "none"
        /\ main.at = "interface" => thread'[main.client]["interface"].at = "none"
    BY <2>1 DEF TellInv, InOwnSlot, IndInv, MainBusy
  <2> QED BY <2>1, <2>2 DEF TellInv, InOwnSlot, Locked
<1>5. OwedAhead'
  <2> SUFFICES ASSUME NEW d \in Clients, NEW u \in Changers
               PROVE  /\ thread'[d][u].at # "add" => thread'[d][u].to = None
                      /\ \A e \in owed'[d][u] :
                            thread'[d][u].at \in {"fan", "add"} /\ e # d /\ Ahead(d, u, e)'
    BY DEF OwedAhead
  <2>1. u \in Threads
    BY DEF Changers, Threads
  <2>2. CASE d = c /\ u = t
    <3>1. \A e \in others : Ahead(c, t, e)'
      BY <1>2 DEF Ahead, Slots
    <3> QED BY <1>2, <1>3, <2>2, <3>1
  <2>3. CASE ~(d = c /\ u = t)
    <3>1. thread'[d][u] = thread[d][u] /\ owed'[d][u] = owed[d][u]
      BY <1>2, <1>3, <2>1, <2>3
    <3> QED BY <3>1 DEF TellInv, OwedAhead, Ahead
  <2> QED BY <2>2, <2>3
<1> QED BY <1>4, <1>5 DEF TellInv

(* One walk goes on.                                                        *)
LEMMA TellFans ==
    ASSUME TellInv, IndInv', NEW c \in Clients, NEW t \in Changers, NEW v \in ThreadState,
           thread' = [thread EXCEPT ![c][t] = v],
           thread[c][t].at \in {"fan", "add"},
           v.at \in {"fan", "add", "event"},
           v.at # "add" => v.to = None,
           owed' \in [Clients -> [Changers -> SUBSET Clients]],
           \A d \in Clients, u \in Changers : d # c \/ u # t => owed'[d][u] = owed[d][u],
           owed'[c][t] \subseteq owed[c][t],
           \A d \in owed'[c][t] : v.at # "event" /\ Ahead(c, t, d)',
           UNCHANGED <<main, sessions, index>>
    PROVE  TellInv'
<1>1. t \in Threads
  BY DEF Changers, Threads
<1>2. /\ \A d \in Clients, u \in Threads : d # c \/ u # t => thread'[d][u] = thread[d][u]
      /\ thread'[c][t] = v
  BY <1>1 DEF TellInv, IndInv, TypeOK
<1>3. InOwnSlot'
  <2>1. \A d \in Clients :
           /\ thread'[d]["receive"].at = "none" <=> thread[d]["receive"].at = "none"
           /\ thread'[d]["interface"].at = "none" <=> thread[d]["interface"].at = "none"
           /\ thread'[d]["interface"].at \in Unlinked <=> thread[d]["interface"].at \in Unlinked
    BY <1>1, <1>2 DEF Threads, Unlinked
  <2>2. /\ main.at \in {"send", "receive", "publish"} =>
              thread'[main.client]["interface"].at # "none"
        /\ main.at \in {"interface", "send", "receive"} =>
              thread'[main.client]["receive"].at = "none"
        /\ main.at = "interface" => thread'[main.client]["interface"].at = "none"
    BY <2>1 DEF TellInv, InOwnSlot, IndInv, MainBusy
  <2> QED BY <2>1, <2>2 DEF TellInv, InOwnSlot, Locked
<1>4. OwedAhead'
  <2> SUFFICES ASSUME NEW d \in Clients, NEW u \in Changers
               PROVE  /\ thread'[d][u].at # "add" => thread'[d][u].to = None
                      /\ \A e \in owed'[d][u] :
                            thread'[d][u].at \in {"fan", "add"} /\ e # d /\ Ahead(d, u, e)'
    BY DEF OwedAhead
  <2>1. u \in Threads
    BY DEF Changers, Threads
  <2>2. CASE d = c /\ u = t
    BY <1>2, <2>2 DEF TellInv, OwedAhead
  <2>3. CASE ~(d = c /\ u = t)
    <3>1. thread'[d][u] = thread[d][u] /\ owed'[d][u] = owed[d][u]
      BY <1>2, <2>1, <2>3
    <3> QED BY <3>1 DEF TellInv, OwedAhead, Ahead
  <2> QED BY <2>2, <2>3
<1> QED BY <1>3, <1>4 DEF TellInv

(* The walk looks into a slot: it passes it, or is over, if the session of  *)
(* nobody that is owed the change is there.                                 *)
LEMMA TellLooks ==
    ASSUME TellInv, IndInv', NEW c \in Clients, NEW t \in Changers, FanLooks(c, t)
    PROVE  TellInv'
<1> DEFINE i == thread[c][t].slot
           v == IF i > LastSlot THEN Place("event")
                ELSE IF i = index[c] \/ sessions[i] = None
                     THEN [thread[c][t] EXCEPT !.slot = i + 1]
                     ELSE [thread[c][t] EXCEPT !.at = "add"]
<1>1. thread[c][t] \in ThreadState /\ t \in Threads
  BY DEF TellInv, IndInv, TypeOK, ThreadState, Changers, Threads
<1>2. /\ thread[c][t].at = "fan"
      /\ thread[c][t].to = None
      /\ thread' = [thread EXCEPT ![c][t] = v]
      /\ UNCHANGED <<main, sessions, index, owed>>
  BY <1>1 DEF FanLooks, At, TellInv, OwedAhead, IndInv, TypeOK
<1>3. thread'[c][t] = v
  BY <1>1, <1>2 DEF TellInv, IndInv, TypeOK
<1>4. \A d \in owed[c][t] : d # c /\ Ahead(c, t, d)
  BY DEF TellInv, OwedAhead
<1>5. /\ owed' \in [Clients -> [Changers -> SUBSET Clients]]
      /\ \A d \in Clients, u \in Changers : owed'[d][u] = owed[d][u]
      /\ owed[c][t] \subseteq Clients
  BY <1>2 DEF TellInv, IndInv, TypeOK
<1>6. CASE i > LastSlot
  <2>1. v = Place("event")
    BY <1>6
  <2>2. Place("event") \in ThreadState /\ Place("event").at = "event" /\ Place("event").to = None
    BY PlaceTyped DEF Places, Place
  <2>3. owed[c][t] = {}
    <3> SUFFICES ASSUME NEW d \in owed[c][t] PROVE FALSE
      OBVIOUS
    <3> QED BY <1>1, <1>4, <1>6, SlotsAssumption DEF Ahead, Slots, LastSlot, ThreadState
  <2> HIDE DEF v
  <2> QED BY <1>2, <1>5, <2>1, <2>2, <2>3, TellFans
<1>7. CASE ~(i > LastSlot)
  <2>1. i \in Slots /\ i \in Int
    BY <1>1, <1>7, SlotsAssumption DEF Slots, LastSlot, ThreadState
  <2>2. CASE i = index[c] \/ sessions[i] = None
    <3>1. v = [thread[c][t] EXCEPT !.slot = i + 1]
      BY <1>7, <2>2
    <3>2. v \in ThreadState /\ v.at = "fan" /\ v.to = None /\ v.slot = i + 1
      BY <1>1, <1>2, <2>1, <3>1, SlotsAssumption DEF ThreadState, Slots
    <3>3. sessions[i] \in {c, None}
      BY <1>2, <2>2, OwnSlot
    <3>4. ASSUME NEW d \in owed[c][t]
          PROVE  Ahead(c, t, d)'
      <4>1. PICK j \in Slots : sessions[j] = d /\ i <= j
        BY <1>4 DEF Ahead
      <4>2. j # i
        BY <1>4, <1>5, <3>3, <4>1, ClientsAssumption
      <4>3. i + 1 <= j
        BY <2>1, <4>1, <4>2 DEF Slots
      <4> QED BY <1>2, <1>3, <3>2, <4>1, <4>3 DEF Ahead
    <3> HIDE DEF v
    <3> QED BY <1>2, <1>5, <3>2, <3>4, TellFans
  <2>3. CASE ~(i = index[c] \/ sessions[i] = None)
    <3>1. v = [thread[c][t] EXCEPT !.at = "add"]
      BY <1>7, <2>3
    <3>2. v \in ThreadState /\ v.at = "add" /\ v.to = None /\ v.slot = i
      BY <1>1, <1>2, <3>1 DEF ThreadState, Places
    <3>3. \A d \in owed[c][t] : Ahead(c, t, d)'
      BY <1>2, <1>3, <1>4, <3>2 DEF Ahead
    <3> HIDE DEF v
    <3> QED BY <1>2, <1>5, <3>2, <3>3, TellFans
  <2> QED BY <2>2, <2>3
<1> QED BY <1>6, <1>7

LEMMA TellLooksAgain ==
    ASSUME TellInv, IndInv', NEW c \in Clients, NEW t \in Changers, FanLooksAgain(c, t)
    PROVE  TellInv'
<1>1. thread[c][t] \in ThreadState /\ t \in Threads
  BY DEF TellInv, IndInv, TypeOK, ThreadState, Changers, Threads
<1>2. CASE Dies
  BY <1>2, TellStill DEF Dies, manager
<1>3. CASE ~Dies
  <2> DEFINE i == thread[c][t].slot
             v == [thread[c][t] EXCEPT !.to = sessions[i]]
  <2>1. /\ thread[c][t].at = "add"
        /\ thread' = [thread EXCEPT ![c][t].to = sessions[i]]
        /\ UNCHANGED <<main, sessions, index, owed>>
    BY <1>3 DEF FanLooksAgain, At
  <2>2. i \in Slots /\ sessions[i] \in Clients \cup {None}
    BY <1>1, <2>1 DEF TellInv, IndInv, TypeOK, AddsInSlots
  <2>3. v \in ThreadState /\ v.at = "add" /\ v.slot = i /\ v.to = sessions[i]
    BY <1>1, <2>1, <2>2 DEF ThreadState
  <2>4. thread' = [thread EXCEPT ![c][t] = v] /\ thread'[c][t] = v
    BY <1>1, <2>1 DEF TellInv, IndInv, TypeOK
  <2>5. \A d \in owed[c][t] : Ahead(c, t, d)'
    BY <2>1, <2>3, <2>4 DEF TellInv, OwedAhead, Ahead
  <2>6. /\ owed' \in [Clients -> [Changers -> SUBSET Clients]]
        /\ \A d \in Clients, u \in Changers : owed'[d][u] = owed[d][u]
    BY <2>1 DEF TellInv, IndInv, TypeOK
  <2> HIDE DEF v
  <2> QED BY <2>1, <2>3, <2>4, <2>5, <2>6, TellFans
<1> QED BY <1>2, <1>3

(* The walk leaves a slot behind after it has given the change to the       *)
(* session it found there, or that session is gone.                         *)
LEMMA TellAdds ==
    ASSUME TellInv, IndInv', NEW c \in Clients, NEW t \in Changers,
           FanAdds(c, t) \/ FanAddsToFreed(c, t)
    PROVE  TellInv'
<1> DEFINE i == thread[c][t].slot
           to == thread[c][t].to
<1>1. thread[c][t] \in ThreadState /\ t \in Threads
  BY DEF TellInv, IndInv, TypeOK, ThreadState, Changers, Threads
<1>2. CASE Dies
  BY <1>2, TellStill DEF Dies, manager
<1>3. CASE ~Dies
  <2>1. /\ thread[c][t].at = "add"
        /\ to # None
        /\ thread' = [thread EXCEPT ![c][t] = Onward(c, t)]
        /\ UNCHANGED <<main, sessions, index>>
    BY <1>3 DEF FanAdds, FanAddsToFreed, At
  <2>2. i \in Slots
    BY <1>1, <2>1 DEF TellInv, IndInv, AddsInSlots
  <2>3. /\ Onward(c, t) \in ThreadState
        /\ Onward(c, t).at = "fan" /\ Onward(c, t).to = None /\ Onward(c, t).slot = i + 1
    BY <2>2, SlotsAssumption DEF Onward, ThreadState, Places, Slots
  <2>4. thread'[c][t] = Onward(c, t)
    BY <1>1, <2>1 DEF TellInv, IndInv, TypeOK
  <2>5. /\ owed' \in [Clients -> [Changers -> SUBSET Clients]]
        /\ \A d \in Clients, u \in Changers : d # c \/ u # t => owed'[d][u] = owed[d][u]
        /\ owed'[c][t] \subseteq owed[c][t]
    <3>1. owed \in [Clients -> [Changers -> SUBSET Clients]]
      BY DEF TellInv, IndInv, TypeOK
    <3>2. owed' = [owed EXCEPT ![c][t] = @ \ {to}] \/ owed' = owed
      BY <1>3 DEF FanAdds, FanAddsToFreed
    <3> HIDE DEF to
    <3> QED BY <3>1, <3>2
  <2>6. ASSUME NEW d \in owed'[c][t]
        PROVE  Ahead(c, t, d)'
    <3>1. PICK j \in Slots : /\ sessions[j] = d
                             /\ i <= j
                             /\ i = j => to = d
      BY <2>1, <2>5 DEF TellInv, OwedAhead, Ahead
    <3>2. d # to
      <4>1. CASE FanAdds(c, t)
        BY <4>1 DEF FanAdds, TellInv, IndInv, TypeOK
      <4>2. CASE FanAddsToFreed(c, t)
        <5>1. freed[to]
          BY <4>2 DEF FanAddsToFreed
        <5>2. d \in Clients
          BY <2>5
        <5>3. ~freed[d]
          BY <3>1, <5>2, ClientsAssumption DEF TellInv, IndInv, SlotsLinked
        <5> QED BY <5>1, <5>3
      <4> QED BY <4>1, <4>2
    <3>3. i + 1 <= j
      BY <2>2, <3>1, <3>2 DEF Slots
    <3> QED BY <2>1, <2>3, <2>4, <3>1, <3>3 DEF Ahead
  <2> QED BY <2>1, <2>3, <2>5, <2>6, TellFans
<1> QED BY <1>2, <1>3

-----------------------------------------------------------------------------
(* Slots change: the main thread fills one, an interface thread clears one. *)

LEMMA TellMain ==
    ASSUME TellInv, IndInv', MainStep
    PROVE  TellInv'
<1> DEFINE m == main.client
<1>1. ASSUME NEW c \in Clients, MainAccepts(c)
      PROVE  TellInv'
  <2>1. ~Locked /\ ~Locked'
    BY <1>1 DEF MainAccepts, MainAt, Locked
  <2>2. UNCHANGED <<sessions, index, owed, thread>>
    BY <1>1 DEF MainAccepts
  <2> QED BY <2>1, <2>2, TellStill
<1>2. CASE MainCreates
  <2>1. /\ m \in Clients
        /\ thread[m]["interface"].at = "none"
        /\ ~Locked
        /\ UNCHANGED <<sessions, owed, thread>>
    BY <1>2 DEF MainCreates, MainAt, Locked, TellInv, IndInv, MainBusy, Fresh
  <2>2. OwedAhead'
    BY <2>1 DEF TellInv, OwedAhead, Ahead
  <2>3. CASE Free(sessions) = {}
    BY <1>2, <2>1, <2>3, TellStill DEF MainCreates, Locked
  <2>4. CASE Free(sessions) # {}
    <3>1. PICK i \in FirstFree(sessions) : index' = [index EXCEPT ![m] = i]
      BY <1>2, <2>4 DEF MainCreates
    <3>2. i \in Slots /\ sessions[i] = None
      BY <3>1 DEF FirstFree, Free
    <3>3. /\ main'.at = "interface" /\ main'.client = m
          /\ index'[m] = i
          /\ \A d \in Clients : d # m => index'[d] = index[d]
      BY <1>2, <2>1, <2>4, <3>1 DEF MainCreates, MainGoes, TellInv, IndInv, TypeOK
    <3>4. InOwnSlot'
      <4>1. \A d \in Clients :
               thread[d]["interface"].at \notin {"none"} \cup Unlinked =>
                  d # m /\ sessions[index[d]] = d
        BY <2>1 DEF TellInv, InOwnSlot
      <4>2. /\ \A d \in Clients :
                  thread[d]["receive"].at # "none" => thread[d]["interface"].at # "none"
            /\ thread[m]["receive"].at = "none"
        BY <2>1 DEF TellInv, InOwnSlot
      <4> QED BY <2>1, <3>2, <3>3, <4>1, <4>2 DEF InOwnSlot
    <3> QED BY <2>2, <3>4 DEF TellInv
  <2> QED BY <2>3, <2>4
<1>3. ASSUME NEW t \in Threads, MainStarts(t)
      PROVE  TellInv'
  <2>1. /\ main.at = t /\ Locked
        /\ main' = [main EXCEPT !.at = Following(t)]
        /\ thread' = [thread EXCEPT ![m][t] = Resting(t)]
        /\ UNCHANGED <<sessions, index, owed>>
    BY <1>3 DEF MainStarts, MainAt, MainGoes, Locked, Threads
  <2>2. m \in Clients
    BY <2>1 DEF TellInv, IndInv, MainBusy, Locked
  <2>3. /\ main'.at = Following(t) /\ main'.client = m
        /\ Following(t) \in {"send", "receive", "publish"}
        /\ Locked'
    BY <2>1 DEF Following, Locked, TellInv, IndInv, TypeOK, Threads
  <2>4. /\ \A d \in Clients, u \in Threads : d # m \/ u # t => thread'[d][u] = thread[d][u]
        /\ thread'[m][t] = Resting(t)
        /\ Resting(t).at \in {"reading", "loop"} /\ Resting(t).to = None
    BY <2>1, <2>2 DEF Resting, Place, TellInv, IndInv, TypeOK
  <2>5. owed[m] \in [Changers -> SUBSET Clients]
    BY <2>2 DEF TellInv, IndInv, TypeOK
  <2>6. thread'[m]["interface"].at # "none"
    BY <2>1, <2>4 DEF TellInv, InOwnSlot, Threads
  <2>7. InOwnSlot'
    <3>1. \A d \in Clients : d # m =>
             /\ thread'[d]["interface"] = thread[d]["interface"]
             /\ thread'[d]["receive"] = thread[d]["receive"]
      BY <2>4 DEF Threads
    <3>2. \A d \in Clients :
             thread'[d]["interface"].at \notin {"none"} \cup Unlinked =>
                sessions[index[d]] = d \/ d = m
      BY <3>1 DEF TellInv, InOwnSlot
    <3>3. \A d \in Clients :
             thread'[d]["receive"].at # "none" => thread'[d]["interface"].at # "none"
      BY <2>6, <3>1 DEF TellInv, InOwnSlot
    <3>4. main'.at \in {"interface", "send", "receive"} => thread'[m]["receive"].at = "none"
      BY <2>1, <2>3, <2>4 DEF Following, Threads, TellInv, InOwnSlot
    <3> QED BY <2>1, <2>3, <2>6, <3>2, <3>3, <3>4 DEF TellInv, InOwnSlot
  <2>8. OwedAhead'
    <3>1. \A d \in Clients, u \in Changers : d # m \/ u # t => thread'[d][u] = thread[d][u]
      BY <2>4 DEF Changers, Threads
    <3>2. t \in Changers => owed[m][t] = {}
      <4> SUFFICES ASSUME t \in Changers, owed[m][t] # {} PROVE FALSE
        OBVIOUS
      <4>1. thread[m][t].at \in {"fan", "add"}
        BY <2>2, <2>5 DEF TellInv, OwedAhead
      <4>2. thread[m][t].at = "none"
        BY <2>1 DEF TellInv, InOwnSlot, Changers
      <4> QED BY <4>1, <4>2
    <3> SUFFICES ASSUME NEW d \in Clients, NEW u \in Changers
                 PROVE  /\ thread'[d][u].at # "add" => thread'[d][u].to = None
                        /\ \A e \in owed'[d][u] :
                              thread'[d][u].at \in {"fan", "add"} /\ e # d /\ Ahead(d, u, e)'
      BY DEF OwedAhead
    <3>3. CASE d = m /\ u = t
      <4>1. owed'[d][u] = {} /\ thread'[d][u].to = None
        BY <2>1, <2>4, <3>2, <3>3
      <4> QED BY <4>1
    <3>4. CASE ~(d = m /\ u = t)
      <4>1. /\ thread'[d][u] = thread[d][u]
            /\ UNCHANGED <<sessions, owed>>
        BY <2>1, <3>1, <3>4
      <4>2. /\ thread[d][u].at # "add" => thread[d][u].to = None
            /\ \A e \in owed[d][u] :
                  thread[d][u].at \in {"fan", "add"} /\ e # d /\ Ahead(d, u, e)
        BY DEF TellInv, OwedAhead
      <4> QED BY <4>1, <4>2 DEF Ahead
    <3> QED BY <3>3, <3>4
  <2> QED BY <2>7, <2>8 DEF TellInv
<1>4. CASE MainPublishes
  <2>1. /\ Locked /\ main' = [at |-> "accepting", client |-> None]
        /\ sessions' = [sessions EXCEPT ![index[m]] = m]
        /\ UNCHANGED <<index, owed, thread>>
    BY <1>4 DEF MainPublishes, MainAt, Locked
  <2>2. /\ m \in Clients /\ index[m] \in Slots
        /\ sessions[index[m]] = None
    BY <2>1 DEF TellInv, IndInv, TypeOK, MainBusy, InOwnSlot, Locked
  <2>3. /\ sessions'[index[m]] = m
        /\ \A i \in Slots : sessions[i] # None => sessions'[i] = sessions[i]
    BY <2>1, <2>2 DEF TellInv, IndInv, TypeOK
  <2>4. InOwnSlot'
    <3>1. ASSUME NEW d \in Clients, thread[d]["interface"].at \notin {"none"} \cup Unlinked
          PROVE  sessions'[index[d]] = d
      <4>1. index[d] \in Slots /\ d # None
        BY ClientsAssumption DEF TellInv, IndInv, TypeOK
      <4>2. sessions[index[d]] = d \/ d = m
        BY <3>1 DEF TellInv, InOwnSlot
      <4> QED BY <2>3, <4>1, <4>2
    <3> QED BY <2>1, <3>1 DEF TellInv, InOwnSlot, Locked
  <2>5. OwedAhead'
    <3>1. \A d \in Clients, u \in Changers : owed[d][u] \subseteq Clients
      BY DEF TellInv, IndInv, TypeOK
    <3> QED BY <2>1, <2>3, <3>1, ClientsAssumption DEF TellInv, OwedAhead, Ahead
  <2> QED BY <2>4, <2>5 DEF TellInv
<1> QED BY <1>1, <1>2, <1>3, <1>4 DEF MainStep

LEMMA TellUnlinks ==
    ASSUME TellInv, IndInv', NEW c \in Clients, InterfaceUnlinks(c)
    PROVE  TellInv'
<1>1. /\ thread[c]["interface"].at = "unlink" /\ ~Locked
      /\ sessions' = [sessions EXCEPT ![index[c]] = None]
      /\ owed' = Leaving(c)
      /\ Goes(c, "interface", "notify")
      /\ UNCHANGED <<main, index>>
  BY DEF InterfaceUnlinks, At
<1>2. index[c] \in Slots /\ sessions[index[c]] = c
  BY <1>1 DEF TellInv, IndInv, TypeOK, InOwnSlot, Unlinked
<1>3. \A i \in Slots : sessions[i] # c => sessions'[i] = sessions[i]
  BY <1>1, <1>2 DEF TellInv, IndInv, TypeOK
<1>4. /\ \A d \in Clients, u \in Threads : d # c \/ u # "interface" => thread'[d][u] = thread[d][u]
      /\ thread'[c]["interface"].at = "notify" /\ thread'[c]["interface"].to = None
  BY <1>1 DEF Goes, Place, TellInv, IndInv, TypeOK, Threads
<1>5. \A d \in Clients, u \in Changers : owed'[d][u] = owed[d][u] \ {c}
  BY <1>1 DEF Leaving
<1>6. InOwnSlot'
  <2>1. ASSUME NEW d \in Clients, thread'[d]["interface"].at \notin {"none"} \cup Unlinked
        PROVE  sessions'[index[d]] = d
    <3>1. d # c
      BY <1>4, <2>1 DEF Unlinked
    <3>2. sessions[index[d]] = d
      <4>1. thread'[d]["interface"] = thread[d]["interface"]
        BY <1>4, <3>1 DEF Threads
      <4> QED BY <1>1, <2>1, <4>1 DEF TellInv, InOwnSlot
    <3>3. index[d] \in Slots
      BY DEF TellInv, IndInv, TypeOK
    <3> QED BY <1>1, <1>3, <3>1, <3>2, <3>3
  <2>2. \A d \in Clients :
           thread'[d]["receive"].at # "none" => thread'[d]["interface"].at # "none"
    BY <1>4 DEF TellInv, InOwnSlot, Threads
  <2>3. ~Locked' /\ main'.at \notin {"interface", "send", "receive", "publish"}
    BY <1>1 DEF Locked
  <2> QED BY <1>1, <2>1, <2>2, <2>3 DEF InOwnSlot
<1>7. OwedAhead'
  <2> SUFFICES ASSUME NEW d \in Clients, NEW u \in Changers
               PROVE  /\ thread'[d][u].at # "add" => thread'[d][u].to = None
                      /\ \A e \in owed'[d][u] :
                            thread'[d][u].at \in {"fan", "add"} /\ e # d /\ Ahead(d, u, e)'
    BY DEF OwedAhead
  <2>1. u \in Threads
    BY DEF Changers, Threads
  <2>2. /\ thread[d][u].at # "add" => thread[d][u].to = None
        /\ \A e \in owed[d][u] :
              thread[d][u].at \in {"fan", "add"} /\ e # d /\ Ahead(d, u, e)
    BY DEF TellInv, OwedAhead
  <2>3. CASE d = c /\ u = "interface"
    BY <1>1, <1>4, <1>5, <2>2, <2>3
  <2>4. CASE ~(d = c /\ u = "interface")
    <3>1. thread'[d][u] = thread[d][u]
      BY <1>4, <2>1, <2>4
    <3>2. ASSUME NEW e \in owed'[d][u]
          PROVE  Ahead(d, u, e)'
      <4>1. e # c /\ Ahead(d, u, e)
        BY <1>5, <2>2
      <4> QED BY <1>3, <3>1, <4>1 DEF Ahead
    <3> QED BY <1>5, <2>2, <3>1, <3>2
  <2> QED BY <2>3, <2>4
<1> QED BY <1>6, <1>7 DEF TellInv

(* Every other step of a session's threads.                                 *)
LEMMA TellThreads ==
    ASSUME TellInv, IndInv', NEW c \in Clients,
           \/ InterfaceDeletes(c) \/ InterfaceStep(c)
           \/ SendStep(c)
           \/ ReceiveBegins(c) \/ ReceiveStep(c)
    PROVE  TellInv'
<1> USE DEF At, Threads, Places
<1>1. CASE Dies
  BY <1>1, TellStill DEF Dies, manager
<1>2. CASE InterfaceDeletes(c)
  <2>1. CASE Walks(c, "interface")
    BY <1>2, <2>1, TellWalks DEF InterfaceDeletes, Changers
  <2>2. CASE ~Walks(c, "interface")
    BY <1>2, <2>2, TellMoves DEF InterfaceDeletes, Unlinked
  <2> QED BY <2>1, <2>2
<1>3. CASE InterfaceUnlinks(c)
  BY <1>3, TellUnlinks
<1>4. CASE InterfaceExits(c) \/ InterfaceCloses(c)
  BY <1>4, TellMoves DEF InterfaceExits, InterfaceCloses, Unlinked
<1>5. CASE InterfaceJoinsReceive(c) \/ InterfaceJoinsSend(c)
  BY <1>5, TellMoves DEF InterfaceJoinsReceive, InterfaceJoinsSend, InterfaceJoins, Unlinked
<1>6. CASE InterfaceNotifies(c) \/ InterfaceFrees(c)
  BY <1>6, TellMoves DEF InterfaceNotifies, InterfaceFrees, Unlinked
<1>7. CASE Sends(c)
  BY <1>7, TellStill DEF Sends
<1>8. CASE SendStops(c)
  BY <1>8, TellMoves DEF SendStops
<1>9. CASE ReceiveLoop(c) \/ ReceiveBegins(c) \/ ReceiveEnds(c)
  BY <1>9, TellMoves DEF ReceiveLoop, ReceiveBegins, ReceiveEnds
<1>10. CASE ReceiveCalls(c) /\ ~Dies
  BY <1>10, TellMoves DEF ReceiveCalls
<1>11. CASE ReceiveFile(c)
  <2>1. CASE Walks(c, "receive")
    BY <1>11, <2>1, TellWalks DEF ReceiveFile, Changers
  <2>2. CASE ~Walks(c, "receive")
    BY <1>11, <2>2, TellMoves DEF ReceiveFile
  <2> QED BY <2>1, <2>2
<1> QED BY <1>1, <1>2, <1>3, <1>4, <1>5, <1>6, <1>7, <1>8, <1>9, <1>10, <1>11
    DEF InterfaceStep, InterfaceReset, InterfaceJoinsGarbage, SendStep, ReceiveStep, ReceiveFails

LEMMA TellInit == Init => TellInv
<1> SUFFICES ASSUME Init PROVE TellInv
  OBVIOUS
<1>1. Place("none").at = "none" /\ Place("none").to = None
  BY DEF Place
<1>2. InOwnSlot
  BY <1>1 DEF Init, InOwnSlot, Locked, Threads
<1>3. OwedAhead
  BY <1>1 DEF Init, OwedAhead, Threads, Changers
<1> QED BY <1>2, <1>3, InitHolds DEF TellInv

LEMMA TellStep == TellInv /\ [Next]_vars => TellInv'
<1> SUFFICES ASSUME TellInv, [Next]_vars PROVE TellInv'
  OBVIOUS
<1>1. IndInv'
  BY StepKeeps DEF TellInv
<1>2. ASSUME NEW c \in Clients,
             \/ ClientExits(c) \/ ClientEnds(c) \/ ClientDies(c)
             \/ BackupStep(c)
      PROVE  TellInv'
  BY <1>1, <1>2, TellStill
  DEF ClientExits, ClientEnds, ClientDies, ClientGoes, BackupStep, BackupConnected, BackupFile,
      BackupDisconnected, BackupDies, manager
<1>3. ASSUME NEW c \in Clients,
             \/ InterfaceDeletes(c) \/ InterfaceStep(c)
             \/ SendStep(c)
             \/ ReceiveBegins(c) \/ ReceiveStep(c)
      PROVE  TellInv'
  BY <1>1, <1>3, TellThreads
<1>4. ASSUME NEW c \in Clients, NEW t \in Changers, FanStep(c, t)
      PROVE  TellInv'
  <2>1. CASE FileEvent(c, t)
    <3>1. t \in Threads /\ Goes(c, t, Resting(t).at) /\ Resting(t).at \in {"reading", "loop"}
      BY <2>1 DEF FileEvent, Goes, Resting, Place, Changers, Threads
    <3> QED BY <1>1, <2>1, <3>1, TellMoves DEF FileEvent, At, Places, Unlinked
  <2> QED BY <1>1, <1>4, <2>1, TellLooks, TellLooksAgain, TellAdds DEF FanStep
<1>5. ASSUME NEW c \in Clients, NEW t \in {"receive", "send"}, OwnSessionFreed(c, t)
      PROVE  TellInv'
  BY <1>1, <1>5, TellStill DEF OwnSessionFreed, Dies, manager
<1>6. CASE MainStep
  BY <1>1, <1>6, TellMain
<1>7. CASE UNCHANGED vars
  BY <1>1, <1>7, TellStill DEF vars, manager
<1> QED BY <1>2, <1>3, <1>4, <1>5, <1>6, <1>7 DEF Next

(* A walk that is over has given the change to every session that was in a  *)
(* slot when it began and has not left, whatever comes and goes meanwhile   *)
(* (server.c:426-430, 639-658).                                             *)
THEOREM WalksTellEveryone == Spec => []EveryoneIsTold
<1>1. TellInv => EveryoneIsTold
  BY DEF TellInv, OwedAhead, EveryoneIsTold, IndInv, TypeOK
<1> QED BY <1>1, TellInit, TellStep, PTL DEF Spec

-----------------------------------------------------------------------------
(* The events on their way to the backup.  The interface thread sends the   *)
(* last one of its session when the receiving thread has been joined, and   *)
(* before the main thread has told of the session nobody tells of its files.*)

LEMMA Appended ==
    ASSUME NEW S, NEW s \in Seq(S), NEW e \in S
    PROVE  /\ Append(s, e) \in Seq(S)
           /\ Len(s) \in Nat
           /\ Len(Append(s, e)) = Len(s) + 1
           /\ \A k \in 1 .. Len(s) : Append(s, e)[k] = s[k]
           /\ Append(s, e)[Len(s) + 1] = e
OBVIOUS

LEMMA Taken ==
    ASSUME NEW S, NEW s \in Seq(S), s # <<>>
    PROVE  /\ Tail(s) \in Seq(S)
           /\ Len(s) \in Nat \ {0}
           /\ Len(Tail(s)) = Len(s) - 1
           /\ \A k \in 1 .. Len(s) - 1 : Tail(s)[k] = s[k + 1]
           /\ Head(s) = s[1]
OBVIOUS

Event(type, c) == [type |-> type, client |-> c]
Coming(type, c) == \E k \in 1 .. Len(events) : events[k] = Event(type, c)

(* An interface thread that has told of the end of its session.             *)
Parted == {"free", "done"}

FreshQuiet ==
    \A k \in 1 .. Len(events) : client[events[k].client] \notin {"knocking", "answered"}

DisconnectedAtLast ==
    \A k \in 1 .. Len(events) :
       events[k].type = "DISCONNECTED" => thread[events[k].client]["interface"].at \in Parted

(* A session that is over and that the backup holds, or is going to hold,   *)
(* has its DISCONNECTED on the way.                                         *)
Ghosts ==
    backup_up =>
       \A c \in Clients :
          thread[c]["interface"].at \in Parted /\ (BackupHas(c) \/ Coming("CONNECTED", c)) =>
             Coming("DISCONNECTED", c)

OrderInv == TellInv /\ FreshQuiet /\ DisconnectedAtLast /\ EventsInOrder /\ Ghosts

LEMMA EventsTyped ==
    ASSUME OrderInv
    PROVE  /\ events \in Seq(Events) /\ Len(events) \in Nat
           /\ \A k \in 1 .. Len(events) :
                 /\ events[k].client \in Clients
                 /\ events[k] = Event(events[k].type, events[k].client)
<1>1. events \in Seq(Events)
  BY DEF OrderInv, TellInv, IndInv, TypeOK
<1>2. \A k \in 1 .. Len(events) : events[k] \in Events
  BY <1>1
<1> QED BY <1>1, <1>2 DEF Events, Event

(* Nothing is sent and no session parts.                                    *)
LEMMA OrderStill ==
    ASSUME OrderInv, TellInv', UNCHANGED <<events, backup>>,
           \A c \in Clients : client'[c] \in {"knocking", "answered"} =>
              client[c] \in {"knocking", "answered"},
           \A c \in Clients :
              thread'[c]["interface"].at \in Parted <=> thread[c]["interface"].at \in Parted
    PROVE  OrderInv'
<1>1. FreshQuiet' /\ DisconnectedAtLast' /\ EventsInOrder'
  BY EventsTyped DEF OrderInv, FreshQuiet, DisconnectedAtLast, EventsInOrder
<1>2. Ghosts'
  BY DEF OrderInv, Ghosts, BackupHas, Coming, backup
<1> QED BY <1>1, <1>2 DEF OrderInv

(* One thread moves, and does not part.                                     *)
LEMMA OrderMoves ==
    ASSUME OrderInv, TellInv', UNCHANGED <<client, events, backup>>,
           NEW c \in Clients, NEW t \in Threads, NEW v,
           thread' = [thread EXCEPT ![c][t] = v],
           t = "interface" => (v.at \in Parted <=> thread[c][t].at \in Parted)
    PROVE  OrderInv'
<1>1. \A d \in Clients :
         thread'[d]["interface"].at \in Parted <=> thread[d]["interface"].at \in Parted
  BY DEF OrderInv, TellInv, IndInv, TypeOK, Threads
<1> QED BY <1>1, OrderStill

(* An event is sent, of a session that has been told of and not parted.     *)
LEMMA OrderTells ==
    ASSUME OrderInv, TellInv', NEW c \in Clients,
           NEW type \in {"CONNECTED", "FILE", "DISCONNECTED"}, Tell(type, c), UNCHANGED backup,
           thread[c]["interface"].at \notin Parted,
           type = "CONNECTED" => client[c] \in {"knocking", "answered"},
           \A d \in Clients : client'[d] \in {"knocking", "answered"} =>
              d # c /\ client[d] \in {"knocking", "answered"},
           \A d \in Clients :
              thread'[d]["interface"].at \in Parted <=>
                 (thread[d]["interface"].at \in Parted \/ (d = c /\ type = "DISCONNECTED"))
    PROVE  OrderInv'
<1> DEFINE n == Len(events)
<1>1. CASE ~backup_up
  <2>1. events' = events
    BY <1>1 DEF Tell
  <2>2. FreshQuiet' /\ DisconnectedAtLast' /\ EventsInOrder'
    BY <2>1, EventsTyped DEF OrderInv, FreshQuiet, DisconnectedAtLast, EventsInOrder
  <2>3. Ghosts'
    BY <1>1 DEF Ghosts, backup
  <2> QED BY <2>2, <2>3 DEF OrderInv
<1>2. CASE backup_up
  <2>1. events' = Append(events, Event(type, c)) /\ Event(type, c) \in Events
    BY <1>2 DEF Tell, Event, Events
  <2>2. /\ n \in Nat /\ Len(events') = n + 1
        /\ \A k \in 1 .. n : events'[k] = events[k]
        /\ events'[n + 1] = Event(type, c)
    BY <2>1, EventsTyped, Appended
  <2>3. /\ events'[n + 1].client = c /\ events'[n + 1].type = type
        /\ \A k \in 1 .. n : events[k].client \in Clients
    <3>1. Event(type, c).client = c /\ Event(type, c).type = type
      BY DEF Event
    <3> QED BY <2>2, <3>1, EventsTyped
  <2>4. \A k \in 1 .. n + 1 : k \in 1 .. n \/ k = n + 1
    BY <2>2
  <2> HIDE DEF n
  <2>5. FreshQuiet'
    BY <2>2, <2>3, <2>4 DEF OrderInv, FreshQuiet, n
  <2>6. DisconnectedAtLast'
    BY <2>2, <2>3, <2>4 DEF OrderInv, DisconnectedAtLast, n
  <2>7. EventsInOrder'
    <3> SUFFICES ASSUME NEW k \in 1 .. n + 1, NEW l \in 1 .. n + 1,
                        events'[l].client = events'[k].client
                 PROVE  /\ events'[k].type = "CONNECTED" => k <= l
                        /\ events'[k].type = "DISCONNECTED" => l <= k
      BY <2>2 DEF EventsInOrder, n
    <3>1. CASE k \in 1 .. n /\ l \in 1 .. n
      BY <2>2, <3>1 DEF OrderInv, EventsInOrder, n
    <3>2. CASE k \in 1 .. n /\ l = n + 1
      <4>1. events[k].client = c /\ events'[k] = events[k]
        BY <2>2, <2>3, <3>2
      <4>2. events[k].type # "DISCONNECTED"
        BY <4>1, <3>2 DEF OrderInv, DisconnectedAtLast, n
      <4> QED BY <2>2, <3>2, <4>1, <4>2
    <3>3. CASE k = n + 1 /\ l \in 1 .. n
      <4>1. events[l].client = c
        BY <2>2, <2>3, <3>3
      <4>2. type # "CONNECTED"
        BY <4>1, <3>3 DEF OrderInv, FreshQuiet, n
      <4> QED BY <2>2, <2>3, <3>3, <4>2
    <3>4. CASE k = n + 1 /\ l = n + 1
      BY <2>2, <3>4
    <3> QED BY <2>4, <3>1, <3>2, <3>3, <3>4
  <2>8. Ghosts'
    <3> SUFFICES ASSUME NEW d \in Clients, thread'[d]["interface"].at \in Parted,
                        BackupHas(d)' \/ Coming("CONNECTED", d)'
                 PROVE  Coming("DISCONNECTED", d)'
      BY DEF Ghosts
    <3>1. CASE d = c
      <4>1. type = "DISCONNECTED"
        BY <3>1
      <4> QED BY <2>2, <3>1, <4>1 DEF Coming
    <3>2. CASE d # c
      <4>1. Coming("CONNECTED", d)' => Coming("CONNECTED", d)
        BY <2>2, <2>3, <2>4, <3>2 DEF Coming, Event, n
      <4>2. Coming("DISCONNECTED", d)
        BY <1>2, <3>2, <4>1 DEF OrderInv, Ghosts, BackupHas, backup
      <4> QED BY <2>2, <4>2 DEF Coming, n
    <3> QED BY <3>1, <3>2
  <2> QED BY <2>5, <2>6, <2>7, <2>8 DEF OrderInv
<1> QED BY <1>1, <1>2

(* The backup takes the first event.                                        *)
LEMMA OrderTakes ==
    ASSUME OrderInv, TellInv', NEW c \in Clients, BackupStep(c)
    PROVE  OrderInv'
<1> DEFINE n == Len(events)
<1>1. PICK type \in {"CONNECTED", "FILE", "DISCONNECTED"} :
         /\ Received(type, c)
         /\ type = "CONNECTED" => BackupConnected(c)
         /\ type = "FILE" => UNCHANGED backup_sessions
         /\ type = "DISCONNECTED" /\ backup_up' => backup_sessions' = Without(c)
  BY DEF BackupStep, BackupConnected, BackupFile, BackupDisconnected, BackupDies, backup,
         Received
<1>2. UNCHANGED <<client, thread>> /\ (backup_up' => backup_up)
  BY DEF BackupStep, BackupConnected, BackupFile, BackupDisconnected, BackupDies, backup,
         manager, Received
<1>3. events # <<>> /\ Head(events) = Event(type, c) /\ events' = Tail(events)
  BY <1>1 DEF Received, Event
<1>4. /\ n \in Nat \ {0} /\ Len(events') = n - 1
      /\ events[1] = Event(type, c)
      /\ \A k \in 1 .. n - 1 : events'[k] = events[k + 1]
  BY <1>3, EventsTyped, Taken
<1>5. \A k \in 1 .. n : events[k].client \in Clients
  BY EventsTyped
<1> HIDE DEF n
<1>6. \A k \in 1 .. n - 1 : k + 1 \in 1 .. n
  BY <1>4
<1>7. FreshQuiet' /\ DisconnectedAtLast'
  BY <1>2, <1>4, <1>5, <1>6 DEF OrderInv, FreshQuiet, DisconnectedAtLast, n
<1>8. EventsInOrder'
  <2> SUFFICES ASSUME NEW k \in 1 .. n - 1, NEW l \in 1 .. n - 1,
                      events'[l].client = events'[k].client
               PROVE  /\ events'[k].type = "CONNECTED" => k <= l
                      /\ events'[k].type = "DISCONNECTED" => l <= k
    BY <1>4 DEF EventsInOrder, n
  <2>1. k + 1 \in 1 .. n /\ l + 1 \in 1 .. n /\ events[l + 1].client = events[k + 1].client
    BY <1>4, <1>6
  <2>2. /\ events[k + 1].type = "CONNECTED" => k + 1 <= l + 1
        /\ events[k + 1].type = "DISCONNECTED" => l + 1 <= k + 1
    BY <2>1 DEF OrderInv, EventsInOrder, n
  <2> QED BY <1>4, <2>2
<1>9. Ghosts'
  <2> SUFFICES ASSUME backup_up', NEW d \in Clients, thread[d]["interface"].at \in Parted,
                      BackupHas(d)' \/ Coming("CONNECTED", d)'
               PROVE  Coming("DISCONNECTED", d)'
    BY <1>2 DEF Ghosts
  <2>1. Coming("CONNECTED", d)' => Coming("CONNECTED", d)
    BY <1>4, <1>6 DEF Coming, n
  <2>2. BackupHas(d)' => BackupHas(d) \/ Coming("CONNECTED", d)
    <3>1. CASE type = "CONNECTED"
      <4>1. Coming("CONNECTED", c)
        BY <1>4, <3>1 DEF Coming, n
      <4>2. \A i \in Slots : backup_sessions'[i] \in {backup_sessions[i], c}
        BY <1>1, <3>1 DEF BackupConnected, OrderInv, TellInv, IndInv, TypeOK
      <4> QED BY <4>1, <4>2 DEF BackupHas
    <3>2. CASE type = "FILE"
      BY <1>1, <3>2 DEF BackupHas
    <3>3. CASE type = "DISCONNECTED"
      <4>1. \A i \in Slots : backup_sessions'[i] \in {backup_sessions[i], None}
        BY <1>1, <3>3 DEF Without
      <4> QED BY <4>1, ClientsAssumption DEF BackupHas
    <3> QED BY <3>1, <3>2, <3>3
  <2>3. Coming("DISCONNECTED", d)
    BY <1>2, <2>1, <2>2 DEF OrderInv, Ghosts
  <2>4. PICK k \in 1 .. n : events[k] = Event("DISCONNECTED", d)
    BY <2>3 DEF Coming, n
  <2>5. CASE k = 1
    <3>1. type = "DISCONNECTED" /\ d = c
      BY <1>4, <2>4, <2>5 DEF Event
    <3>2. ~BackupHas(d)'
      BY <1>1, <3>1, ClientsAssumption DEF Without, BackupHas
    <3>3. PICK l \in 1 .. n - 1 : events[l + 1] = Event("CONNECTED", d)
      BY <1>4, <3>2 DEF Coming, n
    <3>4. /\ events[1].type = "DISCONNECTED" /\ events[1].client = d
          /\ events[l + 1].client = d /\ l + 1 \in 1 .. n /\ 1 \in 1 .. n
      BY <1>4, <1>6, <3>1, <3>3 DEF Event
    <3>5. l + 1 <= 1
      BY <3>4 DEF OrderInv, EventsInOrder, n
    <3> QED BY <1>4, <3>5
  <2>6. CASE k # 1
    <3>1. k - 1 \in 1 .. n - 1 /\ events'[k - 1] = events[k]
      BY <1>4, <2>6
    <3> QED BY <1>4, <2>4, <3>1 DEF Coming
  <2> QED BY <2>5, <2>6
<1> QED BY <1>7, <1>8, <1>9 DEF OrderInv

LEMMA OrderMain ==
    ASSUME OrderInv, TellInv', MainStep
    PROVE  OrderInv'
<1> DEFINE m == main.client
<1>1. CASE \E c \in Clients : MainAccepts(c)
  <2>1. /\ UNCHANGED <<events, backup, thread>>
        /\ \A d \in Clients : client'[d] \in {"knocking", "answered"} =>
              client[d] \in {"knocking", "answered"}
    BY <1>1 DEF MainAccepts, OrderInv, TellInv, IndInv, TypeOK
  <2> QED BY <2>1, OrderStill
<1>2. CASE MainCreates
  <2>1. /\ m \in Clients /\ client[m] = "answered"
        /\ thread[m]["interface"].at = "none"
        /\ client' = [client EXCEPT ![m] = "connected"]
        /\ UNCHANGED <<thread, backup>>
    BY <1>2 DEF MainCreates, MainAt, OrderInv, TellInv, IndInv, MainBusy, Fresh
  <2>2. \A d \in Clients : client'[d] \in {"knocking", "answered"} =>
           d # m /\ client[d] \in {"knocking", "answered"}
    BY <2>1 DEF OrderInv, TellInv, IndInv, TypeOK
  <2>3. CASE Free(sessions) = {}
    BY <1>2, <2>1, <2>2, <2>3, OrderStill DEF MainCreates
  <2>4. CASE Free(sessions) # {}
    <3>1. Tell("CONNECTED", m)
      BY <1>2, <2>4 DEF MainCreates
    <3> QED BY <2>1, <2>2, <3>1, OrderTells DEF Parted
  <2> QED BY <2>3, <2>4
<1>3. ASSUME NEW t \in Threads, MainStarts(t)
      PROVE  OrderInv'
  <2>1. /\ m \in Clients
        /\ thread' = [thread EXCEPT ![m][t] = Resting(t)]
        /\ UNCHANGED <<client, events, backup>>
    BY <1>3 DEF MainStarts, MainAt, OrderInv, TellInv, IndInv, MainBusy, Locked, Threads
  <2>2. t = "interface" => thread[m][t].at \notin Parted /\ Resting(t).at \notin Parted
    BY <1>3 DEF MainStarts, MainAt, OrderInv, TellInv, InOwnSlot, Resting, Place, Parted
  <2> QED BY <2>1, <2>2, OrderMoves
<1>4. CASE MainPublishes
  BY <1>4, OrderStill DEF MainPublishes
<1> QED BY <1>1, <1>2, <1>3, <1>4 DEF MainStep

LEMMA OrderFans ==
    ASSUME OrderInv, TellInv', NEW c \in Clients, NEW t \in Changers, FanStep(c, t)
    PROVE  OrderInv'
<1>1. t \in Threads
  BY DEF Changers, Threads
<1>2. CASE FanLooks(c, t) \/ FanAdds(c, t)
  <2>1. PICK v : thread' = [thread EXCEPT ![c][t] = v] /\ v.at \in {"event", "fan", "add"}
    <3>1. CASE FanLooks(c, t)
      <4>1. thread[c][t] \in ThreadState /\ thread[c][t].at = "fan"
        BY <1>1, <3>1 DEF FanLooks, At, OrderInv, TellInv, IndInv, TypeOK, ThreadState
      <4> DEFINE i == thread[c][t].slot
                 w == IF i > LastSlot THEN Place("event")
                      ELSE IF i = index[c] \/ sessions[i] = None
                           THEN [thread[c][t] EXCEPT !.slot = i + 1]
                           ELSE [thread[c][t] EXCEPT !.at = "add"]
      <4>2. w.at \in {"event", "fan", "add"}
        BY <4>1 DEF Place, ThreadState
      <4>3. thread' = [thread EXCEPT ![c][t] = w]
        BY <1>1, <3>1 DEF FanLooks, OrderInv, TellInv, IndInv, TypeOK
      <4> QED BY <4>2, <4>3
    <3>2. CASE FanAdds(c, t)
      <4>1. Onward(c, t).at = "fan"
        BY DEF Onward
      <4> QED BY <3>2, <4>1 DEF FanAdds
    <3> QED BY <1>2, <3>1, <3>2
  <2>2. thread[c][t].at \notin Parted /\ UNCHANGED <<client, events, backup>>
    BY <1>2 DEF FanLooks, FanAdds, At, Parted
  <2> QED BY <1>1, <2>1, <2>2, OrderMoves DEF Parted
<1>3. CASE FanLooksAgain(c, t) \/ FanAddsToFreed(c, t)
  <2>1. CASE Dies
    BY <2>1, OrderStill DEF Dies, manager
  <2>2. CASE ~Dies
    <3>1. PICK v : thread' = [thread EXCEPT ![c][t] = v] /\ v.at \in {"fan", "add"}
      <4>1. CASE FanLooksAgain(c, t)
        <5>1. thread[c][t] \in ThreadState /\ thread[c][t].at = "add"
          BY <1>1, <4>1 DEF FanLooksAgain, At, OrderInv, TellInv, IndInv, TypeOK, ThreadState
        <5> DEFINE w == [thread[c][t] EXCEPT !.to = sessions[thread[c][t].slot]]
        <5>2. w.at = "add"
          BY <5>1 DEF ThreadState
        <5>3. thread' = [thread EXCEPT ![c][t] = w]
          BY <1>1, <2>2, <4>1 DEF FanLooksAgain, OrderInv, TellInv, IndInv, TypeOK
        <5> QED BY <5>2, <5>3
      <4>2. CASE FanAddsToFreed(c, t)
        <5>1. Onward(c, t).at = "fan"
          BY DEF Onward
        <5> QED BY <2>2, <4>2, <5>1 DEF FanAddsToFreed
      <4> QED BY <1>3, <4>1, <4>2
    <3>2. thread[c][t].at \notin Parted /\ UNCHANGED <<client, events, backup>>
      BY <1>3, <2>2 DEF FanLooksAgain, FanAddsToFreed, At, Parted
    <3> QED BY <1>1, <3>1, <3>2, OrderMoves DEF Parted
  <2> QED BY <2>1, <2>2
<1>4. CASE FileEvent(c, t)
  <2>1. /\ Tell("FILE", c) /\ thread[c][t].at = "event"
        /\ thread' = [thread EXCEPT ![c][t] = Resting(t)]
        /\ UNCHANGED <<client, backup>>
    BY <1>4 DEF FileEvent, At
  <2>2. thread[c]["interface"].at \notin Parted \cup {"none"}
    BY <2>1 DEF Changers, Parted, Joined, Idle, OrderInv, TellInv, InOwnSlot, IndInv,
                EndedInactive
  <2>3. client[c] \notin {"knocking", "answered"}
    BY <2>2 DEF OrderInv, TellInv, IndInv, Fresh
  <2>4. \A d \in Clients :
           thread'[d]["interface"].at \in Parted <=> thread[d]["interface"].at \in Parted
    BY <1>1, <2>1, <2>2 DEF Resting, Place, Parted, Threads, OrderInv, TellInv, IndInv, TypeOK
  <2> QED BY <2>1, <2>2, <2>3, <2>4, OrderTells
<1> QED BY <1>2, <1>3, <1>4 DEF FanStep

LEMMA OrderThreads ==
    ASSUME OrderInv, TellInv', NEW c \in Clients,
           \/ InterfaceDeletes(c) \/ InterfaceStep(c)
           \/ SendStep(c)
           \/ ReceiveBegins(c) \/ ReceiveStep(c)
    PROVE  OrderInv'
<1> USE DEF At, Threads
<1>1. CASE Dies
  BY <1>1, OrderStill DEF Dies, manager
<1>2. CASE Sends(c)
  BY <1>2, OrderStill DEF Sends
<1>3. CASE InterfaceNotifies(c)
  <2>1. /\ Tell("DISCONNECTED", c) /\ thread[c]["interface"].at = "notify"
        /\ thread' = [thread EXCEPT ![c]["interface"] = Place("free")]
        /\ UNCHANGED <<client, backup>>
    BY <1>3 DEF InterfaceNotifies, Goes
  <2>2. client[c] \notin {"knocking", "answered"}
    BY <2>1 DEF OrderInv, TellInv, IndInv, Fresh
  <2>3. \A d \in Clients :
           thread'[d]["interface"].at \in Parted <=>
              (thread[d]["interface"].at \in Parted \/ d = c)
    BY <2>1 DEF Place, Parted, OrderInv, TellInv, IndInv, TypeOK
  <2> QED BY <2>1, <2>2, <2>3, OrderTells DEF Parted
<1>4. ASSUME NEW t \in Threads, NEW p, Goes(c, t, p), UNCHANGED <<client, events, backup>>,
             t = "interface" => (p \in Parted <=> thread[c][t].at \in Parted)
      PROVE  OrderInv'
  <2>1. Place(p).at = p /\ thread' = [thread EXCEPT ![c][t] = Place(p)]
    BY <1>4 DEF Goes, Place
  <2> QED BY <1>4, <2>1, OrderMoves
<1>5. CASE InterfaceDeletes(c)
  BY <1>4, <1>5 DEF InterfaceDeletes, Walks, Parted
<1>6. CASE InterfaceExits(c) \/ InterfaceCloses(c) \/ InterfaceUnlinks(c) \/ InterfaceFrees(c)
  BY <1>4, <1>6 DEF InterfaceExits, InterfaceCloses, InterfaceUnlinks, InterfaceFrees, Parted
<1>7. CASE InterfaceJoinsReceive(c) \/ InterfaceJoinsSend(c)
  BY <1>4, <1>7 DEF InterfaceJoinsReceive, InterfaceJoinsSend, InterfaceJoins, Parted
<1>8. CASE SendStops(c)
  BY <1>4, <1>8 DEF SendStops
<1>9. CASE ReceiveLoop(c) \/ ReceiveBegins(c) \/ ReceiveEnds(c) \/ (ReceiveCalls(c) /\ ~Dies)
  BY <1>4, <1>9 DEF ReceiveLoop, ReceiveBegins, ReceiveEnds, ReceiveCalls
<1>10. CASE ReceiveFile(c)
  BY <1>4, <1>10 DEF ReceiveFile, Walks
<1> QED BY <1>1, <1>2, <1>3, <1>5, <1>6, <1>7, <1>8, <1>9, <1>10
    DEF InterfaceStep, InterfaceReset, InterfaceJoinsGarbage, SendStep, ReceiveStep, ReceiveFails

LEMMA OrderStep == OrderInv /\ [Next]_vars => OrderInv'
<1> SUFFICES ASSUME OrderInv, [Next]_vars PROVE OrderInv'
  OBVIOUS
<1>1. TellInv'
  BY TellStep DEF OrderInv
<1>2. ASSUME NEW c \in Clients, ClientExits(c) \/ ClientEnds(c) \/ ClientDies(c)
      PROVE  OrderInv'
  <2>1. /\ UNCHANGED <<events, backup, thread>>
        /\ \A d \in Clients : client'[d] \in {"knocking", "answered"} =>
              client[d] \in {"knocking", "answered"}
    BY <1>2 DEF ClientExits, ClientEnds, ClientDies, ClientGoes, manager,
                OrderInv, TellInv, IndInv, TypeOK
  <2> QED BY <1>1, <2>1, OrderStill
<1>3. ASSUME NEW c \in Clients,
             \/ InterfaceDeletes(c) \/ InterfaceStep(c)
             \/ SendStep(c)
             \/ ReceiveBegins(c) \/ ReceiveStep(c)
      PROVE  OrderInv'
  BY <1>1, <1>3, OrderThreads
<1>4. ASSUME NEW c \in Clients, NEW t \in Changers, FanStep(c, t)
      PROVE  OrderInv'
  BY <1>1, <1>4, OrderFans
<1>5. ASSUME NEW c \in Clients, NEW t \in {"receive", "send"}, OwnSessionFreed(c, t)
      PROVE  OrderInv'
  BY <1>1, <1>5, OrderStill DEF OwnSessionFreed, Dies, manager
<1>6. ASSUME NEW c \in Clients, BackupStep(c)
      PROVE  OrderInv'
  BY <1>1, <1>6, OrderTakes
<1>7. CASE MainStep
  BY <1>1, <1>7, OrderMain
<1>8. CASE UNCHANGED vars
  BY <1>1, <1>8, OrderStill DEF vars, manager
<1> QED BY <1>2, <1>3, <1>4, <1>5, <1>6, <1>7, <1>8 DEF Next

LEMMA OrderInit == Init => OrderInv
<1> SUFFICES ASSUME Init PROVE OrderInv
  OBVIOUS
<1>1. Len(events) = 0 /\ ~(\E k \in 1 .. 0 : TRUE)
  BY DEF Init
<1>2. FreshQuiet /\ DisconnectedAtLast /\ EventsInOrder
  BY <1>1 DEF FreshQuiet, DisconnectedAtLast, EventsInOrder
<1>3. Ghosts
  BY <1>1 DEF Init, Ghosts, Parted, Place, Threads
<1> QED BY <1>2, <1>3, TellInit DEF OrderInv

THEOREM EventsHeld == Spec => []OrderInv
BY OrderInit, OrderStep, PTL DEF Spec

(* The backup is told of a session before its files and of its end after    *)
(* them, although three threads send (server.c:81, 519, 551, 678).          *)
THEOREM EventsComeInOrder == Spec => []EventsInOrder
<1>1. OrderInv => EventsInOrder
  BY DEF OrderInv
<1> QED BY <1>1, EventsHeld, PTL

(* A backup that lives keeps no session of a client that has left, however  *)
(* far behind it is (server.c:545-551, serverRoles.c:285-291).              *)
THEOREM BackupKeepsNoGhosts == Spec => []NoGhosts
<1>1. OrderInv => NoGhosts
  BY DEF OrderInv, TellInv, IndInv, FreedAtLast, Ghosts, NoGhosts, Parted, Coming, Event
<1> QED BY <1>1, EventsHeld, PTL
=============================================================================
