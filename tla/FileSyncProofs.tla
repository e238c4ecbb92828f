---------------------------- MODULE FileSyncProofs ----------------------------
(***************************************************************************)
(* The directories agree, for any number of devices, contents and changes.  *)
(*                                                                          *)
(* Without a race one thread of the manager has the file in hand, and what  *)
(* it finds in the folder and on the list follows from where it is.  The    *)
(* list then says what is public: what every device has been told or is     *)
(* about to be.  A device follows it in a circle, and the promise goes      *)
(* round: while its directory stirs, the last event tells whether the file  *)
(* is there; what it uploads ends with what the directory has; and when all *)
(* of that is done, the device has what is public, or what is on its way    *)
(* to it ends with it.                                                      *)
(***************************************************************************)
EXTENDS FileSync, SequenceTheorems, TLAPS

-----------------------------------------------------------------------------
Public == IF file_list = <<>> THEN None ELSE Head(file_list)

Value(message) == IF message.type = "send" THEN message.data ELSE None

Final(list) == list[Len(list)]

(* The threads of a session have work of their own, and contents to write.  *)
Divided ==
    \A d \in Devices :
       /\ worker[d]["receive"].at # "remove"
       /\ worker[d]["interface"].at \in {"idle", "gone", "unlist", "delete", "remove"}
       /\ worker[d]["receive"].at = "writing" => worker[d]["receive"].data \in Contents
       /\ user[d].at = "writing" => user[d].data \in Contents
       /\ receiver[d].at = "writing" => receiver[d].data \in Contents

Taken(d, t) == worker[d][t].at # "idle"

OneAtWork ==
    \A d, e \in Devices, t, u \in Threads : Taken(d, t) /\ Taken(e, u) => d = e /\ t = u

Short == file_list = <<>> \/ \E x \in Contents : file_list = <<x>>

(* The folder and the list where a thread is.                               *)
Place(d, t, at) == worker[d][t].at = at

InHand(d, t) ==
    /\ ~Place(d, t, "lost")
    /\ Place(d, t, "writing") => stored = Empty /\ Short
    /\ Place(d, t, "test") => stored # None /\ Short
    /\ Place(d, t, "push") => stored # None /\ file_list = <<>>
    /\ Place(d, t, "refresh") => stored # None /\ Short /\ file_list # <<>>
    /\ Place(d, t, "send") => stored # None /\ file_list = <<stored>>
    /\ Place(d, t, "gone") =>
          IF t = "receive" THEN stored = None /\ Short ELSE stored # None /\ file_list = <<stored>>
    /\ Place(d, t, "unlist") => (t = "receive" <=> stored = None) /\ Short /\ file_list # <<>>
    /\ Place(d, t, "delete") => (t = "receive" <=> stored = None) /\ file_list = <<>>
    /\ Place(d, t, "remove") => file_list = <<>>

AtRest ==
    (\A d \in Devices, t \in Threads : ~Taken(d, t)) =>
       file_list = IF stored = None THEN <<>> ELSE <<stored>>

ListSerial == OneAtWork /\ (\A d \in Devices, t \in Threads : InHand(d, t)) /\ AtRest

(* Something is still to be reported of a directory.                        *)
Stirred(d) ==
    \/ user[d].at # "idle"
    \/ receiver[d].at # "idle"
    \/ events[d] # <<>>
    \/ batch[d] # <<>>

Unlost(d) == user[d].at # "lost" /\ receiver[d].at # "lost"

(* The last event tells whether the file is there.                          *)
EventsTell(d) ==
    /\ events[d] # <<>> => (local[d] = None <=> Final(events[d]) = "delete")
    /\ events[d] = <<>> /\ batch[d] # <<>> =>
          (local[d] = None <=> Final(batch[d]) = "delete")

(* What receive has in hand.                                                *)
Offer(d) ==
    LET w == worker[d]["receive"]
    IN  IF w.at = "writing" THEN w.data
        ELSE IF w.at \in {"test", "push", "refresh", "send"} THEN stored ELSE None

UploadsTell(d) ==
    ~Stirred(d) =>
       /\ up[d] # <<>> => Value(Final(up[d])) = local[d]
       /\ up[d] = <<>> /\ Taken(d, "receive") => Offer(d) = local[d]

WillTell(e, t) ==
    \/ worker[e][t].at \in {"push", "refresh", "send", "unlist", "delete"}
    \/ worker[e][t].at = "test" /\ Status # "EXISTS"
    \/ worker[e][t].at = "gone" /\ Known

(* What is on its way to a device ends with what is public.                 *)
Leads(d) ==
    IF queue[d] # <<>> THEN Final(queue[d]) = IF Public = None THEN "delete" ELSE "send"
    ELSE down[d] # <<>> /\ Value(Final(down[d])) = Public

Calm(d) ==
    /\ ~Stirred(d)
    /\ up[d] = <<>>
    /\ ~Taken(d, "receive")
    /\ worker[d]["interface"].at = "idle"
    /\ \A e \in Devices, t \in Threads : ~WillTell(e, t)

Served(d) == \/ local[d] = Public
             \/ d \in kept /\ Public = None
             \/ Leads(d)

DeviceInv(d) ==
    /\ Unlost(d)
    /\ EventsTell(d)
    /\ UploadsTell(d)
    /\ Calm(d) => Served(d)

SInv ==
    /\ TypeOK
    /\ Divided
    /\ ~running => raced
    /\ ~raced => ListSerial /\ \A d \in Devices : DeviceInv(d)
-----------------------------------------------------------------------------
(* Lists.                                                                   *)

LEMMA Longer ==
    ASSUME NEW S, NEW s \in Seq(S), NEW e \in S
    PROVE  /\ Append(s, e) \in Seq(S)
           /\ Append(s, e) # <<>>
           /\ Final(Append(s, e)) = e
BY DEF Final

LEMMA Shorter ==
    ASSUME NEW S, NEW s \in Seq(S), s # <<>>
    PROVE  /\ Head(s) \in S
           /\ Tail(s) \in Seq(S)
           /\ Final(s) \in S
           /\ Tail(s) = <<>> => Final(s) = Head(s)
           /\ Tail(s) # <<>> => Final(Tail(s)) = Final(s)
<1>1. Len(s) \in Nat /\ Len(s) > 0
  OBVIOUS
<1>2. Head(s) \in S /\ Tail(s) \in Seq(S) /\ Len(Tail(s)) = Len(s) - 1
  BY <1>1
<1>3. \A i \in 1 .. Len(Tail(s)) : Tail(s)[i] = s[i + 1]
  BY <1>1
<1>4. s[Len(s)] \in S
  BY <1>1
<1>5. Tail(s) = <<>> => Len(s) = 1
  <2>1. Len(<<>>) = 0
    BY EmptySeq
  <2>2. Tail(s) = <<>> => Len(Tail(s)) = 0
    BY <2>1
  <2> QED BY <1>1, <1>2, <2>2
<1>6. ASSUME Tail(s) # <<>> PROVE Tail(s)[Len(Tail(s))] = s[Len(s)]
  <2>1. Len(Tail(s)) # 0
    BY <1>2, <1>6, EmptySeq
  <2>2. Len(Tail(s)) \in 1 .. Len(Tail(s))
    BY <1>1, <1>2, <2>1
  <2> QED BY <1>1, <1>2, <1>3, <2>2
<1>7. Len(s) = 1 => s[Len(s)] = Head(s)
  BY <1>1
<1> QED BY <1>2, <1>4, <1>5, <1>6, <1>7 DEF Final

LEMMA One ==
    ASSUME NEW S, NEW x \in S
    PROVE  /\ <<x>> \in Seq(S) /\ <<x>> # <<>> /\ Head(<<x>>) = x /\ Tail(<<x>>) = <<>>
           /\ <<x>> \o <<>> = <<x>>
           /\ \A y : [<<x>> EXCEPT ![1] = y] = <<y>>
OBVIOUS

-----------------------------------------------------------------------------
(* Types.                                                                   *)

LEMMA NotifiedAs ==
    ASSUME TypeOK, NEW d \in Devices, NEW e \in Events, Notified(d, e)
    PROVE  /\ events' \in [Devices -> Seq(Events)]
           /\ events'[d] # <<>>
           /\ Final(events'[d]) = e
           /\ \A x \in Devices : x # d => events'[x] = events[x]
<1>1. events \in [Devices -> Seq(Events)]
  BY DEF TypeOK
<1>2. CASE events[d] # <<>> /\ events[d][Len(events[d])] = e
  BY <1>1, <1>2 DEF Notified, Final
<1>3. CASE ~(events[d] # <<>> /\ events[d][Len(events[d])] = e)
  <2>1. events' = [events EXCEPT ![d] = Append(@, e)]
    BY <1>3 DEF Notified
  <2> QED BY <1>1, <2>1, Longer
<1> QED BY <1>2, <1>3

LEMMA Things ==
    /\ "create" \in Events /\ "write" \in Events /\ "delete" \in Events
    /\ Empty \in Contents /\ Values \subseteq Contents /\ Contents \subseteq Files
    /\ None \in Files /\ None \notin Contents /\ None \notin Devices
    /\ NotWriting \in Writing
    /\ \A x : x \in Files <=> x \in Contents \/ x = None
BY NoneAssumption DEF Events, Contents, Files, NotWriting, Writing

LEMMA Messages ==
    /\ \A m \in Message : m.type \in {"send", "delete"} /\ Value(m) \in Files
    /\ \A m \in Message : m.type = "send" => m.data \in Contents /\ Value(m) = m.data
    /\ \A m \in Message : m.type = "delete" => Value(m) = None
    /\ \A c \in Contents : [type |-> "send", data |-> c] \in Message
                           /\ Value([type |-> "send", data |-> c]) = c
    /\ [type |-> "delete", data |-> None] \in Message
    /\ Value([type |-> "delete", data |-> None]) = None
BY Things DEF Message, Value

(* What a directory step does to a directory.                               *)
LEMMA TruncatesAs ==
    ASSUME TypeOK, NEW d \in Devices, Truncates(d)
    PROVE  /\ local' \in [Devices -> Files] /\ events' \in [Devices -> Seq(Events)]
           /\ kept' \in SUBSET Devices
           /\ local' = [local EXCEPT ![d] = Empty]
           /\ local[d] = None => events'[d] # <<>> /\ Final(events'[d]) = "create"
           /\ local[d] # None => events'[d] = events[d]
           /\ \A x \in Devices : x # d => events'[x] = events[x]
           /\ kept' = kept \ {d}
<1>1. local \in [Devices -> Files] /\ kept \in SUBSET Devices /\ events \in [Devices -> Seq(Events)]
  BY DEF TypeOK
<1>2. CASE local[d] = None
  BY <1>1, <1>2, NotifiedAs, Things DEF Truncates
<1>3. CASE local[d] # None
  BY <1>1, <1>3, Things DEF Truncates
<1> QED BY <1>2, <1>3

LEMMA FillsAs ==
    ASSUME TypeOK, NEW d \in Devices, NEW w \in Writing, Fills(d, w)
    PROVE  /\ local' \in [Devices -> Files] /\ events' \in [Devices -> Seq(Events)]
           /\ w.at # "lost" =>
                 /\ local' = [local EXCEPT ![d] = w.data]
                 /\ events'[d] # <<>> /\ Final(events'[d]) = "write"
                 /\ \A x \in Devices : x # d => events'[x] = events[x]
<1>1. local \in [Devices -> Files] /\ events \in [Devices -> Seq(Events)]
  BY DEF TypeOK
<1>2. CASE w.at = "lost"
  BY <1>1, <1>2 DEF Fills
<1>3. CASE w.at # "lost"
  <2>1. w.data \in Files
    BY DEF Writing
  <2>2. local' = [local EXCEPT ![d] = w.data] /\ Notified(d, "write")
    BY <1>3 DEF Fills
  <2> QED BY <1>1, <1>3, <2>1, <2>2, NotifiedAs, Things
<1> QED BY <1>2, <1>3

LEMMA UnlinksAs ==
    ASSUME TypeOK, NEW d \in Devices, Unlinks(d)
    PROVE  /\ local' \in [Devices -> Files] /\ events' \in [Devices -> Seq(Events)]
           /\ kept' \in SUBSET Devices
           /\ local' = [local EXCEPT ![d] = None]
           /\ local[d] # None => events'[d] # <<>> /\ Final(events'[d]) = "delete"
           /\ local[d] = None => events'[d] = events[d]
           /\ \A x \in Devices : x # d => events'[x] = events[x]
           /\ kept' = kept \ {d}
<1>1. local \in [Devices -> Files] /\ kept \in SUBSET Devices /\ events \in [Devices -> Seq(Events)]
  BY DEF TypeOK
<1>2. CASE local[d] # None
  BY <1>1, <1>2, NotifiedAs, Things DEF Unlinks
<1>3. CASE local[d] = None
  BY <1>1, <1>3, Things DEF Unlinks
<1> QED BY <1>2, <1>3

LEMMA OrphanedAs ==
    /\ \A w \in Writing : /\ Orphaned(w) \in Writing
                          /\ Orphaned(w).at = IF w.at = "writing" THEN "lost" ELSE w.at
                          /\ w.at # "writing" => Orphaned(w) = w
    /\ \A w \in [at : Places, data : Files] :
          /\ Orphaned(w) \in [at : Places, data : Files]
          /\ Orphaned(w).at = IF w.at = "writing" THEN "lost" ELSE w.at
          /\ w.at # "writing" => Orphaned(w) = w
BY DEF Orphaned, Writing, Places

LEMMA UserTyped ==
    ASSUME TypeOK, NEW d \in Devices, UserStep(d) \/ UserCloses(d)
    PROVE  TypeOK'
<1>1. user[d] \in Writing /\ receiver[d] \in Writing
  BY DEF TypeOK
<1>2. CASE \E v \in Values : UserOpens(d, v)
  <2> PICK v \in Values : UserOpens(d, v)
    BY <1>2
  <2>1. [at |-> "writing", data |-> v] \in Writing /\ v \in Files
    BY Things DEF Writing
  <2>2. Truncates(d)
    BY DEF UserOpens
  <2>3. wanted' \in [by : Devices \cup {None}, data : Files]
    BY <2>1, Things DEF UserOpens, Wants
  <2>4. raced' \in BOOLEAN
    BY DEF UserOpens, TypeOK, BeingWritten
  <2>5. user' \in [Devices -> Writing] /\ changes' \in Nat
    BY <2>1 DEF UserOpens, TypeOK
  <2>6. local' \in [Devices -> Files] /\ events' \in [Devices -> Seq(Events)] /\ kept' \in SUBSET Devices
    BY <2>2, TruncatesAs DEF TypeOK
  <2>7. UNCHANGED <<running, receiver, batch, up, asked, queue, down, worker, stored, file_list>>
    BY DEF UserOpens, wires, server
  <2> QED BY <2>3, <2>4, <2>5, <2>6, <2>7 DEF TypeOK
<1>3. CASE UserDeletes(d)
  <2>1. wanted' \in [by : Devices \cup {None}, data : Files]
    BY <1>3, Things DEF UserDeletes, Wants
  <2>2. raced' \in BOOLEAN
    BY <1>3 DEF UserDeletes, TypeOK, BeingWritten
  <2>3. Unlinks(d)
    BY <1>3 DEF UserDeletes
  <2> QED BY <1>1, <1>3, <2>1, <2>2, <2>3, UnlinksAs, OrphanedAs DEF UserDeletes, TypeOK, wires, server
<1>4. CASE UserAsks(d)
  <2>1. wanted' \in [by : Devices \cup {None}, data : Files]
    BY <1>4, Things DEF UserAsks, Wants
  <2>2. asked' \in [Devices -> Nat] /\ changes' \in Nat
    BY <1>4 DEF UserAsks, TypeOK
  <2> QED BY <1>4, <2>1, <2>2 DEF UserAsks, TypeOK, device, server
<1>5. CASE UserCloses(d)
  <2>1. Fills(d, user[d])
    BY <1>5 DEF UserCloses
  <2> QED BY <1>1, <1>5, <2>1, FillsAs, Things DEF UserCloses, TypeOK, wires, server
<1> QED BY <1>2, <1>3, <1>4, <1>5 DEF UserStep

LEMMA BatchAs ==
    ASSUME TypeOK, NEW d \in Devices, batch[d] # <<>>, Handled(d)
    PROVE  /\ batch' \in [Devices -> Seq(Events)]
           /\ batch'[d] = Tail(batch[d])
           /\ \A x \in Devices : x # d => batch'[x] = batch[x]
<1>1. batch \in [Devices -> Seq(Events)]
  BY DEF TypeOK
<1>2. batch[d] \in Seq(Events)
  BY <1>1
<1>3. Tail(batch[d]) \in Seq(Events)
  BY <1>2, Shorter
<1> QED BY <1>1, <1>3 DEF Handled

LEMMA WatcherTyped ==
    ASSUME TypeOK, NEW d \in Devices, WatcherStep(d)
    PROVE  TypeOK'
<1>1. up \in [Devices -> Seq(Message)] /\ local[d] \in Files
  BY DEF TypeOK
<1>2. CASE WatcherReads(d)
  <2>1. events[d] \in Seq(Events)
    BY DEF TypeOK
  <2>2. <<>> \in Seq(Events)
    OBVIOUS
  <2> QED BY <1>2, <2>1, <2>2 DEF WatcherReads, TypeOK, wires, server
<1>3. CASE WatcherSends(d)
  <2>1. up' \in [Devices -> Seq(Message)]
    <3>1. CASE local[d] = None
      BY <1>1, <1>3, <3>1 DEF WatcherSends
    <3>2. CASE local[d] # None
      <4>1. [type |-> "send", data |-> local[d]] \in Message
        BY <1>1, <3>2, Messages, Things
      <4>2. Append(up[d], [type |-> "send", data |-> local[d]]) \in Seq(Message)
        BY <1>1, <4>1, Longer
      <4> QED BY <1>1, <1>3, <3>2, <4>2 DEF WatcherSends
    <3> QED BY <3>1, <3>2
  <2>2. raced' \in BOOLEAN
    BY <1>3 DEF WatcherSends, TypeOK, BeingWritten
  <2> QED BY <1>3, <2>1, <2>2, BatchAs DEF WatcherSends, TypeOK, server
<1>4. CASE WatcherDeletes(d)
  <2>1. Append(up[d], [type |-> "delete", data |-> None]) \in Seq(Message)
    BY <1>1, Longer, Messages
  <2> QED BY <1>1, <1>4, <2>1, BatchAs DEF WatcherDeletes, TypeOK, server
<1> QED BY <1>2, <1>3, <1>4 DEF WatcherStep

LEMMA ReceiverTyped ==
    ASSUME TypeOK, NEW d \in Devices, ReceiverStep(d)
    PROVE  TypeOK'
<1>1. user[d] \in Writing /\ receiver[d] \in Writing /\ down \in [Devices -> Seq(Message)]
  BY DEF TypeOK
<1>2. down[d] # <<>> => Head(down[d]) \in Message /\ Tail(down[d]) \in Seq(Message)
  BY <1>1, Shorter
<1>3. CASE ReceiverOpens(d)
  <2>1. Head(down[d]).data \in Files
    BY <1>2, <1>3, Messages, Things DEF ReceiverOpens
  <2>2. [at |-> "writing", data |-> Head(down[d]).data] \in Writing
    BY <2>1 DEF Writing
  <2>3. Truncates(d)
    BY <1>3 DEF ReceiverOpens
  <2>4. raced' \in BOOLEAN
    BY <1>3 DEF ReceiverOpens, TypeOK, BeingWritten
  <2> QED BY <1>1, <1>2, <1>3, <2>2, <2>3, <2>4, TruncatesAs DEF ReceiverOpens, TypeOK, server
<1>4. CASE ReceiverCloses(d)
  <2>1. Fills(d, receiver[d])
    BY <1>4 DEF ReceiverCloses
  <2> QED BY <1>1, <1>4, <2>1, FillsAs, Things DEF ReceiverCloses, TypeOK, wires, server
<1>5. CASE ReceiverDeletes(d)
  <2>1. raced' \in BOOLEAN
    BY <1>5 DEF ReceiverDeletes, TypeOK, BeingWritten
  <2>2. Unlinks(d)
    BY <1>5 DEF ReceiverDeletes
  <2> QED BY <1>1, <1>2, <1>5, <2>1, <2>2, UnlinksAs, OrphanedAs DEF ReceiverDeletes, TypeOK, server
<1> QED BY <1>3, <1>4, <1>5 DEF ReceiverStep

-----------------------------------------------------------------------------
(* What the manager's threads do.                                           *)

WorkerType == [at : Places, data : Files]

(* A thread goes on to a place, with or without a content to write.         *)
Moves(d, t, w) ==
    /\ worker' \in [Devices -> [Threads -> WorkerType]]
    /\ worker'[d][t] = w
    /\ \A e \in Devices, u \in Threads : <<e, u>> # <<d, t>> => worker'[e][u] = worker[e][u]

LEMMA MoveOne ==
    ASSUME TypeOK, NEW d \in Devices, NEW t \in Threads, NEW w \in WorkerType,
           worker' = [worker EXCEPT ![d][t] = w]
    PROVE  Moves(d, t, w)
BY DEF TypeOK, Moves, WorkerType

LEMMA GoesAs ==
    ASSUME TypeOK, NEW d \in Devices, NEW t \in Threads, NEW place \in Places, Goes(d, t, place)
    PROVE  Moves(d, t, [at |-> place, data |-> worker[d][t].data])
<1>1. worker[d][t] \in WorkerType
  BY DEF TypeOK, WorkerType
<1> DEFINE w == [at |-> place, data |-> worker[d][t].data]
<1>2. [worker[d][t] EXCEPT !.at = place] = w /\ w \in WorkerType
  BY <1>1 DEF WorkerType
<1>3. worker' = [worker EXCEPT ![d] = [worker[d] EXCEPT ![t] = [worker[d][t] EXCEPT !.at = place]]]
  BY DEF Goes
<1> HIDE DEF w
<1>4. worker' = [worker EXCEPT ![d][t] = w]
  BY <1>2, <1>3
<1> QED BY <1>2, <1>4, MoveOne DEF w

LEMMA GoesTo ==
    ASSUME TypeOK, NEW d \in Devices, NEW t \in Threads, NEW place \in Places, Goes(d, t, place)
    PROVE  /\ worker'[d][t].at = place
           /\ \A e \in Devices, u \in Threads : <<e, u>> # <<d, t>> => worker'[e][u] = worker[e][u]
<1> DEFINE w == [at |-> place, data |-> worker[d][t].data]
<1>1. w.at = place
  OBVIOUS
<1>2. Moves(d, t, w)
  BY GoesAs
<1> HIDE DEF w
<1> QED BY <1>1, <1>2 DEF Moves

LEMMA RemovesAs ==
    ASSUME TypeOK, NEW d \in Devices, NEW t \in Threads, NEW place \in Places, Removes(d, t, place)
    PROVE  /\ worker' \in [Devices -> [Threads -> WorkerType]]
           /\ worker'[d][t] = [at |-> place, data |-> worker[d][t].data]
           /\ \A e \in Devices, u \in Threads : <<e, u>> # <<d, t>> =>
                 worker'[e][u] = Orphaned(worker[e][u])
           /\ stored' = None
<1>1. \A e \in Devices, u \in Threads : worker[e][u] \in WorkerType
  BY DEF TypeOK, WorkerType
<1>2. \A e \in Devices, u \in Threads :
         worker'[e][u] = IF e = d /\ u = t THEN [worker[e][u] EXCEPT !.at = place]
                         ELSE Orphaned(worker[e][u])
  BY DEF Removes
<1>3. [worker[d][t] EXCEPT !.at = place] = [at |-> place, data |-> worker[d][t].data]
  BY <1>1 DEF WorkerType
<1>4. [at |-> place, data |-> worker[d][t].data] \in WorkerType
  BY <1>1 DEF WorkerType
<1>5. ASSUME NEW e \in Devices, NEW u \in Threads PROVE worker'[e][u] \in WorkerType
  <2>1. Orphaned(worker[e][u]) \in WorkerType
    BY <1>1, OrphanedAs DEF WorkerType
  <2> QED BY <1>2, <1>3, <1>4, <2>1
<1>6. worker' \in [Devices -> [Threads -> WorkerType]]
  BY <1>5 DEF Removes
<1> QED BY <1>2, <1>3, <1>6 DEF Removes

LEMMA RemovesTo ==
    ASSUME TypeOK, NEW d \in Devices, NEW t \in Threads, NEW place \in Places, Removes(d, t, place)
    PROVE  /\ worker'[d][t].at = place
           /\ \A e \in Devices, u \in Threads : <<e, u>> # <<d, t>> =>
                 worker'[e][u].at = IF worker[e][u].at = "writing" THEN "lost" ELSE worker[e][u].at
           /\ stored' = None
<1>1. /\ worker'[d][t] = [at |-> place, data |-> worker[d][t].data] /\ stored' = None
      /\ \A e \in Devices, u \in Threads : <<e, u>> # <<d, t>> => worker'[e][u] = Orphaned(worker[e][u])
  BY RemovesAs
<1>2. worker'[d][t].at = place
  BY <1>1
<1>3. ASSUME NEW e \in Devices, NEW u \in Threads
      PROVE  Orphaned(worker[e][u]).at = IF worker[e][u].at = "writing" THEN "lost" ELSE worker[e][u].at
  <2>1. worker[e][u] \in [at : Places, data : Files]
    BY DEF TypeOK
  <2> QED BY <2>1, OrphanedAs
<1> QED BY <1>1, <1>2, <1>3

LEMMA Server ==
    ASSUME TypeOK
    PROVE  /\ \A d \in Devices, t \in Threads : worker[d][t] \in WorkerType
           /\ \A d \in Devices : up[d] # <<>> =>
                 /\ Head(up[d]) \in Message /\ Tail(up[d]) \in Seq(Message)
                 /\ Final(up[d]) \in Message
                 /\ Tail(up[d]) = <<>> => Final(up[d]) = Head(up[d])
                 /\ Tail(up[d]) # <<>> => Final(Tail(up[d])) = Final(up[d])
           /\ CRC \in Contents
           /\ stored # None => CRC = stored
           /\ Known => Head(file_list) \in Contents
           /\ Tail(file_list) \in Seq(Contents) \/ file_list = <<>>
           /\ "receive" \in Threads /\ "interface" \in Threads
<1>1. \A d \in Devices : up[d] \in Seq(Message)
  BY DEF TypeOK
<1>2. CRC \in Contents /\ (stored # None => CRC = stored)
  BY Things DEF TypeOK, CRC
<1>3. ASSUME NEW d \in Devices, up[d] # <<>>
      PROVE  /\ Head(up[d]) \in Message /\ Tail(up[d]) \in Seq(Message)
             /\ Final(up[d]) \in Message
             /\ Tail(up[d]) = <<>> => Final(up[d]) = Head(up[d])
             /\ Tail(up[d]) # <<>> => Final(Tail(up[d])) = Final(up[d])
  BY <1>1, <1>3, Shorter
<1>4. file_list # <<>> => Head(file_list) \in Contents /\ Tail(file_list) \in Seq(Contents)
  BY Shorter DEF TypeOK
<1>5. \A d \in Devices, t \in Threads : worker[d][t] \in WorkerType
  BY DEF TypeOK, WorkerType
<1> QED BY <1>2, <1>3, <1>4, <1>5 DEF Known, Threads

LEMMA ToldTyped ==
    ASSUME TypeOK, NEW d \in Devices, NEW entry \in {"send", "delete"}, Told(d, entry)
    PROVE  /\ queue' \in [Devices -> Seq({"send", "delete"})]
           /\ queue'[d] = queue[d]
           /\ \A e \in Devices : e # d => queue'[e] # <<>> /\ Final(queue'[e]) = entry
<1>1. \A e \in Devices : queue[e] \in Seq({"send", "delete"})
  BY DEF TypeOK
<1>2. ASSUME NEW e \in Devices
      PROVE  Append(queue[e], entry) \in Seq({"send", "delete"})
             /\ Append(queue[e], entry) # <<>> /\ Final(Append(queue[e], entry)) = entry
  <2>1. queue[e] \in Seq({"send", "delete"})
    BY <1>1
  <2> QED BY <2>1, Longer
<1>3. \A e \in Devices : queue'[e] = IF e = d THEN queue[e] ELSE Append(queue[e], entry)
  BY DEF Told
<1> QED BY <1>1, <1>2, <1>3 DEF Told

LEMMA ReceiveTyped ==
    ASSUME TypeOK, NEW d \in Devices, ReceiveStep(d)
    PROVE  TypeOK'
<1> USE Server
<1>1. CASE ReceiveOpens(d)
  <2> DEFINE w == [at |-> "writing", data |-> Head(up[d]).data]
  <2>1. Head(up[d]).data \in Files
    BY <1>1, Messages, Things DEF ReceiveOpens
  <2>2. w \in WorkerType
    BY <2>1 DEF WorkerType, Places
  <2>3. worker' = [worker EXCEPT ![d]["receive"] = w]
    BY <1>1 DEF ReceiveOpens
  <2> HIDE DEF w
  <2>4. Moves(d, "receive", w)
    BY <2>2, <2>3, MoveOne
  <2>5. raced' \in BOOLEAN
    BY <1>1 DEF ReceiveOpens, TypeOK, Busy
  <2> QED BY <1>1, <2>4, <2>5, Things DEF ReceiveOpens, TypeOK, device, Moves, WorkerType
<1>2. CASE ReceiveWrites(d)
  <2> DEFINE w == [at |-> "test", data |-> None]
  <2>1. w \in WorkerType
    BY Things DEF WorkerType, Places
  <2>2. worker' = [worker EXCEPT ![d]["receive"] = w]
    BY <1>2 DEF ReceiveWrites
  <2> HIDE DEF w
  <2>3. Moves(d, "receive", w)
    BY <2>1, <2>2, MoveOne
  <2>4. stored' \in Files
    BY <1>2 DEF ReceiveWrites, TypeOK
  <2> QED BY <1>2, <2>3, <2>4 DEF ReceiveWrites, TypeOK, device, wires, Moves, WorkerType
<1>3. CASE ReceiveTests(d)
  <2> DEFINE place == CASE Status = "NOT_FOUND" -> "push"
                        [] Status = "UPDATED" -> "refresh"
                        [] Status = "EXISTS" -> "idle"
  <2>1. place \in Places
    BY DEF Places, Status
  <2>2. Goes(d, "receive", place)
    BY <1>3 DEF ReceiveTests
  <2> HIDE DEF place
  <2>3. worker' \in [Devices -> [Threads -> WorkerType]]
    BY <2>1, <2>2, GoesAs DEF Moves
  <2> QED BY <1>3, <2>3 DEF ReceiveTests, TypeOK, device, wires, WorkerType
<1>4. CASE ReceivePushes(d)
  <2>1. worker' \in [Devices -> [Threads -> WorkerType]]
    BY <1>4, GoesAs DEF ReceivePushes, Moves, Places
  <2>2. file_list' \in Seq(Contents)
    BY <1>4, ConcatProperties, One DEF ReceivePushes, Push, TypeOK
  <2>3. UNCHANGED <<running, local, user, receiver, events, batch, up, asked, queue, down,
                   stored, changes, kept, wanted, raced>>
    BY <1>4 DEF ReceivePushes, device, wires
  <2> QED BY <2>1, <2>2, <2>3 DEF TypeOK, WorkerType
<1>5. CASE ReceiveRefreshes(d)
  <2>1. worker' \in [Devices -> [Threads -> WorkerType]]
    BY <1>5, GoesAs DEF ReceiveRefreshes, Moves, Places, TypeOK, WorkerType
  <2>2. file_list' \in Seq(Contents)
    <3>1. \A i \in 1 .. Len(file_list) : [file_list EXCEPT ![i] = CRC] \in Seq(Contents)
      BY ExceptSeq DEF TypeOK
    <3>2. Known => 1 \in 1 .. Len(file_list)
      BY EmptySeq DEF Known, TypeOK
    <3>3. file_list \in Seq(Contents)
      BY DEF TypeOK
    <3>4. file_list' = file_list \/ (Known /\ file_list' = [file_list EXCEPT ![1] = CRC])
      BY <1>5 DEF ReceiveRefreshes
    <3> QED BY <3>1, <3>2, <3>3, <3>4
  <2>3. running' \in BOOLEAN
    BY <1>5 DEF ReceiveRefreshes, TypeOK
  <2> QED BY <1>5, <2>1, <2>2, <2>3 DEF ReceiveRefreshes, TypeOK, device, wires, WorkerType
<1>6. CASE ReceiveTells(d)
  <2>1. worker' \in [Devices -> [Threads -> WorkerType]]
    BY <1>6, GoesAs DEF ReceiveTells, Moves, Places
  <2>2. queue' \in [Devices -> Seq({"send", "delete"})]
    BY <1>6, ToldTyped DEF ReceiveTells
  <2> QED BY <1>6, <2>1, <2>2 DEF ReceiveTells, TypeOK, device, WorkerType
<1>7. CASE ReceiveDeletes(d)
  <2>1. worker' \in [Devices -> [Threads -> WorkerType]] /\ stored' = None
    BY <1>7, RemovesAs DEF ReceiveDeletes, Places
  <2>2. raced' \in BOOLEAN
    BY <1>7 DEF ReceiveDeletes, TypeOK, Busy
  <2> QED BY <1>7, <2>1, <2>2, Things DEF ReceiveDeletes, TypeOK, device, WorkerType
<1> QED BY <1>1, <1>2, <1>3, <1>4, <1>5, <1>6, <1>7 DEF ReceiveStep

LEMMA DeleteTyped ==
    ASSUME TypeOK, NEW d \in Devices, NEW t \in Threads, DeleteStep(d, t)
    PROVE  TypeOK'
<1>1. AfterList(t) \in Places
  BY DEF AfterList, Places
<1>2. CASE DeleteTests(d, t)
  <2> DEFINE place == IF Status = "NOT_FOUND" THEN AfterList(t) ELSE "unlist"
  <2>1. place \in Places
    BY <1>1 DEF Places
  <2>2. Goes(d, t, place)
    BY <1>2 DEF DeleteTests
  <2> HIDE DEF place
  <2>3. worker' \in [Devices -> [Threads -> WorkerType]]
    BY <2>1, <2>2, GoesAs DEF Moves
  <2> QED BY <1>2, <2>3 DEF DeleteTests, TypeOK, device, wires, WorkerType
<1>3. CASE DeleteUnlists(d, t)
  <2>1. worker' \in [Devices -> [Threads -> WorkerType]]
    BY <1>3, GoesAs DEF DeleteUnlists, Moves, Places
  <2>2. file_list' \in Seq(Contents)
    BY <1>3, Server DEF DeleteUnlists, Unlisted, TypeOK
  <2> QED BY <1>3, <2>1, <2>2 DEF DeleteUnlists, TypeOK, device, wires, WorkerType
<1>4. CASE DeleteTells(d, t)
  <2>1. worker' \in [Devices -> [Threads -> WorkerType]]
    BY <1>1, <1>4, GoesAs DEF DeleteTells, Moves
  <2>2. queue' \in [Devices -> Seq({"send", "delete"})]
    BY <1>4, ToldTyped DEF DeleteTells
  <2> QED BY <1>4, <2>1, <2>2 DEF DeleteTells, TypeOK, device, WorkerType
<1> QED BY <1>2, <1>3, <1>4 DEF DeleteStep

LEMMA InterfaceTyped ==
    ASSUME TypeOK, NEW d \in Devices, InterfaceStep(d)
    PROVE  TypeOK'
<1> USE Server
<1>1. CASE InterfaceDeletes(d)
  <2> DEFINE place == IF stored = None THEN "idle" ELSE "gone"
  <2>1. place \in Places
    BY DEF Places
  <2>2. Goes(d, "interface", place)
    BY <1>1 DEF InterfaceDeletes
  <2> HIDE DEF place
  <2>3. worker' \in [Devices -> [Threads -> WorkerType]]
    BY <2>1, <2>2, GoesAs DEF Moves
  <2>4. raced' \in BOOLEAN
    BY <1>1 DEF InterfaceDeletes, TypeOK, Busy
  <2>5. asked' \in [Devices -> Nat]
    <3>1. asked \in [Devices -> Nat] /\ asked[d] - 1 \in Nat
      BY <1>1 DEF InterfaceDeletes, TypeOK
    <3>2. asked' = [asked EXCEPT ![d] = asked[d] - 1]
      BY <1>1 DEF InterfaceDeletes
    <3> QED BY <3>1, <3>2
  <2>6. UNCHANGED <<running, local, user, receiver, events, batch, up, queue, down,
                   stored, file_list, changes, kept, wanted>>
    BY <1>1 DEF InterfaceDeletes, device
  <2> QED BY <2>3, <2>4, <2>5, <2>6 DEF TypeOK, WorkerType
<1>2. CASE InterfaceRemoves(d)
  <2>1. worker' \in [Devices -> [Threads -> WorkerType]] /\ stored' = None
    BY <1>2, RemovesAs DEF InterfaceRemoves, Places
  <2> QED BY <1>2, <2>1, Things DEF InterfaceRemoves, TypeOK, device, wires, WorkerType
<1> QED BY <1>1, <1>2 DEF InterfaceStep

(* What send_f puts on the connection.                                      *)
LEMMA SendsAs ==
    ASSUME TypeOK, NEW d \in Devices, SendsNext(d)
    PROVE  /\ queue' \in [Devices -> Seq({"send", "delete"})]
           /\ down' \in [Devices -> Seq(Message)]
           /\ raced' \in BOOLEAN
           /\ queue'[d] = Tail(queue[d]) /\ queue[d] # <<>>
           /\ Tail(queue[d]) = <<>> => Final(queue[d]) = Head(queue[d])
           /\ Tail(queue[d]) # <<>> => Final(Tail(queue[d])) = Final(queue[d])
           /\ Head(queue[d]) = "send" /\ stored # None =>
                 down'[d] # <<>> /\ Value(Final(down'[d])) = stored
           /\ Head(queue[d]) = "delete" =>
                 down'[d] # <<>> /\ Value(Final(down'[d])) = None
           /\ \A e \in Devices : e # d => queue'[e] = queue[e] /\ down'[e] = down[e]
<1>1. queue \in [Devices -> Seq({"send", "delete"})] /\ down \in [Devices -> Seq(Message)]
  BY DEF TypeOK
<1>2. /\ queue[d] # <<>> /\ Head(queue[d]) \in {"send", "delete"}
      /\ Tail(queue[d]) \in Seq({"send", "delete"})
      /\ Tail(queue[d]) = <<>> => Final(queue[d]) = Head(queue[d])
      /\ Tail(queue[d]) # <<>> => Final(Tail(queue[d])) = Final(queue[d])
  <2>1. queue[d] \in Seq({"send", "delete"}) /\ queue[d] # <<>>
    BY <1>1 DEF SendsNext
  <2> QED BY <2>1, Shorter
<1>3. raced' \in BOOLEAN
  BY DEF SendsNext, TypeOK
<1> DEFINE m == IF Head(queue[d]) = "send" THEN [type |-> "send", data |-> stored]
                ELSE [type |-> "delete", data |-> None]
<1>4. CASE Head(queue[d]) = "send" /\ stored = None
  <2>1. down' = down
    BY <1>4 DEF SendsNext, Missing
  <2> QED BY <1>1, <1>2, <1>3, <1>4, <2>1 DEF SendsNext
<1>5. CASE ~(Head(queue[d]) = "send" /\ stored = None)
  <2>1. m \in Message /\ Value(m) = IF Head(queue[d]) = "send" THEN stored ELSE None
    BY <1>5, Messages, Things DEF TypeOK
  <2>2. down' = [down EXCEPT ![d] = Append(@, m)]
    BY <1>5 DEF SendsNext, Missing
  <2> HIDE DEF m
  <2>3. Append(down[d], m) \in Seq(Message) /\ Append(down[d], m) # <<>> /\ Final(Append(down[d], m)) = m
    BY <1>1, <2>1, Longer
  <2>4. down' \in [Devices -> Seq(Message)] /\ down'[d] = Append(down[d], m)
        /\ \A e \in Devices : e # d => down'[e] = down[e]
    BY <1>1, <2>2, <2>3
  <2>5. queue' = [queue EXCEPT ![d] = Tail(@)]
    BY DEF SendsNext
  <2>6. queue' \in [Devices -> Seq({"send", "delete"})] /\ queue'[d] = Tail(queue[d])
        /\ \A e \in Devices : e # d => queue'[e] = queue[e]
    BY <1>1, <1>2, <2>5
  <2> QED BY <1>2, <1>3, <2>1, <2>3, <2>4, <2>6
<1> QED BY <1>4, <1>5

LEMMA TypeStep == TypeOK /\ [Next]_vars => TypeOK'
<1> SUFFICES ASSUME TypeOK, [Next]_vars PROVE TypeOK'
  OBVIOUS
<1>1. ASSUME NEW d \in Devices, SendsNext(d) PROVE TypeOK'
  BY <1>1, SendsAs DEF SendsNext, TypeOK, device, server
<1>2. CASE UNCHANGED vars
  BY <1>2 DEF vars, device, wires, server, TypeOK
<1> QED BY <1>1, <1>2, UserTyped, WatcherTyped, ReceiverTyped, ReceiveTyped, DeleteTyped,
           InterfaceTyped DEF Next

LEMMA TypeInit == Init => TypeOK
<1> SUFFICES ASSUME Init PROVE TypeOK
  OBVIOUS
<1>1. <<>> \in Seq(Events) /\ <<>> \in Seq(Message) /\ <<>> \in Seq({"send", "delete"}) /\ <<>> \in Seq(Contents)
  OBVIOUS
<1>2. [at |-> "idle", data |-> None] \in WorkerType
  BY Things DEF WorkerType, Places
<1> QED BY <1>1, <1>2, Things DEF Init, TypeOK, WorkerType

(* The model is well typed: in particular only contents go on the list and  *)
(* only files that are there go out.                                        *)
THEOREM TypeCorrect == Spec => []TypeOK
BY TypeInit, TypeStep, PTL DEF Spec

-----------------------------------------------------------------------------
(* One thread at a time: the list and the folder.                           *)

LEMMA Alone ==
    ASSUME ListSerial, NEW d \in Devices, NEW t \in Threads, Taken(d, t)
    PROVE  \A e \in Devices, u \in Threads : <<e, u>> # <<d, t>> => ~Taken(e, u)
BY DEF ListSerial, OneAtWork

LEMMA SerialBy ==
    ASSUME NEW d \in Devices, NEW t \in Threads,
           \A e \in Devices, u \in Threads : <<e, u>> # <<d, t>> => worker'[e][u].at = "idle",
           InHand(d, t)',
           worker'[d][t].at # "idle" \/ file_list' = IF stored' = None THEN <<>> ELSE <<stored'>>
    PROVE  ListSerial'
<1>1. ASSUME NEW e \in Devices, NEW u \in Threads PROVE InHand(e, u)'
  <2>1. CASE <<e, u>> = <<d, t>>
    BY <2>1
  <2>2. CASE <<e, u>> # <<d, t>>
    BY <2>2 DEF InHand, Place
  <2> QED BY <2>1, <2>2
<1>2. OneAtWork'
  BY DEF OneAtWork, Taken
<1>3. AtRest'
  BY DEF AtRest, Taken
<1> QED BY <1>1, <1>2, <1>3 DEF ListSerial

LEMMA SerialStill ==
    ASSUME ListSerial, UNCHANGED server
    PROVE  ListSerial'
BY DEF ListSerial, OneAtWork, InHand, AtRest, Taken, Place, Short, server

LEMMA Shortness ==
    /\ <<>> = <<>> /\ \A x : <<x>> # <<>> /\ Head(<<x>>) = x /\ Tail(<<x>>) = <<>>
                             /\ Push(<<>>, x) = <<x>>
                             /\ \A y : [<<x>> EXCEPT ![1] = y] = <<y>>
    /\ \A x, y : <<x>> = <<y>> => x = y
BY DEF Push

LEMMA SerialReceive ==
    ASSUME TypeOK, Divided, ListSerial, NEW d \in Devices, ReceiveStep(d), ~raced', running'
    PROVE  ListSerial'
<1> DEFINE w == worker'[d]["receive"].at
<1>0. "receive" \in Threads
  BY DEF Threads
<1>1. CASE ReceiveOpens(d)
  <2>1. \A e \in Devices, u \in Threads : <<e, u>> # <<d, "receive">> => worker[e][u].at = "idle"
    BY <1>1 DEF ReceiveOpens, Busy
  <2>2. /\ \A e \in Devices, u \in Threads : <<e, u>> # <<d, "receive">> => worker'[e][u].at = "idle"
        /\ w = "writing"
    BY <1>0, <1>1, <2>1 DEF ReceiveOpens, TypeOK
  <2>3. Short'
    <3>1. file_list = IF stored = None THEN <<>> ELSE <<stored>>
      BY <1>1, <2>1 DEF ReceiveOpens, ListSerial, AtRest, At, Taken
    <3> QED BY <1>1, <3>1, Things DEF ReceiveOpens, Short, TypeOK
  <2>4. InHand(d, "receive")'
    BY <1>1, <2>2, <2>3 DEF InHand, Place, ReceiveOpens
  <2> QED BY <1>0, <2>2, <2>4, SerialBy
<1>2. ASSUME Taken(d, "receive"), \E place \in Places : Goes(d, "receive", place)
      PROVE  /\ \A e \in Devices, u \in Threads : <<e, u>> # <<d, "receive">> => worker'[e][u].at = "idle"
             /\ \A place \in Places : Goes(d, "receive", place) => w = place
  BY <1>0, <1>2, Alone, GoesTo DEF Taken
<1>3. InHand(d, "receive")
  BY <1>0 DEF ListSerial
<1>4. CASE ReceiveWrites(d)
  <2>1. worker[d]["receive"].at = "writing" /\ Short
    BY <1>3, <1>4 DEF InHand, Place, ReceiveWrites, At
  <2>2. worker' = [worker EXCEPT ![d]["receive"] = [at |-> "test", data |-> None]]
        /\ stored' = worker[d]["receive"].data /\ file_list' = file_list
    BY <1>4, <2>1 DEF ReceiveWrites
  <2>3. /\ \A e \in Devices, u \in Threads : <<e, u>> # <<d, "receive">> => worker'[e][u].at = "idle"
        /\ w = "test"
    <3> DEFINE next == [at |-> "test", data |-> None]
    <3>1. next \in WorkerType /\ next.at = "test"
      BY Things DEF WorkerType, Places
    <3>2. worker' = [worker EXCEPT ![d]["receive"] = next]
      BY <2>2
    <3> HIDE DEF next
    <3>3. Moves(d, "receive", next)
      BY <1>0, <3>1, <3>2, MoveOne
    <3>4. \A e \in Devices, u \in Threads : <<e, u>> # <<d, "receive">> => worker[e][u].at = "idle"
      BY <1>0, <2>1, Alone DEF Taken
    <3> QED BY <3>1, <3>3, <3>4 DEF Moves
  <2>4. stored' # None
    BY <2>1, <2>2, Things DEF Divided
  <2>5. Short'
    BY <2>1, <2>2 DEF Short
  <2>6. InHand(d, "receive")'
    BY <2>3, <2>4, <2>5 DEF InHand, Place
  <2> QED BY <1>0, <2>3, <2>6, SerialBy
<1>5. CASE ReceiveTests(d)
  <2> DEFINE place == CASE Status = "NOT_FOUND" -> "push"
                        [] Status = "UPDATED" -> "refresh"
                        [] Status = "EXISTS" -> "idle"
  <2>1. place \in Places /\ Goes(d, "receive", place)
    BY <1>5 DEF Places, Status, ReceiveTests
  <2>2. Taken(d, "receive") /\ stored # None /\ Short /\ UNCHANGED <<file_list, stored>>
    BY <1>3, <1>5 DEF ReceiveTests, At, Taken, InHand, Place
  <2>3. place = IF file_list = <<>> THEN "push" ELSE IF file_list = <<stored>> THEN "idle" ELSE "refresh"
    BY <2>2, Shortness DEF Status, Known, Short, CRC
  <2> HIDE DEF place
  <2>4. /\ \A e \in Devices, u \in Threads : <<e, u>> # <<d, "receive">> => worker'[e][u].at = "idle"
        /\ w = place
    BY <1>2, <2>1, <2>2
  <2>5. Short'
    BY <2>2 DEF Short
  <2>6. InHand(d, "receive")'
    BY <2>2, <2>3, <2>4, <2>5 DEF InHand, Place
  <2>7. w # "idle" \/ file_list' = IF stored' = None THEN <<>> ELSE <<stored'>>
    BY <2>2, <2>3, <2>4
  <2> QED BY <1>0, <2>4, <2>6, <2>7, SerialBy
<1>6. CASE ReceivePushes(d)
  <2>1. Taken(d, "receive") /\ stored # None /\ file_list = <<>> /\ stored' = stored
        /\ file_list' = Push(file_list, CRC) /\ Goes(d, "receive", "send")
    BY <1>3, <1>6 DEF ReceivePushes, At, Taken, InHand, Place
  <2>2. /\ \A e \in Devices, u \in Threads : <<e, u>> # <<d, "receive">> => worker'[e][u].at = "idle"
        /\ w = "send"
    BY <1>2, <2>1 DEF Places
  <2>3. file_list' = <<stored'>>
    BY <2>1, Shortness DEF CRC
  <2>4. InHand(d, "receive")'
    BY <2>1, <2>2, <2>3 DEF InHand, Place
  <2> QED BY <1>0, <2>2, <2>4, SerialBy
<1>7. CASE ReceiveRefreshes(d)
  <2>1. Taken(d, "receive") /\ stored # None /\ Short /\ stored' = stored
        /\ file_list' = [file_list EXCEPT ![1] = CRC] /\ Goes(d, "receive", "send") /\ file_list # <<>>
    BY <1>3, <1>7 DEF ReceiveRefreshes, At, Taken, InHand, Place, Known
  <2>2. /\ \A e \in Devices, u \in Threads : <<e, u>> # <<d, "receive">> => worker'[e][u].at = "idle"
        /\ w = "send"
    BY <1>2, <2>1 DEF Places
  <2>3. file_list' = <<stored'>>
    BY <2>1, Shortness DEF CRC, Short
  <2>4. InHand(d, "receive")'
    BY <2>1, <2>2, <2>3 DEF InHand, Place
  <2> QED BY <1>0, <2>2, <2>4, SerialBy
<1>8. CASE ReceiveTells(d)
  <2>1. Taken(d, "receive") /\ stored # None /\ UNCHANGED <<file_list, stored>>
        /\ file_list = <<stored>> /\ Goes(d, "receive", "idle")
    BY <1>3, <1>8 DEF ReceiveTells, At, Taken, InHand, Place
  <2>2. /\ \A e \in Devices, u \in Threads : <<e, u>> # <<d, "receive">> => worker'[e][u].at = "idle"
        /\ w = "idle"
    BY <1>2, <2>1 DEF Places
  <2>3. InHand(d, "receive")'
    BY <2>2 DEF InHand, Place
  <2> QED BY <1>0, <2>1, <2>2, <2>3, SerialBy
<1>9. CASE ReceiveDeletes(d)
  <2>1. \A e \in Devices, u \in Threads : <<e, u>> # <<d, "receive">> => worker[e][u].at = "idle"
    BY <1>9 DEF ReceiveDeletes, Busy
  <2>2. /\ worker'[d]["receive"].at = "gone" /\ stored' = None
        /\ \A e \in Devices, u \in Threads : <<e, u>> # <<d, "receive">> =>
              worker'[e][u].at = IF worker[e][u].at = "writing" THEN "lost" ELSE worker[e][u].at
    BY <1>0, <1>9, RemovesTo DEF ReceiveDeletes, Places
  <2>4. \A e \in Devices, u \in Threads : <<e, u>> # <<d, "receive">> => worker'[e][u].at = "idle"
    BY <2>1, <2>2
  <2>5. Short'
    <3>1. file_list = IF stored = None THEN <<>> ELSE <<stored>>
      BY <1>9, <2>1 DEF ReceiveDeletes, ListSerial, AtRest, At, Taken
    <3> QED BY <1>9, <3>1, Things DEF ReceiveDeletes, Short, TypeOK
  <2>6. InHand(d, "receive")'
    BY <2>2, <2>5 DEF InHand, Place
  <2> QED BY <1>0, <2>2, <2>4, <2>6, SerialBy
<1> QED BY <1>1, <1>4, <1>5, <1>6, <1>7, <1>8, <1>9 DEF ReceiveStep

LEMMA SerialDelete ==
    ASSUME TypeOK, Divided, ListSerial, NEW d \in Devices, NEW t \in Threads, DeleteStep(d, t)
    PROVE  ListSerial'
<1> DEFINE w == worker'[d][t].at
<1>1. ASSUME Taken(d, t), \E place \in Places : Goes(d, t, place)
      PROVE  /\ \A e \in Devices, u \in Threads : <<e, u>> # <<d, t>> => worker'[e][u].at = "idle"
             /\ \A place \in Places : Goes(d, t, place) => w = place
  BY <1>1, Alone, GoesTo DEF Taken
<1>2. InHand(d, t)
  BY DEF ListSerial
<1>3. AfterList(t) \in Places /\ AfterList(t) = IF t = "receive" THEN "idle" ELSE "remove"
  BY DEF AfterList, Places
<1>4. CASE DeleteTests(d, t)
  <2> DEFINE place == IF Status = "NOT_FOUND" THEN AfterList(t) ELSE "unlist"
  <2>1. place \in Places /\ Goes(d, t, place)
    BY <1>3, <1>4 DEF Places, DeleteTests
  <2>2. Taken(d, t) /\ UNCHANGED <<file_list, stored>>
        /\ IF t = "receive" THEN stored = None /\ Short ELSE stored # None /\ file_list = <<stored>>
    BY <1>2, <1>4 DEF DeleteTests, At, Taken, InHand, Place
  <2>3. place = IF file_list = <<>> THEN AfterList(t) ELSE "unlist"
    BY DEF Status, Known
  <2>4. t = "receive" \/ file_list # <<>>
    BY <2>2, Shortness
  <2> HIDE DEF place
  <2>5. /\ \A e \in Devices, u \in Threads : <<e, u>> # <<d, t>> => worker'[e][u].at = "idle"
        /\ w = place
    BY <1>1, <2>1, <2>2
  <2>6. Short'
    BY <2>2, Things DEF Short, TypeOK
  <2>7. InHand(d, t)'
    BY <1>3, <2>2, <2>3, <2>4, <2>5, <2>6 DEF InHand, Place
  <2>8. w # "idle" \/ file_list' = IF stored' = None THEN <<>> ELSE <<stored'>>
    BY <1>3, <2>2, <2>3, <2>4, <2>5
  <2> QED BY <2>5, <2>7, <2>8, SerialBy
<1>5. CASE DeleteUnlists(d, t)
  <2>1. Taken(d, t) /\ stored' = stored /\ (t = "receive" <=> stored = None) /\ Short /\ file_list # <<>>
        /\ file_list' = Unlisted /\ Goes(d, t, "delete")
    BY <1>2, <1>5 DEF DeleteUnlists, At, Taken, InHand, Place
  <2>2. /\ \A e \in Devices, u \in Threads : <<e, u>> # <<d, t>> => worker'[e][u].at = "idle"
        /\ w = "delete"
    BY <1>1, <2>1 DEF Places
  <2>3. file_list' = <<>>
    BY <2>1, Shortness DEF Unlisted, Short
  <2>4. InHand(d, t)'
    BY <2>1, <2>2, <2>3 DEF InHand, Place
  <2> QED BY <2>2, <2>4, SerialBy
<1>6. CASE DeleteTells(d, t)
  <2>1. Taken(d, t) /\ UNCHANGED <<stored, file_list>> /\ (t = "receive" <=> stored = None)
        /\ file_list = <<>> /\ Goes(d, t, AfterList(t))
    BY <1>2, <1>6 DEF DeleteTells, At, Taken, InHand, Place
  <2>2. /\ \A e \in Devices, u \in Threads : <<e, u>> # <<d, t>> => worker'[e][u].at = "idle"
        /\ w = AfterList(t)
    BY <1>1, <1>3, <2>1
  <2>3. InHand(d, t)'
    BY <1>3, <2>1, <2>2 DEF InHand, Place
  <2>4. w # "idle" \/ file_list' = IF stored' = None THEN <<>> ELSE <<stored'>>
    BY <1>3, <2>1, <2>2
  <2> QED BY <2>2, <2>3, <2>4, SerialBy
<1> QED BY <1>4, <1>5, <1>6 DEF DeleteStep

LEMMA SerialInterface ==
    ASSUME TypeOK, Divided, ListSerial, NEW d \in Devices, InterfaceStep(d), ~raced'
    PROVE  ListSerial'
<1>0. "interface" \in Threads
  BY DEF Threads
<1>1. CASE InterfaceDeletes(d)
  <2>1. \A e \in Devices, u \in Threads : worker[e][u].at = "idle"
    BY <1>1 DEF InterfaceDeletes, Busy, At
  <2>2. file_list = (IF stored = None THEN <<>> ELSE <<stored>>) /\ UNCHANGED <<file_list, stored>>
    BY <1>1, <2>1 DEF InterfaceDeletes, ListSerial, AtRest, Taken
  <2> DEFINE place == IF stored = None THEN "idle" ELSE "gone"
  <2>3. place \in Places /\ Goes(d, "interface", place)
    BY <1>1 DEF Places, InterfaceDeletes
  <2>4. /\ \A e \in Devices, u \in Threads : <<e, u>> # <<d, "interface">> => worker'[e][u].at = "idle"
        /\ worker'[d]["interface"].at = place
    BY <1>0, <2>1, <2>3, GoesTo
  <2>5. InHand(d, "interface")'
    BY <2>2, <2>4 DEF InHand, Place
  <2> QED BY <1>0, <2>2, <2>4, <2>5, SerialBy
<1>2. CASE InterfaceRemoves(d)
  <2>1. worker[d]["interface"].at = "remove" /\ file_list = <<>> /\ file_list' = file_list
    BY <1>0, <1>2 DEF InterfaceRemoves, At, ListSerial, InHand, Place
  <2>2. \A e \in Devices, u \in Threads : <<e, u>> # <<d, "interface">> => worker[e][u].at = "idle"
    BY <1>0, <2>1, Alone DEF Taken
  <2>3. /\ worker'[d]["interface"].at = "idle" /\ stored' = None
        /\ \A e \in Devices, u \in Threads : <<e, u>> # <<d, "interface">> =>
              worker'[e][u].at = IF worker[e][u].at = "writing" THEN "lost" ELSE worker[e][u].at
    BY <1>0, <1>2, RemovesTo DEF InterfaceRemoves, Places
  <2>5. \A e \in Devices, u \in Threads : <<e, u>> # <<d, "interface">> => worker'[e][u].at = "idle"
    BY <2>2, <2>3
  <2>6. InHand(d, "interface")'
    BY <2>3 DEF InHand, Place
  <2> QED BY <1>0, <2>1, <2>3, <2>5, <2>6, SerialBy
<1> QED BY <1>1, <1>2 DEF InterfaceStep

LEMMA DividedStep == TypeOK /\ Divided /\ [Next]_vars => Divided'
<1> SUFFICES ASSUME TypeOK, Divided, [Next]_vars PROVE Divided'
  OBVIOUS
<1>0. "receive" \in Threads /\ "interface" \in Threads
  BY DEF Threads
<1> DEFINE Apart == \A x \in Devices :
              /\ worker'[x]["receive"].at # "remove"
              /\ worker'[x]["interface"].at \in {"idle", "gone", "unlist", "delete", "remove"}
              /\ worker'[x]["receive"].at = "writing" => worker'[x]["receive"].data \in Contents
           Texts == \A x \in Devices :
              /\ user'[x].at = "writing" => user'[x].data \in Contents
              /\ receiver'[x].at = "writing" => receiver'[x].data \in Contents
<1>1. Apart /\ Texts => Divided'
  BY DEF Divided
<1>2. worker' = worker => Apart
  BY DEF Divided
<1>3. user' = user /\ receiver' = receiver => Texts
  BY DEF Divided
<1>4. ASSUME NEW d \in Devices, NEW t \in Threads, NEW place \in Places, Goes(d, t, place),
             place # "writing",
             t = "receive" => place # "remove",
             t = "interface" => place \in {"idle", "gone", "unlist", "delete", "remove"}
      PROVE  Apart
  <2>1. /\ worker'[d][t].at = place
        /\ \A e \in Devices, u \in Threads : <<e, u>> # <<d, t>> => worker'[e][u] = worker[e][u]
    BY <1>4, GoesTo
  <2> QED BY <1>0, <1>4, <2>1 DEF Divided, Threads
<1>5. ASSUME NEW d \in Devices, NEW t \in Threads, NEW place \in Places, Removes(d, t, place),
             place # "writing", t = "receive" => place # "remove",
             t = "interface" => place \in {"idle", "gone", "unlist", "delete", "remove"}
      PROVE  Apart
  <2>1. /\ worker'[d][t].at = place
        /\ \A e \in Devices, u \in Threads : <<e, u>> # <<d, t>> =>
              worker'[e][u].at = IF worker[e][u].at = "writing" THEN "lost" ELSE worker[e][u].at
    BY <1>5, RemovesTo
  <2> QED BY <1>0, <1>5, <2>1 DEF Divided, Threads
<1>6. ASSUME NEW d \in Devices, UserStep(d) \/ UserCloses(d) PROVE Divided'
  <2>1. worker' = worker
    BY <1>6 DEF UserStep, UserCloses, UserOpens, UserDeletes, UserAsks, server
  <2>2. CASE \E v \in Values : UserOpens(d, v)
    BY <2>1, <2>2, <1>1, <1>2, Things DEF UserOpens, TypeOK, Divided
  <2>3. CASE UserDeletes(d)
    <3>1. receiver[d] \in Writing
      BY DEF TypeOK
    <3> QED BY <2>1, <2>3, <3>1, <1>1, <1>2, OrphanedAs DEF UserDeletes, TypeOK, Divided
  <2>4. CASE UserAsks(d)
    BY <2>1, <2>4, <1>1, <1>2, <1>3 DEF UserAsks, device
  <2>5. CASE UserCloses(d)
    BY <2>1, <2>5, <1>1, <1>2 DEF UserCloses, TypeOK, Divided, NotWriting
  <2> QED BY <1>6, <2>2, <2>3, <2>4, <2>5 DEF UserStep
<1>7. ASSUME NEW d \in Devices, ReceiverStep(d) PROVE Divided'
  <2>1. worker' = worker
    BY <1>7 DEF ReceiverStep, ReceiverOpens, ReceiverCloses, ReceiverDeletes, server
  <2>2. CASE ReceiverOpens(d)
    <3>1. Head(down[d]).data \in Contents
      <4>1. down[d] \in Seq(Message) /\ down[d] # <<>> /\ Head(down[d]).type = "send"
        BY <2>2 DEF ReceiverOpens, TypeOK
      <4> QED BY <4>1, Shorter, Messages
    <3> QED BY <2>1, <2>2, <3>1, <1>1, <1>2 DEF ReceiverOpens, TypeOK, Divided
  <2>3. CASE ReceiverCloses(d)
    BY <2>1, <2>3, <1>1, <1>2 DEF ReceiverCloses, TypeOK, Divided, NotWriting
  <2>4. CASE ReceiverDeletes(d)
    <3>1. user[d] \in Writing
      BY DEF TypeOK
    <3> QED BY <2>1, <2>4, <3>1, <1>1, <1>2, OrphanedAs DEF ReceiverDeletes, TypeOK, Divided
  <2> QED BY <1>7, <2>2, <2>3, <2>4 DEF ReceiverStep
<1>8. ASSUME NEW d \in Devices, ReceiveStep(d) PROVE Divided'
  <2>1. user' = user /\ receiver' = receiver
    BY <1>8 DEF ReceiveStep, ReceiveOpens, ReceiveWrites, ReceiveTests, ReceivePushes,
                ReceiveRefreshes, ReceiveTells, ReceiveDeletes, device
  <2>2. CASE ReceiveOpens(d)
    <3>1. Head(up[d]).data \in Contents
      <4>1. up[d] \in Seq(Message) /\ up[d] # <<>> /\ Head(up[d]).type = "send"
        BY <2>2 DEF ReceiveOpens, TypeOK
      <4> QED BY <4>1, Shorter, Messages
    <3>2. Apart
      BY <1>0, <2>2, <3>1 DEF ReceiveOpens, TypeOK, Divided
    <3> QED BY <1>1, <1>3, <2>1, <3>2
  <2>3. CASE ReceiveWrites(d)
    <3>1. Apart
      BY <1>0, <2>3 DEF ReceiveWrites, TypeOK, Divided
    <3> QED BY <1>1, <1>3, <2>1, <3>1
  <2>4. CASE ReceiveTests(d)
    <3> DEFINE place == CASE Status = "NOT_FOUND" -> "push"
                          [] Status = "UPDATED" -> "refresh"
                          [] Status = "EXISTS" -> "idle"
    <3>1. place \in {"push", "refresh", "idle"} /\ Goes(d, "receive", place)
      BY <2>4 DEF Status, ReceiveTests
    <3> HIDE DEF place
    <3>2. Apart
      BY <1>0, <1>4, <3>1 DEF Places
    <3> QED BY <1>1, <1>3, <2>1, <3>2
  <2>5. CASE ReceivePushes(d) \/ (ReceiveRefreshes(d) /\ Known) \/ ReceiveTells(d)
    <3>1. Apart
      BY <1>0, <1>4, <2>5 DEF Places, ReceivePushes, ReceiveRefreshes, ReceiveTells
    <3> QED BY <1>1, <1>3, <2>1, <3>1
  <2>6. CASE ReceiveRefreshes(d) /\ ~Known
    BY <1>1, <1>2, <1>3, <2>1, <2>6 DEF ReceiveRefreshes
  <2>7. CASE ReceiveDeletes(d)
    <3>1. Apart
      BY <1>0, <1>5, <2>7 DEF Places, ReceiveDeletes
    <3> QED BY <1>1, <1>3, <2>1, <3>1
  <2> QED BY <1>8, <2>2, <2>3, <2>4, <2>5, <2>6, <2>7 DEF ReceiveStep
<1>9. ASSUME NEW d \in Devices, NEW t \in Threads, DeleteStep(d, t) PROVE Divided'
  <2>1. user' = user /\ receiver' = receiver
    BY <1>9 DEF DeleteStep, DeleteTests, DeleteUnlists, DeleteTells, device
  <2>2. \E place \in {"idle", "remove", "unlist", "delete"} :
           Goes(d, t, place) /\ (t = "receive" => place # "remove")
    BY <1>9 DEF DeleteStep, DeleteTests, DeleteUnlists, DeleteTells, AfterList
  <2>3. Apart
    BY <1>4, <2>2 DEF Places
  <2> QED BY <1>1, <1>3, <2>1, <2>3
<1>10. ASSUME NEW d \in Devices, InterfaceStep(d) PROVE Divided'
  <2>1. user' = user /\ receiver' = receiver
    BY <1>10 DEF InterfaceStep, InterfaceDeletes, InterfaceRemoves, device
  <2>2. CASE InterfaceDeletes(d)
    <3>1. \E place \in {"idle", "gone"} : Goes(d, "interface", place)
      BY <2>2 DEF InterfaceDeletes
    <3>2. Apart
      BY <1>0, <1>4, <3>1 DEF Places
    <3> QED BY <1>1, <1>3, <2>1, <3>2
  <2>3. CASE InterfaceRemoves(d)
    <3>1. Apart
      BY <1>0, <1>5, <2>3 DEF Places, InterfaceRemoves
    <3> QED BY <1>1, <1>3, <2>1, <3>1
  <2> QED BY <1>10, <2>2, <2>3 DEF InterfaceStep
<1>11. ASSUME NEW d \in Devices, WatcherStep(d) \/ SendsNext(d) PROVE Divided'
  BY <1>1, <1>2, <1>3, <1>11 DEF WatcherStep, WatcherReads, WatcherSends, WatcherDeletes, SendsNext, device, server
<1>12. CASE UNCHANGED vars
  BY <1>1, <1>2, <1>3, <1>12 DEF vars, device, server
<1> QED BY <1>6, <1>7, <1>8, <1>9, <1>10, <1>11, <1>12 DEF Next

-----------------------------------------------------------------------------
(* The directories.                                                         *)

LEMMA Untouched ==
    ASSUME NEW x \in Devices, DeviceInv(x), UNCHANGED <<worker, stored, file_list>>,
           local'[x] = local[x], user'[x] = user[x], receiver'[x] = receiver[x],
           events'[x] = events[x], batch'[x] = batch[x], up'[x] = up[x],
           queue'[x] = queue[x], down'[x] = down[x], x \in kept => x \in kept'
    PROVE  DeviceInv(x)'
<1>1. Stirred(x)' <=> Stirred(x)
  BY DEF Stirred
<1>2. Unlost(x)' /\ EventsTell(x)'
  BY DEF DeviceInv, Unlost, EventsTell
<1>3. UploadsTell(x)'
  BY <1>1 DEF DeviceInv, UploadsTell, Offer, Taken
<1>4. Calm(x)' => Calm(x)
  BY <1>1 DEF Calm, Taken, WillTell, Status, Known, CRC
<1>5. Served(x) => Served(x)'
  BY DEF Served, Public, Leads
<1> QED BY <1>2, <1>3, <1>4, <1>5 DEF DeviceInv

(* While something is to be reported nothing else is promised.              *)
LEMMA StirredUp ==
    ASSUME NEW x \in Devices, Unlost(x)', EventsTell(x)', Stirred(x)'
    PROVE  DeviceInv(x)'
BY DEF DeviceInv, UploadsTell, Calm

LEMMA UserKeeps ==
    ASSUME TypeOK, Divided, NEW d \in Devices, DeviceInv(d), ~raced',
           (\E v \in Values : UserOpens(d, v)) \/ UserDeletes(d) \/ UserCloses(d)
    PROVE  DeviceInv(d)'
<1>0. user[d] \in Writing /\ receiver[d] \in Writing /\ local[d] \in Files
  BY DEF TypeOK
<1>1. CASE \E v \in Values : UserOpens(d, v)
  <2> PICK v \in Values : UserOpens(d, v)
    BY <1>1
  <2>1. Truncates(d) /\ receiver' = receiver /\ batch' = batch
    BY DEF UserOpens
  <2>2. user'[d].at = "writing"
    BY DEF UserOpens, TypeOK
  <2>3. Unlost(d)' /\ Stirred(d)'
    BY <2>1, <2>2 DEF Unlost, Stirred, DeviceInv
  <2>4. local'[d] = Empty /\ Empty # None
    BY <2>1, TruncatesAs, Things DEF TypeOK
  <2>5. EventsTell(d)'
    <3>1. CASE local[d] = None
      BY <2>1, <2>4, <3>1, TruncatesAs DEF EventsTell
    <3>2. CASE local[d] # None
      BY <2>1, <2>4, <3>2, TruncatesAs DEF EventsTell, DeviceInv
    <3> QED BY <3>1, <3>2
  <2> QED BY <2>3, <2>5, StirredUp
<1>2. CASE UserDeletes(d)
  <2>1. Unlinks(d) /\ local[d] # None /\ user' = user /\ user[d].at = "idle" /\ batch' = batch
    BY <1>2 DEF UserDeletes
  <2>2. receiver[d].at = "idle" /\ receiver' = [receiver EXCEPT ![d] = Orphaned(@)]
    BY <1>2 DEF UserDeletes, BeingWritten
  <2>3. receiver'[d] = receiver[d]
    BY <1>0, <2>2, OrphanedAs DEF TypeOK
  <2>4. local'[d] = None /\ events'[d] # <<>> /\ Final(events'[d]) = "delete"
    BY <2>1, UnlinksAs DEF TypeOK
  <2>5. Unlost(d)' /\ Stirred(d)' /\ EventsTell(d)'
    BY <2>1, <2>2, <2>3, <2>4 DEF Unlost, Stirred, EventsTell
  <2> QED BY <2>5, StirredUp
<1>3. CASE UserCloses(d)
  <2>1. user[d].at = "writing" /\ user[d].data \in Contents
    BY <1>0, <1>3 DEF UserCloses, DeviceInv, Unlost, Writing, Divided
  <2>2. Fills(d, user[d]) /\ user'[d] = NotWriting /\ UNCHANGED <<receiver, batch>>
    BY <1>3 DEF UserCloses, TypeOK
  <2>3. local'[d] # None /\ events'[d] # <<>> /\ Final(events'[d]) = "write"
    BY <1>0, <2>1, <2>2, FillsAs, Things DEF TypeOK
  <2>4. Unlost(d)' /\ Stirred(d)' /\ EventsTell(d)'
    BY <2>2, <2>3 DEF Unlost, Stirred, EventsTell, NotWriting, DeviceInv
  <2> QED BY <2>4, StirredUp
<1> QED BY <1>1, <1>2, <1>3

LEMMA WatcherKeeps ==
    ASSUME TypeOK, NEW d \in Devices, DeviceInv(d), ~raced', WatcherStep(d)
    PROVE  DeviceInv(d)'
<1>0. /\ batch[d] \in Seq(Events) /\ up[d] \in Seq(Message) /\ local[d] \in Files
      /\ up \in [Devices -> Seq(Message)]
  BY DEF TypeOK
<1>1. CASE WatcherReads(d)
  <2>1. /\ batch'[d] = events[d] /\ events'[d] = <<>> /\ events[d] # <<>>
        /\ UNCHANGED <<local, user, receiver>>
    BY <1>1 DEF WatcherReads, TypeOK
  <2>2. Unlost(d)' /\ Stirred(d)' /\ EventsTell(d)'
    BY <2>1 DEF Unlost, Stirred, EventsTell, DeviceInv
  <2> QED BY <2>2, StirredUp
<1>2. ASSUME batch[d] # <<>>, Handled(d), UNCHANGED <<local, user, receiver, events>>
      PROVE  /\ Unlost(d)' /\ EventsTell(d)'
             /\ ~Stirred(d)' => /\ Head(batch[d]) = "delete" <=> local[d] = None
                                /\ user[d].at = "idle" /\ receiver[d].at = "idle"
  <2>1. batch'[d] = Tail(batch[d])
    BY <1>2, BatchAs
  <2>2. /\ Tail(batch[d]) = <<>> => Final(batch[d]) = Head(batch[d])
        /\ Tail(batch[d]) # <<>> => Final(Tail(batch[d])) = Final(batch[d])
    BY <1>0, <1>2, Shorter
  <2>3. Unlost(d)'
    BY <1>2 DEF Unlost, DeviceInv
  <2>4. EventsTell(d)'
    BY <1>2, <2>1, <2>2 DEF EventsTell, DeviceInv
  <2> QED BY <1>2, <2>1, <2>2, <2>3, <2>4 DEF EventsTell, DeviceInv, Stirred
<1>3. ASSUME NEW m \in Message, up' = [up EXCEPT ![d] = Append(@, m)]
      PROVE  up'[d] # <<>> /\ Final(up'[d]) = m
  <2>1. Append(up[d], m) # <<>> /\ Final(Append(up[d], m)) = m
    BY <1>0, Longer
  <2> QED BY <1>0, <1>3, <2>1
<1>4. ASSUME NEW m \in Message, up' = [up EXCEPT ![d] = Append(@, m)],
             Unlost(d)', EventsTell(d)', ~Stirred(d)' => Value(m) = local'[d]
      PROVE  DeviceInv(d)'
  <2>1. up'[d] # <<>> /\ Final(up'[d]) = m
    BY <1>3, <1>4
  <2> QED BY <1>4, <2>1 DEF DeviceInv, UploadsTell, Calm
<1>5. CASE WatcherSends(d)
  <2>1. /\ batch[d] # <<>> /\ Handled(d) /\ UNCHANGED <<local, user, receiver, events>>
        /\ Head(batch[d]) # "delete"
    BY <1>5 DEF WatcherSends
  <2>2. CASE Stirred(d)'
    BY <1>2, <2>1, <2>2, StirredUp
  <2>3. CASE ~Stirred(d)'
    <3>1. local[d] # None
      BY <1>2, <2>1, <2>3
    <3>2. [type |-> "send", data |-> local[d]] \in Message
          /\ Value([type |-> "send", data |-> local[d]]) = local[d]
      BY <1>0, <3>1, Messages, Things
    <3>3. up' = [up EXCEPT ![d] = Append(@, [type |-> "send", data |-> local[d]])]
      BY <1>5, <3>1 DEF WatcherSends
    <3>4. Unlost(d)' /\ EventsTell(d)' /\ local' = local
      BY <1>2, <2>1
    <3> DEFINE m == [type |-> "send", data |-> local[d]]
    <3>5. m \in Message /\ Value(m) = local'[d] /\ up' = [up EXCEPT ![d] = Append(@, m)]
      BY <3>2, <3>3, <3>4
    <3> HIDE DEF m
    <3> QED BY <1>4, <3>4, <3>5
  <2> QED BY <2>2, <2>3
<1>6. CASE WatcherDeletes(d)
  <2>1. /\ batch[d] # <<>> /\ Handled(d) /\ UNCHANGED <<local, user, receiver, events>>
        /\ Head(batch[d]) = "delete"
        /\ up' = [up EXCEPT ![d] = Append(@, [type |-> "delete", data |-> None])]
    BY <1>6 DEF WatcherDeletes
  <2>2. Unlost(d)' /\ EventsTell(d)' /\ (~Stirred(d)' => local'[d] = None)
    BY <1>2, <2>1
  <2> QED BY <1>4, <2>1, <2>2, Messages
<1> QED BY <1>1, <1>5, <1>6 DEF WatcherStep

LEMMA ReceiverKeeps ==
    ASSUME TypeOK, Divided, NEW d \in Devices, DeviceInv(d), ~raced', ReceiverStep(d)
    PROVE  DeviceInv(d)'
<1>0. user[d] \in Writing /\ receiver[d] \in Writing /\ local[d] \in Files /\ down \in [Devices -> Seq(Message)]
  BY DEF TypeOK
<1>1. CASE ReceiverOpens(d)
  <2>1. Truncates(d) /\ user' = user /\ batch' = batch
    BY <1>1 DEF ReceiverOpens
  <2>2. receiver'[d].at = "writing"
    BY <1>1 DEF ReceiverOpens, TypeOK
  <2>3. Unlost(d)' /\ Stirred(d)'
    BY <2>1, <2>2 DEF Unlost, Stirred, DeviceInv
  <2>4. local'[d] = Empty /\ Empty # None
    BY <2>1, TruncatesAs, Things DEF TypeOK
  <2>5. EventsTell(d)'
    <3>1. CASE local[d] = None
      BY <2>1, <2>4, <3>1, TruncatesAs DEF EventsTell
    <3>2. CASE local[d] # None
      BY <2>1, <2>4, <3>2, TruncatesAs DEF EventsTell, DeviceInv
    <3> QED BY <3>1, <3>2
  <2> QED BY <2>3, <2>5, StirredUp
<1>2. CASE ReceiverCloses(d)
  <2>1. receiver[d].at = "writing" /\ receiver[d].data \in Contents
    BY <1>0, <1>2 DEF ReceiverCloses, DeviceInv, Unlost, Writing, Divided
  <2>2. Fills(d, receiver[d]) /\ receiver'[d] = NotWriting /\ UNCHANGED <<user, batch>>
    BY <1>2 DEF ReceiverCloses, TypeOK
  <2>3. local'[d] # None /\ events'[d] # <<>> /\ Final(events'[d]) = "write"
    BY <1>0, <2>1, <2>2, FillsAs, Things DEF TypeOK
  <2>4. Unlost(d)' /\ Stirred(d)' /\ EventsTell(d)'
    BY <2>2, <2>3 DEF Unlost, Stirred, EventsTell, NotWriting, DeviceInv
  <2> QED BY <2>4, StirredUp
<1>3. CASE ReceiverDeletes(d)
  <2>1. /\ Unlinks(d) /\ receiver' = receiver /\ batch' = batch
        /\ user[d].at = "idle" /\ user' = [user EXCEPT ![d] = Orphaned(@)]
        /\ down[d] # <<>> /\ Head(down[d]).type = "delete" /\ down' = [down EXCEPT ![d] = Tail(@)]
        /\ UNCHANGED <<up, queue, worker, stored, file_list>>
    BY <1>3 DEF ReceiverDeletes, BeingWritten, server
  <2>2. user'[d] = user[d]
    BY <1>0, <2>1, OrphanedAs DEF TypeOK
  <2>3. CASE local[d] # None
    <3>1. local'[d] = None /\ events'[d] # <<>> /\ Final(events'[d]) = "delete"
      BY <2>1, <2>3, UnlinksAs DEF TypeOK
    <3>2. Unlost(d)' /\ Stirred(d)' /\ EventsTell(d)'
      BY <2>1, <2>2, <3>1 DEF Unlost, Stirred, EventsTell, DeviceInv
    <3> QED BY <3>2, StirredUp
  <2>4. CASE local[d] = None
    <3>1. local'[d] = local[d] /\ events'[d] = events[d]
      BY <2>1, <2>4, UnlinksAs DEF TypeOK
    <3>2. Stirred(d)' <=> Stirred(d)
      BY <2>1, <2>2, <3>1 DEF Stirred
    <3>3. Unlost(d)' /\ EventsTell(d)'
      BY <2>1, <2>2, <3>1 DEF DeviceInv, Unlost, EventsTell
    <3>4. UploadsTell(d)'
      BY <2>1, <3>1, <3>2 DEF DeviceInv, UploadsTell, Offer, Taken
    <3>5. Calm(d)' => Calm(d)
      BY <2>1, <3>2 DEF Calm, Taken, WillTell, Status, Known, CRC
    <3>6. Public' = Public
      BY <2>1 DEF Public
    <3>7. /\ down'[d] = Tail(down[d])
          /\ Tail(down[d]) = <<>> => Value(Final(down[d])) = None
          /\ Tail(down[d]) # <<>> => Final(Tail(down[d])) = Final(down[d])
      <4>1. down[d] \in Seq(Message) /\ Head(down[d]) \in Message
        BY <1>0, <2>1, Shorter
      <4> QED BY <1>0, <2>1, <4>1, Shorter, Messages
    <3>8. ASSUME Leads(d), queue[d] # <<>> PROVE Served(d)'
      BY <2>1, <3>6, <3>8 DEF Leads, Served
    <3>9. ASSUME Leads(d), queue[d] = <<>> PROVE Served(d)'
      BY <2>1, <2>4, <3>1, <3>6, <3>7, <3>9 DEF Leads, Served
    <3>10. Served(d) => Served(d)'
      BY <2>4, <3>1, <3>6, <3>8, <3>9 DEF Served
    <3> QED BY <3>3, <3>4, <3>5, <3>10 DEF DeviceInv
  <2> QED BY <2>3, <2>4
<1> QED BY <1>1, <1>2, <1>3 DEF ReceiverStep

(* The other devices.                                                       *)
LEMMA DirectoryKeeps ==
    ASSUME TypeOK, Divided, NEW d \in Devices, \A x \in Devices : DeviceInv(x), ~raced',
           UserStep(d) \/ UserCloses(d) \/ WatcherStep(d) \/ ReceiverStep(d)
    PROVE  \A x \in Devices : DeviceInv(x)'
<1>1. CASE UserAsks(d)
  BY <1>1, Untouched DEF UserAsks, device, server
<1>2. CASE ~UserAsks(d)
  <2>1. DeviceInv(d)'
    BY <1>2, UserKeeps, WatcherKeeps, ReceiverKeeps DEF UserStep
  <2>2. UNCHANGED <<worker, stored, file_list, queue>>
    BY <1>2 DEF UserStep, UserOpens, UserDeletes, UserCloses, WatcherStep, WatcherReads, WatcherSends,
                WatcherDeletes, ReceiverStep, ReceiverOpens, ReceiverCloses, ReceiverDeletes, server, wires
  <2>3. ASSUME NEW x \in Devices, x # d
        PROVE  /\ local'[x] = local[x] /\ events'[x] = events[x] /\ (x \in kept => x \in kept')
    <3>0. local \in [Devices -> Files]
      BY DEF TypeOK
    <3>1. user[d] \in Writing /\ receiver[d] \in Writing
      BY DEF TypeOK
    <3>2. CASE (\E v \in Values : UserOpens(d, v)) \/ ReceiverOpens(d)
      <4>1. Truncates(d)
        BY <3>2 DEF UserOpens, ReceiverOpens
      <4> QED BY <2>3, <3>0, <4>1, TruncatesAs
    <3>3. CASE UserDeletes(d) \/ ReceiverDeletes(d)
      <4>1. Unlinks(d)
        BY <3>3 DEF UserDeletes, ReceiverDeletes
      <4> QED BY <2>3, <3>0, <4>1, UnlinksAs
    <3>4. ASSUME NEW w \in Writing, Fills(d, w), kept' = kept
          PROVE  /\ local'[x] = local[x] /\ events'[x] = events[x] /\ (x \in kept => x \in kept')
      <4>1. CASE w.at = "lost"
        BY <3>4, <4>1 DEF Fills
      <4>2. CASE w.at # "lost"
        <5>1. /\ local' = [local EXCEPT ![d] = w.data]
              /\ \A y \in Devices : y # d => events'[y] = events[y]
          BY <3>4, <4>2, FillsAs
        <5> QED BY <2>3, <3>0, <3>4, <5>1
      <4> QED BY <4>1, <4>2
    <3>5. CASE UserCloses(d) \/ ReceiverCloses(d)
      BY <3>1, <3>4, <3>5 DEF UserCloses, ReceiverCloses
    <3>6. CASE WatcherStep(d)
      BY <2>3, <3>6 DEF WatcherStep, WatcherReads, WatcherSends, WatcherDeletes, TypeOK
    <3> QED BY <1>2, <3>2, <3>3, <3>5, <3>6 DEF UserStep, ReceiverStep
  <2>4. ASSUME NEW x \in Devices, x # d
        PROVE  /\ user'[x] = user[x] /\ receiver'[x] = receiver[x] /\ batch'[x] = batch[x]
               /\ up'[x] = up[x] /\ down'[x] = down[x]
    <3>1. CASE \E v \in Values : UserOpens(d, v)
      BY <2>4, <3>1 DEF UserOpens, TypeOK, wires
    <3>2. CASE UserDeletes(d)
      BY <2>4, <3>2 DEF UserDeletes, TypeOK, wires
    <3>3. CASE UserCloses(d)
      BY <2>4, <3>3 DEF UserCloses, TypeOK, wires
    <3>4. CASE WatcherReads(d)
      BY <2>4, <3>4 DEF WatcherReads, TypeOK, wires
    <3>5. CASE WatcherSends(d)
      BY <2>4, <3>5, BatchAs DEF WatcherSends, TypeOK
    <3>6. CASE WatcherDeletes(d)
      BY <2>4, <3>6, BatchAs DEF WatcherDeletes, TypeOK
    <3>7. CASE ReceiverOpens(d)
      BY <2>4, <3>7 DEF ReceiverOpens, TypeOK
    <3>8. CASE ReceiverCloses(d)
      BY <2>4, <3>8 DEF ReceiverCloses, TypeOK, wires
    <3>9. CASE ReceiverDeletes(d)
      BY <2>4, <3>9 DEF ReceiverDeletes, TypeOK
    <3> QED BY <1>2, <3>1, <3>2, <3>3, <3>4, <3>5, <3>6, <3>7, <3>8, <3>9 DEF UserStep, WatcherStep, ReceiverStep
  <2> QED BY <2>1, <2>2, <2>3, <2>4, Untouched
<1> QED BY <1>1, <1>2

-----------------------------------------------------------------------------
(* The manager and its connections.                                         *)

LEMMA Workers == "receive" \in Threads /\ "interface" \in Threads
BY DEF Threads

(* What a step of the manager leaves alone.                                 *)
LEMMA FoldersStill ==
    ASSUME NEW x \in Devices, UNCHANGED device
    PROVE  /\ Stirred(x)' <=> Stirred(x)
           /\ DeviceInv(x) => Unlost(x)' /\ EventsTell(x)'
           /\ local'[x] = local[x]
BY DEF Stirred, Unlost, EventsTell, DeviceInv, device

(* Another device, whose own threads are at rest.                           *)
LEMMA UploadsStill ==
    ASSUME NEW x \in Devices, DeviceInv(x), UNCHANGED device, up'[x] = up[x],
           worker'[x]["receive"].at = "idle"
    PROVE  UploadsTell(x)'
BY FoldersStill DEF DeviceInv, UploadsTell, Taken

(* The other threads, before and after the step of one of them.             *)
Others(d, t) == \A e \in Devices, u \in Threads : <<e, u>> # <<d, t>> => worker[e][u].at = "idle"

LEMMA Before ==
    ASSUME NEW x \in Devices, NEW d \in Devices, NEW t \in Threads, Others(d, t), UNCHANGED device,
           up'[x] = up[x], Calm(x)', ~WillTell(d, t),
           t = "receive" => x # d,
           t = "interface" /\ x = d => worker[d][t].at = "idle"
    PROVE  Calm(x)
<1>1. ~Stirred(x) /\ up[x] = <<>>
  BY FoldersStill DEF Calm
<1>2. ~Taken(x, "receive") /\ worker[x]["interface"].at = "idle"
  BY Workers DEF Others, Taken, Threads
<1>3. \A e \in Devices, u \in Threads : ~WillTell(e, u)
  BY DEF Others, WillTell
<1> QED BY <1>1, <1>2, <1>3 DEF Calm

LEMMA ServedStill ==
    ASSUME NEW x \in Devices, Served(x), local'[x] = local[x], UNCHANGED <<queue, down, file_list>>,
           x \in kept => x \in kept'
    PROVE  Served(x)'
BY DEF Served, Leads, Public

LEMMA CalmBy ==
    ASSUME NEW x \in Devices, NEW d \in Devices, NEW t \in Threads, WillTell(d, t)'
    PROVE  ~Calm(x)'
BY DEF Calm

LEMMA ReceiveKeeps ==
    ASSUME TypeOK, Divided, ListSerial, ListSerial', NEW d \in Devices, ~raced', running', ReceiveStep(d),
           \A x \in Devices : DeviceInv(x)
    PROVE  \A x \in Devices : DeviceInv(x)'
<1> USE Workers
<1> DEFINE w == worker'[d]["receive"].at
<1>1. UNCHANGED device /\ kept' = kept /\ down' = down
  BY DEF ReceiveStep, ReceiveOpens, ReceiveWrites, ReceiveTests, ReceivePushes, ReceiveRefreshes,
         ReceiveTells, ReceiveDeletes, device, wires
<1>2. Others(d, "receive") /\ Others(d, "receive")'
  <2>1. CASE ReceiveOpens(d)
    <3>1. Others(d, "receive")
      BY <2>1 DEF ReceiveOpens, Others, Busy
    <3> QED BY <2>1, <3>1 DEF ReceiveOpens, Others, TypeOK
  <2>2. CASE ReceiveDeletes(d)
    <3>1. Others(d, "receive")
      BY <2>2 DEF ReceiveDeletes, Others, Busy
    <3>2. \A e \in Devices, u \in Threads : <<e, u>> # <<d, "receive">> =>
             worker'[e][u].at = IF worker[e][u].at = "writing" THEN "lost" ELSE worker[e][u].at
      BY <2>2, RemovesTo DEF ReceiveDeletes, Places
    <3> QED BY <3>1, <3>2 DEF Others
  <2>3. CASE ~ReceiveOpens(d) /\ ~ReceiveDeletes(d)
    <3>1. Taken(d, "receive")
      BY <2>3 DEF ReceiveStep, ReceiveWrites, ReceiveTests, ReceivePushes, ReceiveRefreshes, ReceiveTells, At, Taken
    <3>2. Others(d, "receive")
      BY <3>1, Alone DEF Others, Taken
    <3>3. \A e \in Devices, u \in Threads : <<e, u>> # <<d, "receive">> => worker'[e][u] = worker[e][u]
      <4>1. CASE ReceiveWrites(d)
        BY <4>1 DEF ReceiveWrites, TypeOK
      <4>2. CASE ReceiveTests(d)
        <5>1. \E place \in Places : Goes(d, "receive", place)
          BY <4>2 DEF ReceiveTests, Status, Places
        <5> QED BY <5>1, GoesTo
      <4>3. CASE ReceivePushes(d) \/ ReceiveRefreshes(d) \/ ReceiveTells(d)
        BY <4>3, GoesTo DEF ReceivePushes, ReceiveRefreshes, ReceiveTells, Places
      <4> QED BY <2>3, <4>1, <4>2, <4>3 DEF ReceiveStep
    <3> QED BY <3>2, <3>3 DEF Others
  <2> QED BY <2>1, <2>2, <2>3
<1>3. InHand(d, "receive") /\ InHand(d, "receive")'
  BY DEF ListSerial
<1>4. ASSUME NEW x \in Devices, up'[x] = up[x], x # d,
             Calm(x)' => ~WillTell(d, "receive") /\ UNCHANGED <<queue, file_list>>
      PROVE  DeviceInv(x)'
  <2>1. worker'[x]["receive"].at = "idle"
    BY <1>2, <1>4 DEF Others
  <2>2. Unlost(x)' /\ EventsTell(x)' /\ UploadsTell(x)' /\ local'[x] = local[x]
    BY <1>1, <1>4, <2>1, UploadsStill, FoldersStill
  <2>3. ASSUME Calm(x)' PROVE Served(x)'
    <3>1. Calm(x)
      BY <1>1, <1>2, <1>4, <2>3, Before
    <3>2. Served(x)
      BY <3>1 DEF DeviceInv
    <3> QED BY <1>1, <1>4, <2>2, <2>3, <3>2, ServedStill
  <2> QED BY <2>2, <2>3 DEF DeviceInv
<1>5. ASSUME UploadsTell(d)', Calm(d)' => Served(d)' PROVE DeviceInv(d)'
  BY <1>1, <1>5, FoldersStill DEF DeviceInv
<1>6. CASE ReceiveOpens(d)
  <2>1. /\ worker'[d]["receive"] = [at |-> "writing", data |-> Head(up[d]).data] /\ up[d] # <<>>
        /\ up'[d] = Tail(up[d]) /\ Head(up[d]).type = "send" /\ UNCHANGED <<queue, file_list>>
        /\ worker[d]["receive"].at = "idle" /\ \A x \in Devices : x # d => up'[x] = up[x]
    BY <1>6 DEF ReceiveOpens, TypeOK, At
  <2>2. Offer(d)' = Value(Head(up[d]))
    BY <2>1, Server, Messages DEF Offer
  <2>3. UploadsTell(d)'
    BY <1>1, <2>1, <2>2, Server, FoldersStill DEF UploadsTell, DeviceInv
  <2>4. ~Calm(d)'
    BY <2>1 DEF Calm, Taken
  <2>5. ~WillTell(d, "receive")
    BY <2>1 DEF WillTell
  <2> QED BY <1>4, <1>5, <2>1, <2>3, <2>4, <2>5
<1>7. ASSUME up' = up, ~Stirred(d) /\ up[d] = <<>> => Taken(d, "receive"), w # "idle" => Offer(d)' = Offer(d)
      PROVE  UploadsTell(d)' /\ (w = "idle" /\ Calm(d)' => local'[d] = Offer(d))
  BY <1>1, <1>7, FoldersStill DEF UploadsTell, DeviceInv, Taken, Calm
<1>8. CASE ReceiveWrites(d)
  <2>1. worker[d]["receive"].at = "writing"
    BY <1>3, <1>8 DEF InHand, Place, ReceiveWrites, At
  <2>2. /\ w = "test" /\ stored' = worker[d]["receive"].data
        /\ UNCHANGED <<up, queue, file_list>>
    BY <1>8, <2>1 DEF ReceiveWrites, TypeOK, wires
  <2>3. Offer(d)' = Offer(d) /\ Taken(d, "receive")
    BY <2>1, <2>2 DEF Offer, Taken
  <2>4. UploadsTell(d)'
    BY <1>7, <2>2, <2>3
  <2>5. ~Calm(d)' /\ ~WillTell(d, "receive")
    BY <2>1, <2>2 DEF Calm, Taken, WillTell
  <2> QED BY <1>4, <1>5, <2>2, <2>4, <2>5
<1>9. CASE ReceiveTests(d)
  <2>1. worker[d]["receive"].at = "test" /\ UNCHANGED <<up, queue, file_list, stored>> /\ stored # None /\ Short
    BY <1>3, <1>9 DEF InHand, Place, ReceiveTests, At, wires
  <2>2. w = CASE Status = "NOT_FOUND" -> "push" [] Status = "UPDATED" -> "refresh" [] Status = "EXISTS" -> "idle"
    <3> DEFINE place == CASE Status = "NOT_FOUND" -> "push"
                          [] Status = "UPDATED" -> "refresh"
                          [] Status = "EXISTS" -> "idle"
    <3>1. place \in Places /\ Goes(d, "receive", place)
      BY <1>9 DEF Status, ReceiveTests, Places
    <3> HIDE DEF place
    <3>2. w = place
      BY <3>1, GoesTo
    <3> QED BY <3>2 DEF place
  <2>3. CASE Status = "EXISTS"
    <3>1. w = "idle" /\ Public = stored
      BY <2>1, <2>2, <2>3 DEF Status, CRC, Known, Public
    <3>2. ~WillTell(d, "receive") /\ Taken(d, "receive") /\ Offer(d) = stored
      BY <2>1, <2>3 DEF WillTell, Taken, Offer
    <3>3. UploadsTell(d)' /\ (Calm(d)' => Served(d)')
      BY <1>7, <2>1, <3>1, <3>2 DEF Served, Public
    <3> QED BY <1>4, <1>5, <2>1, <3>2, <3>3
  <2>4. CASE Status # "EXISTS"
    <3>1. w \in {"push", "refresh"}
      BY <2>2, <2>4 DEF Status
    <3>2. WillTell(d, "receive")' /\ Taken(d, "receive") /\ Offer(d)' = Offer(d)
      BY <2>1, <3>1 DEF WillTell, Taken, Offer
    <3> QED BY <1>4, <1>5, <1>7, <2>1, <3>2, CalmBy
  <2> QED BY <2>3, <2>4
<1>10. CASE ReceivePushes(d) \/ ReceiveRefreshes(d)
  <2>1. Goes(d, "receive", "send") /\ UNCHANGED <<up, queue, stored>>
        /\ worker[d]["receive"].at \in {"push", "refresh"}
    BY <1>10 DEF ReceivePushes, ReceiveRefreshes, At, wires
  <2>2. w = "send"
    BY <2>1, GoesTo DEF Places
  <2>3. WillTell(d, "receive")' /\ Taken(d, "receive") /\ Offer(d)' = Offer(d)
    BY <2>1, <2>2 DEF WillTell, Taken, Offer
  <2> QED BY <1>4, <1>5, <1>7, <2>1, <2>3, CalmBy
<1>11. CASE ReceiveTells(d)
  <2>1. Goes(d, "receive", "idle") /\ UNCHANGED <<up, stored, file_list>> /\ Told(d, "send")
        /\ worker[d]["receive"].at = "send" /\ stored # None /\ file_list = <<stored>>
    BY <1>3, <1>11 DEF ReceiveTells, At, InHand, Place
  <2>2. w = "idle" /\ Public' = stored /\ stored # None
    BY <2>1, GoesTo, Shortness DEF Places, Public
  <2>3. Taken(d, "receive") /\ Offer(d) = stored
    BY <2>1 DEF Taken, Offer
  <2>4. UploadsTell(d)' /\ (Calm(d)' => Served(d)')
    BY <1>7, <2>1, <2>2, <2>3 DEF Served
  <2>5. ASSUME NEW x \in Devices, x # d PROVE DeviceInv(x)'
    <3>1. Served(x)'
      BY <2>1, <2>2, <2>5, ToldTyped DEF Served, Leads
    <3>2. worker'[x]["receive"].at = "idle"
      BY <1>2, <2>5 DEF Others
    <3> QED BY <1>1, <2>1, <3>1, <3>2, UploadsStill, FoldersStill DEF DeviceInv
  <2> QED BY <1>5, <2>4, <2>5
<1>12. CASE ReceiveDeletes(d)
  <2>1. /\ w = "gone" /\ up[d] # <<>>
        /\ up'[d] = Tail(up[d]) /\ Head(up[d]).type = "delete" /\ UNCHANGED <<queue, file_list>>
        /\ worker[d]["receive"].at = "idle" /\ \A x \in Devices : x # d => up'[x] = up[x]
    BY <1>12, RemovesTo DEF ReceiveDeletes, TypeOK, At, Places
  <2>2. Offer(d)' = Value(Head(up[d]))
    BY <2>1, Server, Messages DEF Offer
  <2>3. UploadsTell(d)'
    BY <1>1, <2>1, <2>2, Server, FoldersStill DEF UploadsTell, DeviceInv
  <2>4. ~Calm(d)'
    BY <2>1 DEF Calm, Taken
  <2>5. ~WillTell(d, "receive")
    BY <2>1 DEF WillTell
  <2> QED BY <1>4, <1>5, <2>1, <2>3, <2>4, <2>5
<1> QED BY <1>6, <1>8, <1>9, <1>10, <1>11, <1>12 DEF ReceiveStep

LEMMA DeleteKeeps ==
    ASSUME TypeOK, Divided, ListSerial, ListSerial', NEW d \in Devices, NEW t \in Threads, DeleteStep(d, t),
           \A x \in Devices : DeviceInv(x)
    PROVE  \A x \in Devices : DeviceInv(x)'
<1> USE Workers
<1> DEFINE w == worker'[d][t].at
<1>1. UNCHANGED device /\ kept' = kept /\ down' = down /\ up' = up /\ stored' = stored
  BY DEF DeleteStep, DeleteTests, DeleteUnlists, DeleteTells, device, wires
<1>2. PICK place \in {"idle", "remove", "unlist", "delete"} : Goes(d, t, place)
  BY DEF DeleteStep, DeleteTests, DeleteUnlists, DeleteTells, AfterList
<1>3. Taken(d, t)
  BY DEF DeleteStep, DeleteTests, DeleteUnlists, DeleteTells, At, Taken
<1>4. w = place /\ Others(d, t) /\ Others(d, t)'
  <2>1. Others(d, t)
    BY <1>3, Alone DEF Others, Taken
  <2>2. /\ w = place
        /\ \A e \in Devices, u \in Threads : <<e, u>> # <<d, t>> => worker'[e][u] = worker[e][u]
    BY <1>2, GoesTo DEF Places
  <2> QED BY <2>1, <2>2 DEF Others
<1>5. InHand(d, t) /\ worker[d][t].at \in {"gone", "unlist", "delete"}
  BY DEF ListSerial, DeleteStep, DeleteTests, DeleteUnlists, DeleteTells, At
<1>6. ASSUME NEW x \in Devices
      PROVE  /\ UploadsTell(x)'
             /\ Unlost(x)' /\ EventsTell(x)' /\ local'[x] = local[x]
             /\ x = d /\ t = "receive" /\ Calm(x)' => local'[d] = None
             /\ x = d /\ t = "interface" /\ Calm(x)' => w = "idle"
  <2>1. CASE x = d /\ t = "receive"
    <3>1. Offer(d) = None /\ (Taken(d, "receive")' => Offer(d)' = None)
      BY <1>2, <1>4, <1>5, <2>1 DEF Offer, Taken
    <3> QED BY <1>1, <1>3, <2>1, <3>1, FoldersStill DEF DeviceInv, UploadsTell, Taken, Calm
  <2>2. CASE ~(x = d /\ t = "receive")
    <3>1. worker'[x]["receive"].at = "idle"
      BY <1>4, <2>2 DEF Others
    <3> QED BY <1>1, <2>2, <3>1, UploadsStill, FoldersStill DEF Calm
  <2> QED BY <2>1, <2>2
<1>7. CASE DeleteTests(d, t)
  <2>1. worker[d][t].at = "gone" /\ UNCHANGED <<queue, file_list>>
        /\ Goes(d, t, IF Status = "NOT_FOUND" THEN AfterList(t) ELSE "unlist")
    BY <1>7 DEF DeleteTests, At, wires
  <2>2. CASE Known
    <3>1. Status # "NOT_FOUND"
      BY <2>2 DEF Status
    <3>2. w = "unlist"
      BY <2>1, <3>1, GoesTo DEF Places
    <3>3. WillTell(d, t)'
      BY <3>2 DEF WillTell
    <3> QED BY <1>6, <3>3, CalmBy DEF DeviceInv
  <2>3. CASE ~Known
    <3>1. t = "receive"
      BY <1>5, <2>1, <2>3, Shortness DEF InHand, Place, Known, Threads
    <3>2. ~WillTell(d, t) /\ Public' = None
      BY <2>1, <2>3 DEF WillTell, Public, Known
    <3>3. Calm(d)' => Served(d)'
      BY <1>6, <3>1, <3>2 DEF Served
    <3>4. ASSUME NEW x \in Devices, x # d, Calm(x)' PROVE Served(x)'
      <4>1. Calm(x)
        BY <1>1, <1>4, <3>1, <3>2, <3>4, Before
      <4> QED BY <1>1, <1>6, <2>1, <4>1, ServedStill DEF DeviceInv
    <3> QED BY <1>6, <3>3, <3>4 DEF DeviceInv
  <2> QED BY <2>2, <2>3
<1>8. CASE DeleteUnlists(d, t)
  <2>1. w = "delete"
    BY <1>8, GoesTo DEF DeleteUnlists, Places
  <2>2. WillTell(d, t)'
    BY <2>1 DEF WillTell
  <2> QED BY <1>6, <2>2, CalmBy DEF DeviceInv
<1>9. CASE DeleteTells(d, t)
  <2>1. worker[d][t].at = "delete" /\ file_list = <<>> /\ file_list' = file_list /\ Told(d, "delete")
        /\ Goes(d, t, AfterList(t))
    BY <1>5, <1>9 DEF DeleteTells, At, InHand, Place
  <2>2. Public' = None
    BY <2>1 DEF Public
  <2>3. t = "interface" => w = "remove"
    BY <2>1, GoesTo DEF AfterList, Places
  <2>4. ASSUME NEW x \in Devices, x # d PROVE Served(x)'
    BY <2>1, <2>2, <2>4, ToldTyped DEF Served, Leads
  <2>5. Calm(d)' => Served(d)'
    BY <1>6, <2>2, <2>3 DEF Served, Threads
  <2> QED BY <1>6, <2>4, <2>5 DEF DeviceInv
<1> QED BY <1>7, <1>8, <1>9 DEF DeleteStep

LEMMA InterfaceKeeps ==
    ASSUME TypeOK, Divided, ListSerial, ListSerial', NEW d \in Devices, ~raced', InterfaceStep(d),
           \A x \in Devices : DeviceInv(x)
    PROVE  \A x \in Devices : DeviceInv(x)'
<1> USE Workers
<1> DEFINE w == worker'[d]["interface"].at
<1>1. UNCHANGED device /\ down' = down /\ up' = up /\ file_list' = file_list /\ queue' = queue
      /\ kept \subseteq kept'
  BY DEF InterfaceStep, InterfaceDeletes, InterfaceRemoves, device, wires
<1>2. ASSUME Others(d, "interface")', NEW x \in Devices
      PROVE  UploadsTell(x)' /\ Unlost(x)' /\ EventsTell(x)' /\ local'[x] = local[x]
  <2>1. worker'[x]["receive"].at = "idle"
    BY <1>2 DEF Others
  <2> QED BY <1>1, <2>1, UploadsStill, FoldersStill
<1>3. CASE InterfaceDeletes(d)
  <2>1. Others(d, "interface") /\ worker[d]["interface"].at = "idle"
    BY <1>3 DEF InterfaceDeletes, Busy, At, Others
  <2> DEFINE place == IF stored = None THEN "idle" ELSE "gone"
  <2>2. place \in Places /\ Goes(d, "interface", place)
    BY <1>3 DEF Places, InterfaceDeletes
  <2>3. w = place /\ Others(d, "interface")'
    <3> HIDE DEF place
    <3>1. /\ w = place
          /\ \A e \in Devices, u \in Threads : <<e, u>> # <<d, "interface">> => worker'[e][u] = worker[e][u]
      BY <2>2, GoesTo
    <3> QED BY <2>1, <3>1 DEF Others
  <2>4. ~WillTell(d, "interface")
    BY <2>1 DEF WillTell
  <2>5. CASE stored = None
    <3>1. ASSUME NEW x \in Devices, Calm(x)' PROVE Served(x)'
      <4>1. Calm(x)
        BY <1>1, <2>1, <2>4, <3>1, Before
      <4>2. local'[x] = local[x] /\ Served(x)
        BY <1>2, <2>3, <4>1 DEF DeviceInv
      <4> QED BY <1>1, <4>2, ServedStill
    <3> QED BY <1>2, <2>3, <3>1 DEF DeviceInv
  <2>6. CASE stored # None
    <3>1. file_list = <<stored>>
      BY <2>1, <2>6 DEF ListSerial, AtRest, Others, Taken
    <3>2. w = "gone" /\ file_list' # <<>>
      BY <1>1, <2>3, <2>6, <3>1, Shortness
    <3>3. WillTell(d, "interface")'
      BY <3>2 DEF WillTell, Known
    <3> QED BY <1>2, <2>3, <3>3, CalmBy DEF DeviceInv
  <2> QED BY <2>5, <2>6
<1>4. CASE InterfaceRemoves(d)
  <2>1. d \in kept' \/ local[d] = None
    BY <1>4 DEF InterfaceRemoves, At, ListSerial, InHand, Place, TypeOK
  <2>2. worker[d]["interface"].at = "remove" /\ file_list = <<>>
    BY <1>4 DEF InterfaceRemoves, At, ListSerial, InHand, Place
  <2>3. Others(d, "interface")
    BY <2>2, Alone DEF Others, Taken
  <2>4. Others(d, "interface")'
    <3>1. \A e \in Devices, u \in Threads : <<e, u>> # <<d, "interface">> =>
             worker'[e][u].at = IF worker[e][u].at = "writing" THEN "lost" ELSE worker[e][u].at
      BY <1>4, RemovesTo DEF InterfaceRemoves, Places
    <3> QED BY <2>3, <3>1 DEF Others
  <2>5. ~WillTell(d, "interface") /\ Public' = None
    BY <1>1, <2>2 DEF WillTell, Public
  <2>6. Served(d)'
    BY <1>2, <2>1, <2>4, <2>5 DEF Served
  <2>7. ASSUME NEW x \in Devices, x # d, Calm(x)' PROVE Served(x)'
    <3>1. Calm(x)
      BY <1>1, <2>3, <2>5, <2>7, Before
    <3>2. local'[x] = local[x] /\ Served(x)
      BY <1>2, <2>4, <3>1 DEF DeviceInv
    <3> QED BY <1>1, <3>2, ServedStill
  <2> QED BY <1>2, <2>4, <2>6, <2>7 DEF DeviceInv
<1> QED BY <1>3, <1>4 DEF InterfaceStep

LEMMA SentIsPublic ==
    ASSUME TypeOK, Divided, ListSerial, Public # None,
           \A e \in Devices, u \in Threads : ~WillTell(e, u),
           \A e \in Devices : worker[e]["receive"].at # "writing"
    PROVE  stored = Public
<1>1. CASE \A e \in Devices, u \in Threads : ~Taken(e, u)
  BY <1>1, Shortness DEF ListSerial, AtRest, Public
<1>2. CASE \E e \in Devices, u \in Threads : Taken(e, u)
  <2> PICK e \in Devices, u \in Threads : Taken(e, u)
    BY <1>2
  <2>1. ~WillTell(e, u) /\ InHand(e, u)
    BY DEF ListSerial
  <2>2. file_list # <<>> /\ Head(file_list) = Public
    BY DEF Public
  <2>3. worker[e][u].at # "writing"
    BY DEF Divided, Threads
  <2>4. worker[e][u].at = "test" => stored = Public
    BY <2>1, <2>2 DEF WillTell, InHand, Place, Status, Known, CRC
  <2>5. worker[e][u].at \in Places
    BY DEF TypeOK
  <2> QED BY <2>1, <2>2, <2>3, <2>4, <2>5 DEF WillTell, InHand, Place, Known, Taken, Places
<1> QED BY <1>1, <1>2

LEMMA ConnectionKeeps ==
    ASSUME TypeOK, Divided, ListSerial, NEW d \in Devices, ~raced', SendsNext(d),
           \A x \in Devices : DeviceInv(x)
    PROVE  \A x \in Devices : DeviceInv(x)'
<1>1. UNCHANGED <<device, up, worker, stored, file_list, kept>>
  BY DEF SendsNext, server
<1>2. \A x \in Devices : x # d => queue'[x] = queue[x] /\ down'[x] = down[x]
  BY SendsAs
<1>3. ASSUME NEW x \in Devices, x # d PROVE DeviceInv(x)'
  BY <1>1, <1>2, <1>3, Untouched DEF device
<1>4. DeviceInv(d)'
  <2>1. Unlost(d)' /\ EventsTell(d)' /\ local'[d] = local[d] /\ (Stirred(d)' <=> Stirred(d))
    BY <1>1, FoldersStill
  <2>2. UploadsTell(d)'
    BY <1>1, <2>1 DEF UploadsTell, DeviceInv, Offer, Taken
  <2>3. Calm(d)' => Calm(d)
    BY <1>1, <2>1 DEF Calm, Taken, WillTell, Status, Known, CRC
  <2>4. Public' = Public
    BY <1>1 DEF Public
  <2>5. ASSUME Calm(d), Leads(d) PROVE Leads(d)'
    <3>1. queue[d] # <<>> /\ queue'[d] = Tail(queue[d])
      BY SendsAs
    <3>2. Final(queue[d]) = IF Public = None THEN "delete" ELSE "send"
      BY <2>5, <3>1 DEF Leads
    <3>3. CASE Tail(queue[d]) # <<>>
      BY <2>4, <3>1, <3>2, <3>3, SendsAs DEF Leads
    <3>4. CASE Tail(queue[d]) = <<>>
      <4>1. Head(queue[d]) = IF Public = None THEN "delete" ELSE "send"
        BY <3>2, <3>4, SendsAs
      <4>2. Public # None => stored = Public
        <5>1. \A e \in Devices : worker[e]["receive"].at # "writing"
          BY DEF SendsNext
        <5> QED BY <2>5, <5>1, SentIsPublic DEF Calm
      <4>3. down'[d] # <<>> /\ Value(Final(down'[d])) = Public
        BY <4>1, <4>2, SendsAs
      <4> QED BY <2>4, <3>1, <3>4, <4>3 DEF Leads
    <3> QED BY <3>3, <3>4
  <2>6. Calm(d) /\ Served(d) => Served(d)'
    BY <1>1, <2>1, <2>4, <2>5 DEF Served
  <2> QED BY <2>1, <2>2, <2>3, <2>6 DEF DeviceInv
<1> QED BY <1>3, <1>4

-----------------------------------------------------------------------------
(* The refresh finds the entry, unless there was a race.                    *)
LEMMA RunningStep ==
    ASSUME SInv, [Next]_vars
    PROVE  /\ ~running' => raced'
           /\ raced => raced'
<1> USE DEF SInv
<1>1. ASSUME NEW d \in Devices, ReceiveRefreshes(d)
      PROVE  (~running' => raced') /\ (raced => raced')
  <2>1. raced' = raced
    BY <1>1 DEF ReceiveRefreshes
  <2>2. ASSUME ~raced PROVE running'
    <3>1. InHand(d, "receive") /\ running
      BY <2>2, Workers DEF ListSerial
    <3> QED BY <1>1, <3>1 DEF ReceiveRefreshes, InHand, Place, At, Known
  <2> QED BY <2>1, <2>2
<1>2. ASSUME NEW d \in Devices, UserStep(d) \/ UserCloses(d) \/ WatcherStep(d) \/ ReceiverStep(d)
      PROVE  (~running' => raced') /\ (raced => raced')
  <2>1. running' = running
    BY <1>2 DEF UserStep, UserOpens, UserDeletes, UserAsks, UserCloses, WatcherStep, WatcherReads, WatcherSends,
                  WatcherDeletes, ReceiverStep, ReceiverOpens, ReceiverCloses, ReceiverDeletes
  <2>2. raced => raced'
    BY <1>2 DEF UserStep, UserOpens, UserDeletes, UserAsks, UserCloses, WatcherStep, WatcherReads, WatcherSends,
                  WatcherDeletes, ReceiverStep, ReceiverOpens, ReceiverCloses, ReceiverDeletes
  <2> QED BY <2>1, <2>2
<1>3. ASSUME NEW d \in Devices, ReceiveStep(d), ~ReceiveRefreshes(d)
      PROVE  (~running' => raced') /\ (raced => raced')
  <2>1. running' = running
    BY <1>3 DEF ReceiveStep, ReceiveOpens, ReceiveWrites, ReceiveTests, ReceivePushes,
                ReceiveTells, ReceiveDeletes
  <2>2. raced => raced'
    BY <1>3 DEF ReceiveStep, ReceiveOpens, ReceiveWrites, ReceiveTests, ReceivePushes,
                ReceiveTells, ReceiveDeletes
  <2> QED BY <2>1, <2>2
<1>4. ASSUME NEW d \in Devices, (\E t \in Threads : DeleteStep(d, t)) \/ InterfaceStep(d) \/ SendsNext(d)
      PROVE  (~running' => raced') /\ (raced => raced')
  <2>1. running' = running
    BY <1>4 DEF DeleteStep, DeleteTests, DeleteUnlists, DeleteTells, InterfaceStep, InterfaceDeletes,
                InterfaceRemoves, SendsNext
  <2>2. raced => raced'
    BY <1>4 DEF DeleteStep, DeleteTests, DeleteUnlists, DeleteTells, InterfaceStep, InterfaceDeletes,
                InterfaceRemoves, SendsNext
  <2> QED BY <2>1, <2>2
<1>5. CASE UNCHANGED vars
  BY <1>5 DEF vars
<1> QED BY <1>1, <1>2, <1>3, <1>4, <1>5 DEF Next

LEMMA SStep == SInv /\ [Next]_vars => SInv'
<1> SUFFICES ASSUME SInv, [Next]_vars PROVE SInv'
  OBVIOUS
<1>1. TypeOK' /\ Divided'
  BY TypeStep, DividedStep DEF SInv
<1>2. (~running' => raced') /\ (raced => raced')
  BY RunningStep
<1>3. SUFFICES ASSUME ~raced' PROVE ListSerial' /\ \A x \in Devices : DeviceInv(x)'
  BY <1>1, <1>2 DEF SInv
<1>4. TypeOK /\ Divided /\ ListSerial /\ running' /\ \A x \in Devices : DeviceInv(x)
  BY <1>2, <1>3 DEF SInv
<1>5. ASSUME NEW d \in Devices, UserStep(d) \/ UserCloses(d) \/ WatcherStep(d) \/ ReceiverStep(d)
      PROVE  ListSerial' /\ \A x \in Devices : DeviceInv(x)'
  <2>1. UNCHANGED server
    BY <1>5 DEF UserStep, UserOpens, UserDeletes, UserAsks, UserCloses, WatcherStep, WatcherReads,
                WatcherSends, WatcherDeletes, ReceiverStep, ReceiverOpens, ReceiverCloses, ReceiverDeletes
  <2> QED BY <1>3, <1>4, <1>5, <2>1, SerialStill, DirectoryKeeps
<1>6. ASSUME NEW d \in Devices, ReceiveStep(d) PROVE ListSerial' /\ \A x \in Devices : DeviceInv(x)'
  <2>1. ListSerial'
    BY <1>3, <1>4, <1>6, SerialReceive
  <2> QED BY <1>3, <1>4, <1>6, <2>1, ReceiveKeeps
<1>7. ASSUME NEW d \in Devices, NEW t \in Threads, DeleteStep(d, t)
      PROVE  ListSerial' /\ \A x \in Devices : DeviceInv(x)'
  <2>1. ListSerial'
    BY <1>4, <1>7, SerialDelete
  <2> QED BY <1>4, <1>7, <2>1, DeleteKeeps
<1>8. ASSUME NEW d \in Devices, InterfaceStep(d) PROVE ListSerial' /\ \A x \in Devices : DeviceInv(x)'
  <2>1. ListSerial'
    BY <1>3, <1>4, <1>8, SerialInterface
  <2> QED BY <1>3, <1>4, <1>8, <2>1, InterfaceKeeps
<1>9. ASSUME NEW d \in Devices, SendsNext(d) PROVE ListSerial' /\ \A x \in Devices : DeviceInv(x)'
  BY <1>3, <1>4, <1>9, SerialStill, ConnectionKeeps DEF SendsNext
<1>10. CASE UNCHANGED vars
  <2>1. UNCHANGED <<server, queue, down, up, local, user, receiver, events, batch, kept>>
    BY <1>10 DEF vars, device, wires
  <2> QED BY <1>4, <2>1, SerialStill, Untouched DEF server
<1> QED BY <1>5, <1>6, <1>7, <1>8, <1>9, <1>10 DEF Next

LEMMA SInit == Init => SInv
<1> SUFFICES ASSUME Init PROVE SInv
  OBVIOUS
<1>1. TypeOK
  BY TypeInit
<1>2. \A d \in Devices, t \in Threads : worker[d][t].at = "idle"
  BY DEF Init
<1>3. Divided
  BY <1>2, Workers DEF Init, Divided, NotWriting
<1>4. ListSerial
  BY <1>2 DEF Init, ListSerial, OneAtWork, InHand, Place, AtRest, Taken
<1>5. ASSUME NEW d \in Devices PROVE DeviceInv(d)
  <2>1. Unlost(d) /\ EventsTell(d)
    BY DEF Init, Unlost, EventsTell, NotWriting
  <2>2. UploadsTell(d)
    BY <1>2, Workers DEF Init, UploadsTell, Taken
  <2>3. Served(d)
    BY DEF Init, Served, Public
  <2> QED BY <2>1, <2>2, <2>3 DEF DeviceInv
<1> QED BY <1>1, <1>3, <1>4, <1>5 DEF Init, SInv

LEMMA SAlways == Spec => []SInv
BY SInit, SStep, PTL DEF Spec

(* For any devices and contents, and any number of changes, a manager that  *)
(* dies of an entry that is gone (server.c:649) has had two threads at the  *)
(* file at once.                                                            *)
THEOREM OnlyRacesKill == Spec => []DiesOnlyOfRaces
<1>1. SInv => DiesOnlyOfRaces
  BY DEF SInv, DiesOnlyOfRaces
<1> QED BY <1>1, SAlways, PTL

LEMMA Agreed == SInv => Agree
<1>1. ASSUME SInv, running, Quiet, ~raced
      PROVE  /\ file_list = IF stored = None THEN <<>> ELSE <<stored>>
             /\ \A d \in Devices : local[d] = stored \/ (d \in kept /\ stored = None)
  <2>1. \A d \in Devices, t \in Threads : worker[d][t].at = "idle"
    BY <1>1 DEF Quiet, DirectoryIdle, ServerIdle
  <2>2. file_list = IF stored = None THEN <<>> ELSE <<stored>>
    BY <1>1, <2>1 DEF SInv, ListSerial, AtRest, Taken
  <2>3. Public = stored
    BY <2>2, Shortness DEF Public
  <2>4. ASSUME NEW d \in Devices PROVE local[d] = stored \/ (d \in kept /\ stored = None)
    <3>1. Calm(d)
      BY <1>1, <2>1, Workers DEF Quiet, DirectoryIdle, ServerIdle, Calm, Stirred, Taken, WillTell
    <3>2. ~Leads(d)
      BY <1>1 DEF Quiet, DirectoryIdle, ServerIdle, Leads
    <3> QED BY <1>1, <2>3, <3>1, <3>2 DEF SInv, DeviceInv, Served
  <2> QED BY <2>2, <2>4
<1> QED BY <1>1 DEF Agree, DevicesAgree, ListTellsTruth

(* For any devices and contents, once nothing is under way the devices have *)
(* what the manager has, and its list tells it, unless two threads had the  *)
(* file at once (server.c:391-412, 502-524, 632-660, client.c:349-356).     *)
THEOREM DirectoriesAgree == Spec => []Agree
BY Agreed, SAlways, PTL
=============================================================================
