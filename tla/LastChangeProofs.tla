--------------------------- MODULE LastChangeProofs ---------------------------
(***************************************************************************)
(* What remains of a file is what the last of several users in turn made of *)
(* it, for any number of devices, contents and changes.                     *)
(*                                                                          *)
(* After a write nothing comes to the device that wrote, and all that is    *)
(* under way is what it wrote: the others echo it, and the manager knows    *)
(* it.  After a deletion all that is under way are deletions.               *)
(***************************************************************************)
EXTENDS FileSyncProofs

-----------------------------------------------------------------------------
(* A sequence without an element.                                           *)
Free(s, e) == \A i \in 1 .. Len(s) : s[i] # e

Sent(c) == [type |-> "send", data |-> c]
Deletion == [type |-> "delete", data |-> None]

Uploading(d) == up[d] # <<>> \/ Taken(d, "receive")
Storing(d) == worker[d]["receive"].at \in {"writing", "test", "push", "refresh", "send"}
Erasing(d) == worker[d]["receive"].at \in {"gone", "unlist", "delete"}

NobodyAsks == \A d \in Devices : asked[d] = 0 /\ worker[d]["interface"].at = "idle"

(* Nothing comes to a device.                                               *)
Unreached(d) == receiver[d].at = "idle" /\ queue[d] = <<>> /\ down[d] = <<>>

(* The device of the last change has what was written, or it is writing it. *)
Holds(d, v) ==
    /\ d \notin kept
    /\ \/ user[d].at = "idle" /\ local[d] = v
       \/ user[d].at = "writing" /\ user[d].data = v

Undeleted(d) ==
    /\ Free(events[d], "delete") /\ Free(batch[d], "delete")
    /\ Free(up[d], Deletion)
    /\ ~Erasing(d)

(* Something is under way to d or from it.                                  *)
Engaged(d) == Stirred(d) \/ queue[d] # <<>> \/ down[d] # <<>> \/ Uploading(d)

(* d has files only from the manager, and they are v.                        *)
Copies(d, v) ==
    /\ user[d].at = "idle"
    /\ worker[d]["receive"].at \in {"idle", "writing", "test"}
    /\ Free(queue[d], "delete")
    /\ down[d] \in Seq({Sent(v)})
    /\ IF receiver[d].at # "idle" THEN receiver[d].data = v ELSE Stirred(d) => local[d] = v
    /\ Engaged(d) => Public = v

(* What d sends is v.                                                       *)
Offers(d, v) ==
    /\ Undeleted(d)
    /\ up[d] \in Seq({Sent(v)})
    /\ worker[d]["receive"].at = "writing" => worker[d]["receive"].data = v
    /\ worker[d]["receive"].at \in {"test", "push", "refresh", "send"} => stored = v

(* All that is under way is what x has written.                             *)
Spreads(x, v) ==
    /\ Unreached(x)
    /\ NobodyAsks
    /\ \A d \in Devices : Offers(d, v)
    /\ \A d \in Devices \ {x} : Copies(d, v)

Written(d, v) == Holds(d, v) /\ Spreads(d, v)

(* Only deletions are left.                                                 *)
Bare(d) ==
    /\ user[d].at = "idle" /\ receiver[d].at = "idle"
    /\ local[d] = None \/ (events[d] \in Seq({"delete"}) /\ batch[d] \in Seq({"delete"}))
    /\ up[d] \in Seq({Deletion})
    /\ queue[d] \in Seq({"delete"})
    /\ down[d] \in Seq({Deletion})
    /\ ~Storing(d)

Dead(d) ==
    /\ \A x \in Devices : Bare(x)
    /\ \/ local[d] = None \/ stored = None
       \/ asked[d] > 0 \/ worker[d]["interface"].at # "idle"

(* What is true while the file still has to become what was wanted of it.   *)
LastInv ==
    ~raced /\ wanted.by # None =>
       IF wanted.data # None THEN Written(wanted.by, wanted.data)
       ELSE Dead(wanted.by)

-----------------------------------------------------------------------------
(* Sequences.                                                               *)

LEMMA FreeLonger ==
    ASSUME NEW S, NEW s \in Seq(S), NEW a \in S, NEW e, Free(s, e), a # e
    PROVE  Free(Append(s, a), e)
BY DEF Free

LEMMA FreeShorter ==
    ASSUME NEW S, NEW s \in Seq(S), NEW e, Free(s, e), s # <<>>
    PROVE  Head(s) # e /\ Final(s) # e /\ Free(Tail(s), e)
<1>1. Len(s) \in Nat /\ Len(s) > 0
  OBVIOUS
<1>2. Len(Tail(s)) = Len(s) - 1 /\ \A i \in 1 .. Len(Tail(s)) : Tail(s)[i] = s[i + 1]
  BY <1>1
<1>3. Head(s) = s[1]
  OBVIOUS
<1> QED BY <1>1, <1>2, <1>3 DEF Free, Final

LEMMA FreeEmpty ==
    ASSUME NEW e
    PROVE  Free(<<>>, e)
BY DEF Free

(* A sequence of nothing else.                                              *)
LEMMA AllLonger ==
    ASSUME NEW a, NEW s \in Seq({a})
    PROVE  Append(s, a) \in Seq({a})
BY Longer

LEMMA AllShorter ==
    ASSUME NEW a, NEW s \in Seq({a}), s # <<>>
    PROVE  Head(s) = a /\ Final(s) = a /\ Tail(s) \in Seq({a})
BY Shorter

LEMMA NoneOf ==
    ASSUME NEW S
    PROVE  <<>> \in Seq(S)
OBVIOUS

(* Messages.                                                                *)
LEMMA Letters ==
    /\ \A m \in Message : m.type = "send" => m = Sent(m.data) /\ m.data \in Contents
    /\ \A m \in Message : m.type = "delete" => m = Deletion
    /\ \A m \in Message : m.type = "send" \/ m.type = "delete"
    /\ \A c : Sent(c) # Deletion /\ Sent(c).type = "send" /\ Sent(c).data = c
              /\ Value(Sent(c)) = c
    /\ Deletion.type = "delete" /\ Value(Deletion) = None /\ Deletion \in Message
    /\ \A c \in Contents : Sent(c) \in Message
BY DEF Message, Sent, Deletion, Value

LEMMA FreeOfDeletion ==
    ASSUME NEW s \in Seq(Message), NEW c \in Contents, Free(s, Deletion)
    PROVE  Free(Append(s, Sent(c)), Deletion)
<1>1. Sent(c) \in Message /\ Sent(c) # Deletion
  BY Letters
<1> QED BY <1>1, FreeLonger

(* Events.                                                                  *)
LEMMA NotifiedFree ==
    ASSUME TypeOK, NEW d \in Devices, NEW e \in Events, Notified(d, e), e # "delete",
           Free(events[d], "delete")
    PROVE  Free(events'[d], "delete")
<1>1. events \in [Devices -> Seq(Events)]
  BY DEF TypeOK
<1>2. CASE events[d] # <<>> /\ events[d][Len(events[d])] = e
  BY <1>2 DEF Notified
<1>3. CASE ~(events[d] # <<>> /\ events[d][Len(events[d])] = e)
  <2>1. events'[d] = Append(events[d], e)
    BY <1>1, <1>3 DEF Notified
  <2>2. events[d] \in Seq(Events)
    BY <1>1
  <2> QED BY <2>1, <2>2, FreeLonger
<1> QED BY <1>2, <1>3

(* Opening and closing a file is no deletion.                               *)
LEMMA WritesNoDeletion ==
    ASSUME TypeOK, NEW d \in Devices, Free(events[d], "delete"),
           Truncates(d) \/ \E w \in Writing : w.at # "lost" /\ Fills(d, w)
    PROVE  Free(events'[d], "delete")
<1>1. CASE Truncates(d)
  <2>1. events' = events \/ Notified(d, "create")
    BY <1>1 DEF Truncates
  <2> QED BY <2>1, NotifiedFree, Things
<1>2. CASE \E w \in Writing : w.at # "lost" /\ Fills(d, w)
  <2>1. Notified(d, "write")
    BY <1>2 DEF Fills
  <2> QED BY <2>1, NotifiedFree, Things
<1> QED BY <1>1, <1>2

-----------------------------------------------------------------------------
(* What the steps leave alone.                                              *)

Sound == TypeOK /\ Divided /\ ListSerial /\ \A d \in Devices : DeviceInv(d)

(* Everything but what users do.                                            *)
Works(e) ==
    \/ UserCloses(e)
    \/ WatcherStep(e)
    \/ ReceiverStep(e)
    \/ ReceiveStep(e)
    \/ \E t \in Threads : DeleteStep(e, t)
    \/ InterfaceStep(e)
    \/ SendsNext(e)

SameDirectory(d) ==
    /\ user'[d] = user[d] /\ receiver'[d] = receiver[d] /\ local'[d] = local[d]
    /\ events'[d] = events[d] /\ batch'[d] = batch[d]

Same(d) ==
    SameDirectory(d) /\ up'[d] = up[d] /\ queue'[d] = queue[d] /\ down'[d] = down[d]

LEMMA DirectoryFrame ==
    ASSUME TypeOK, NEW e \in Devices,
           Truncates(e) \/ Unlinks(e) \/ \E w \in Writing : Fills(e, w)
    PROVE  \A d \in Devices : d # e => local'[d] = local[d] /\ events'[d] = events[d]
<1>1. local \in [Devices -> Files]
  BY DEF TypeOK
<1>2. CASE Truncates(e)
  BY <1>1, <1>2, TruncatesAs
<1>3. CASE Unlinks(e)
  BY <1>1, <1>3, UnlinksAs
<1>4. ASSUME NEW w \in Writing, Fills(e, w)
      PROVE  \A d \in Devices : d # e => local'[d] = local[d] /\ events'[d] = events[d]
  <2>1. CASE w.at = "lost"
    BY <1>4, <2>1 DEF Fills
  <2>2. CASE w.at # "lost"
    <3>1. local' = [local EXCEPT ![e] = w.data] /\ \A d \in Devices : d # e => events'[d] = events[d]
      BY <1>4, <2>2, FillsAs
    <3> QED BY <1>1, <3>1
  <2> QED BY <2>1, <2>2
<1> QED BY <1>2, <1>3, <1>4

LEMMA UserFrame ==
    ASSUME TypeOK, NEW e \in Devices,
           UserCloses(e) \/ UserDeletes(e) \/ \E v \in Values : UserOpens(e, v)
    PROVE  /\ UNCHANGED <<worker, stored, file_list, asked, up, queue, down, batch>>
           /\ kept' \subseteq kept
           /\ \A d \in Devices : d # e => Same(d)
<1>1. /\ UNCHANGED <<worker, stored, file_list, asked, up, queue, down, batch>>
      /\ kept' \subseteq kept
  BY DEF UserCloses, UserDeletes, UserOpens, Truncates, Unlinks, wires, server
<1>2. \A d \in Devices : d # e => local'[d] = local[d] /\ events'[d] = events[d]
  <2>1. Truncates(e) \/ Unlinks(e) \/ \E w \in Writing : Fills(e, w)
    BY DEF UserCloses, UserDeletes, UserOpens, TypeOK
  <2> QED BY <2>1, DirectoryFrame
<1>3. \A d \in Devices : d # e => user'[d] = user[d] /\ receiver'[d] = receiver[d]
  BY DEF UserCloses, UserDeletes, UserOpens, TypeOK
<1> QED BY <1>1, <1>2, <1>3 DEF Same, SameDirectory

LEMMA WatcherFrame ==
    ASSUME TypeOK, NEW e \in Devices, WatcherStep(e)
    PROVE  /\ UNCHANGED <<worker, stored, file_list, asked, local, user, receiver, queue, down, kept>>
           /\ \A d \in Devices : d # e => Same(d)
<1>1. UNCHANGED <<worker, stored, file_list, asked, local, user, receiver, queue, down, kept>>
  BY DEF WatcherStep, WatcherReads, WatcherSends, WatcherDeletes, wires, server
<1>2. CASE WatcherReads(e)
  BY <1>1, <1>2 DEF WatcherReads, TypeOK, Same, SameDirectory, wires
<1>3. CASE WatcherSends(e)
  <2>1. \A d \in Devices : d # e => batch'[d] = batch[d]
    BY <1>3, BatchAs DEF WatcherSends
  <2>2. \A d \in Devices : d # e => up'[d] = up[d]
    BY <1>3 DEF WatcherSends, TypeOK
  <2> QED BY <1>1, <1>3, <2>1, <2>2 DEF WatcherSends, Same, SameDirectory
<1>4. CASE WatcherDeletes(e)
  <2>1. \A d \in Devices : d # e => batch'[d] = batch[d]
    BY <1>4, BatchAs DEF WatcherDeletes
  <2>2. \A d \in Devices : d # e => up'[d] = up[d]
    BY <1>4 DEF WatcherDeletes, TypeOK
  <2> QED BY <1>1, <1>4, <2>1, <2>2 DEF WatcherDeletes, Same, SameDirectory
<1> QED BY <1>1, <1>2, <1>3, <1>4 DEF WatcherStep

LEMMA ReceiverFrame ==
    ASSUME TypeOK, NEW e \in Devices, ReceiverStep(e)
    PROVE  /\ UNCHANGED <<worker, stored, file_list, asked, up, queue, batch>>
           /\ kept' \subseteq kept
           /\ \A d \in Devices : d # e => Same(d)
<1>1. /\ UNCHANGED <<worker, stored, file_list, asked, up, queue, batch>>
      /\ kept' \subseteq kept
  BY DEF ReceiverStep, ReceiverOpens, ReceiverCloses, ReceiverDeletes, Truncates, Unlinks, wires, server
<1>2. \A d \in Devices : d # e => local'[d] = local[d] /\ events'[d] = events[d]
  <2>1. Truncates(e) \/ Unlinks(e) \/ \E w \in Writing : Fills(e, w)
    BY DEF ReceiverStep, ReceiverOpens, ReceiverCloses, ReceiverDeletes, TypeOK
  <2> QED BY <2>1, DirectoryFrame
<1>3. \A d \in Devices : d # e => user'[d] = user[d] /\ receiver'[d] = receiver[d] /\ down'[d] = down[d]
  BY DEF ReceiverStep, ReceiverOpens, ReceiverCloses, ReceiverDeletes, TypeOK, wires
<1> QED BY <1>1, <1>2, <1>3 DEF Same, SameDirectory

LEMMA SendsFrame ==
    ASSUME TypeOK, NEW e \in Devices, SendsNext(e)
    PROVE  /\ UNCHANGED <<worker, stored, file_list, asked, up, device, kept>>
           /\ \A d \in Devices : d # e => Same(d)
BY SendsAs DEF SendsNext, Same, SameDirectory, device, server

LEMMA ManagerFrame ==
    ASSUME TypeOK, NEW e \in Devices, ReceiveStep(e) \/ \E t \in Threads : DeleteStep(e, t)
    PROVE  /\ UNCHANGED <<device, asked, down, kept>>
           /\ \A d \in Devices : SameDirectory(d)
           /\ \A d \in Devices : d # e => up'[d] = up[d]
<1>1. UNCHANGED <<device, asked, down, kept>>
  BY DEF ReceiveStep, ReceiveOpens, ReceiveWrites, ReceiveTests, ReceivePushes, ReceiveRefreshes,
         ReceiveTells, ReceiveDeletes, DeleteStep, DeleteTests, DeleteUnlists, DeleteTells, wires
<1>2. up' = up \/ up' = [up EXCEPT ![e] = Tail(@)]
  BY DEF ReceiveStep, ReceiveOpens, ReceiveWrites, ReceiveTests, ReceivePushes, ReceiveRefreshes,
         ReceiveTells, ReceiveDeletes, DeleteStep, DeleteTests, DeleteUnlists, DeleteTells, wires
<1>3. \A d \in Devices : d # e => up'[d] = up[d]
  BY <1>2 DEF TypeOK
<1> QED BY <1>1, <1>3 DEF device, SameDirectory

LEMMA OnlyOne ==
    ASSUME Sound, NEW d \in Devices, NEW t \in Threads, Taken(d, t)
    PROVE  \A e \in Devices, u \in Threads : <<e, u>> # <<d, t>> => worker[e][u].at = "idle"
BY Alone DEF Sound, Taken


-----------------------------------------------------------------------------
(* The threads of the manager, one at a time.                               *)

Resting(e, t) ==
    \A d \in Devices, u \in Threads :
       <<d, u>> # <<e, t>> => worker[d][u].at = "idle" /\ worker'[d][u].at = "idle"

LEMMA MovesAlone ==
    ASSUME NEW e \in Devices, NEW t \in Threads, NEW w, Moves(e, t, w), Others(e, t)
    PROVE  Resting(e, t) /\ worker'[e][t] = w
BY DEF Resting, Moves, Others

LEMMA ReceiveBegins ==
    ASSUME Sound, NEW e \in Devices, ReceiveStep(e), ~raced'
    PROVE  Others(e, "receive")
<1>1. CASE ReceiveOpens(e) \/ ReceiveDeletes(e)
  BY <1>1 DEF ReceiveOpens, ReceiveDeletes, Busy, Others
<1>2. CASE Taken(e, "receive")
  BY <1>2, OnlyOne, Workers DEF Others
<1>3. ReceiveOpens(e) \/ ReceiveDeletes(e) \/ Taken(e, "receive")
  BY DEF ReceiveStep, ReceiveWrites, ReceiveTests, ReceivePushes, ReceiveRefreshes, ReceiveTells, At, Taken
<1> QED BY <1>1, <1>2, <1>3

LEMMA OpensAs ==
    ASSUME Sound, NEW e \in Devices, ReceiveOpens(e), ~raced'
    PROVE  /\ Resting(e, "receive")
           /\ up[e] # <<>> /\ up[e] \in Seq(Message) /\ Head(up[e]).type = "send"
           /\ up'[e] = Tail(up[e])
           /\ worker[e]["receive"].at = "idle"
           /\ worker'[e]["receive"].at = "writing" /\ worker'[e]["receive"].data = Head(up[e]).data
           /\ stored' = Empty /\ UNCHANGED <<file_list, queue>>
<1> DEFINE w == [at |-> "writing", data |-> Head(up[e]).data]
<1>1. up[e] # <<>> /\ up[e] \in Seq(Message) /\ Head(up[e]).type = "send" /\ up'[e] = Tail(up[e])
  BY DEF ReceiveOpens, Sound, TypeOK
<1>2. w \in WorkerType
  BY <1>1, Shorter, Messages, Things DEF WorkerType, Places
<1>3. worker' = [worker EXCEPT ![e]["receive"] = w]
  BY DEF ReceiveOpens
<1> HIDE DEF w
<1>4. Moves(e, "receive", w)
  BY <1>2, <1>3, MoveOne, Workers DEF Sound
<1>5. Others(e, "receive")
  BY ReceiveBegins DEF ReceiveStep
<1>6. Resting(e, "receive") /\ worker'[e]["receive"] = w
  BY <1>4, <1>5, MovesAlone, Workers
<1>7. w.at = "writing" /\ w.data = Head(up[e]).data
  BY DEF w
<1> QED BY <1>1, <1>6, <1>7 DEF ReceiveOpens, At

LEMMA WritesAs ==
    ASSUME Sound, NEW e \in Devices, ReceiveWrites(e), ~raced'
    PROVE  /\ Resting(e, "receive")
           /\ worker[e]["receive"].at = "writing"
           /\ worker'[e]["receive"].at = "test"
           /\ stored' = worker[e]["receive"].data /\ stored' \in Contents
           /\ UNCHANGED <<file_list, queue, up>>
<1> DEFINE w == [at |-> "test", data |-> None]
<1>1. worker[e]["receive"].at = "writing"
  BY Workers DEF ReceiveWrites, Sound, ListSerial, InHand, Place, At
<1>2. w \in WorkerType /\ w.at = "test"
  BY Things DEF WorkerType, Places
<1>3. worker' = [worker EXCEPT ![e]["receive"] = w]
  BY DEF ReceiveWrites
<1> HIDE DEF w
<1>4. Moves(e, "receive", w)
  BY <1>2, <1>3, MoveOne, Workers DEF Sound
<1>5. Others(e, "receive")
  BY ReceiveBegins DEF ReceiveStep
<1>6. Resting(e, "receive") /\ worker'[e]["receive"] = w
  BY <1>4, <1>5, MovesAlone, Workers
<1>7. stored' = worker[e]["receive"].data /\ stored' \in Contents
  BY <1>1 DEF ReceiveWrites, Sound, Divided
<1> QED BY <1>1, <1>2, <1>6, <1>7 DEF ReceiveWrites, wires

LEMMA TestsAs ==
    ASSUME Sound, NEW e \in Devices, ReceiveTests(e), ~raced'
    PROVE  /\ Resting(e, "receive")
           /\ worker[e]["receive"].at = "test" /\ stored \in Contents
           /\ worker'[e]["receive"].at \in {"idle", "push", "refresh"}
           /\ worker'[e]["receive"].at = "idle" <=> Status = "EXISTS"
           /\ UNCHANGED <<file_list, stored, queue, up>>
<1> DEFINE place == CASE Status = "NOT_FOUND" -> "push"
                      [] Status = "UPDATED" -> "refresh"
                      [] Status = "EXISTS" -> "idle"
<1>1. place \in Places /\ place \in {"idle", "push", "refresh"} /\ (place = "idle" <=> Status = "EXISTS")
  BY DEF Places, Status
<1>2. Goes(e, "receive", place)
  BY DEF ReceiveTests
<1> HIDE DEF place
<1>3. Moves(e, "receive", [at |-> place, data |-> worker[e]["receive"].data])
  BY <1>1, <1>2, GoesAs, Workers DEF Sound
<1>4. Others(e, "receive")
  BY ReceiveBegins DEF ReceiveStep
<1>5. Resting(e, "receive") /\ worker'[e]["receive"].at = place
  BY <1>3, <1>4, MovesAlone, Workers
<1>6. worker[e]["receive"].at = "test" /\ stored \in Contents
  BY Workers, Things DEF ReceiveTests, At, Sound, TypeOK, ListSerial, InHand, Place
<1> QED BY <1>1, <1>5, <1>6 DEF ReceiveTests, wires

(* Pushing and refreshing put what is stored on the list.                   *)
LEMMA ListsAs ==
    ASSUME Sound, NEW e \in Devices, ReceivePushes(e) \/ ReceiveRefreshes(e), ~raced', running'
    PROVE  /\ Resting(e, "receive")
           /\ worker[e]["receive"].at \in {"push", "refresh"}
           /\ worker'[e]["receive"].at = "send"
           /\ Public' = stored /\ stored \in Contents
           /\ UNCHANGED <<stored, queue, up>>
<1>1. worker[e]["receive"].at \in {"push", "refresh"} /\ InHand(e, "receive")
  BY Workers DEF ReceivePushes, ReceiveRefreshes, At, Sound, ListSerial
<1>2. stored \in Contents /\ CRC = stored
  BY <1>1, Things DEF InHand, Place, Sound, TypeOK, CRC
<1>3. Goes(e, "receive", "send")
  BY DEF ReceivePushes, ReceiveRefreshes
<1>4. Moves(e, "receive", [at |-> "send", data |-> worker[e]["receive"].data])
  BY <1>3, GoesAs, Workers DEF Sound, Places
<1>5. Others(e, "receive")
  BY ReceiveBegins DEF ReceiveStep
<1>6. Resting(e, "receive") /\ worker'[e]["receive"].at = "send"
  BY <1>4, <1>5, MovesAlone, Workers
<1>7. file_list' = <<stored>>
  <2>1. CASE ReceivePushes(e)
    <3>1. file_list = <<>>
      BY <1>1, <2>1 DEF ReceivePushes, At, InHand, Place
    <3> QED BY <1>2, <2>1, <3>1, Shortness DEF ReceivePushes
  <2>2. CASE ReceiveRefreshes(e)
    <3>1. \E x \in Contents : file_list = <<x>>
      BY <1>1, <2>2 DEF ReceiveRefreshes, At, InHand, Place, Short
    <3>2. file_list' = [file_list EXCEPT ![1] = CRC]
      BY <2>2, <3>1, Shortness DEF ReceiveRefreshes, Known
    <3> QED BY <1>2, <3>1, <3>2, Shortness
  <2> QED BY <2>1, <2>2
<1>8. Public' = stored
  BY <1>7, Shortness DEF Public
<1> QED BY <1>1, <1>2, <1>6, <1>8 DEF ReceivePushes, ReceiveRefreshes, wires

LEMMA TellsAs ==
    ASSUME Sound, NEW e \in Devices, ReceiveTells(e), ~raced'
    PROVE  /\ Resting(e, "receive")
           /\ worker[e]["receive"].at = "send"
           /\ worker'[e]["receive"].at = "idle"
           /\ Public = stored /\ stored \in Contents
           /\ queue'[e] = queue[e]
           /\ \A d \in Devices : d # e => queue'[d] = Append(queue[d], "send")
           /\ UNCHANGED <<file_list, stored, up>>
<1>1. worker[e]["receive"].at = "send" /\ InHand(e, "receive")
  BY Workers DEF ReceiveTells, At, Sound, ListSerial
<1>2. Public = stored /\ stored \in Contents
  BY <1>1, Things, Shortness DEF InHand, Place, Sound, TypeOK, Public
<1>3. Moves(e, "receive", [at |-> "idle", data |-> worker[e]["receive"].data])
  BY GoesAs, Workers DEF Sound, Places, ReceiveTells
<1>4. Others(e, "receive")
  BY ReceiveBegins DEF ReceiveStep
<1>5. Resting(e, "receive") /\ worker'[e]["receive"].at = "idle"
  BY <1>3, <1>4, MovesAlone, Workers
<1> QED BY <1>1, <1>2, <1>5 DEF ReceiveTells, Told

LEMMA DeletesAs ==
    ASSUME Sound, NEW e \in Devices, ReceiveDeletes(e), ~raced'
    PROVE  /\ Resting(e, "receive")
           /\ up[e] # <<>> /\ up[e] \in Seq(Message) /\ Head(up[e]) = Deletion
           /\ up'[e] = Tail(up[e])
           /\ worker[e]["receive"].at = "idle"
           /\ worker'[e]["receive"].at = "gone"
           /\ stored' = None /\ UNCHANGED <<file_list, queue>>
<1>1. up[e] # <<>> /\ up[e] \in Seq(Message) /\ Head(up[e]) = Deletion /\ up'[e] = Tail(up[e])
  <2>1. up[e] # <<>> /\ up[e] \in Seq(Message) /\ Head(up[e]).type = "delete" /\ up'[e] = Tail(up[e])
    BY DEF ReceiveDeletes, Sound, TypeOK
  <2> QED BY <2>1, Shorter, Letters
<1>2. Others(e, "receive")
  BY ReceiveBegins DEF ReceiveStep
<1>3. /\ worker'[e]["receive"].at = "gone" /\ stored' = None
      /\ \A d \in Devices, u \in Threads : <<d, u>> # <<e, "receive">> =>
            worker'[d][u].at = IF worker[d][u].at = "writing" THEN "lost" ELSE worker[d][u].at
  <2>1. Removes(e, "receive", "gone")
    BY DEF ReceiveDeletes
  <2> QED BY <2>1, RemovesTo, Workers DEF Sound, Places
<1>4. Resting(e, "receive")
  BY <1>2, <1>3 DEF Resting, Others
<1> QED BY <1>1, <1>3, <1>4 DEF ReceiveDeletes, At

LEMMA DeleteTestsAs ==
    ASSUME Sound, NEW e \in Devices, NEW t \in Threads, DeleteTests(e, t)
    PROVE  /\ Resting(e, t)
           /\ worker[e][t].at = "gone"
           /\ worker'[e][t].at = IF Known THEN "unlist" ELSE AfterList(t)
           /\ UNCHANGED <<file_list, stored, queue, up>>
<1> DEFINE place == IF Status = "NOT_FOUND" THEN AfterList(t) ELSE "unlist"
<1>1. place \in Places /\ place = IF Known THEN "unlist" ELSE AfterList(t)
  BY DEF Places, Status, AfterList
<1>2. Goes(e, t, place)
  BY DEF DeleteTests
<1> HIDE DEF place
<1>3. Moves(e, t, [at |-> place, data |-> worker[e][t].data])
  BY <1>1, <1>2, GoesAs DEF Sound
<1>4. worker[e][t].at = "gone" /\ Others(e, t)
  BY OnlyOne DEF DeleteTests, At, Taken, Others
<1> QED BY <1>1, <1>3, <1>4, MovesAlone DEF DeleteTests, wires

LEMMA DeleteUnlistsAs ==
    ASSUME Sound, NEW e \in Devices, NEW t \in Threads, DeleteUnlists(e, t)
    PROVE  /\ Resting(e, t)
           /\ worker[e][t].at = "unlist"
           /\ worker'[e][t].at = "delete"
           /\ Public' = None
           /\ t = "receive" => stored = None
           /\ UNCHANGED <<stored, queue, up>>
<1>1. Moves(e, t, [at |-> "delete", data |-> worker[e][t].data])
  BY GoesAs DEF Sound, Places, DeleteUnlists
<1>2. worker[e][t].at = "unlist" /\ Others(e, t) /\ InHand(e, t)
  BY OnlyOne DEF DeleteUnlists, At, Taken, Others, Sound, ListSerial
<1>3. file_list' = <<>>
  BY <1>2, Shortness DEF InHand, Place, Short, DeleteUnlists, Unlisted
<1> QED BY <1>1, <1>2, <1>3, MovesAlone DEF DeleteUnlists, wires, InHand, Place, Public

LEMMA DeleteTellsAs ==
    ASSUME Sound, NEW e \in Devices, NEW t \in Threads, DeleteTells(e, t)
    PROVE  /\ Resting(e, t)
           /\ worker[e][t].at = "delete"
           /\ worker'[e][t].at = AfterList(t)
           /\ queue'[e] = queue[e]
           /\ \A d \in Devices : d # e => queue'[d] = Append(queue[d], "delete")
           /\ UNCHANGED <<file_list, stored, up>>
<1>1. AfterList(t) \in Places
  BY DEF Places, AfterList
<1>2. Moves(e, t, [at |-> AfterList(t), data |-> worker[e][t].data])
  BY <1>1, GoesAs DEF Sound, DeleteTells
<1>3. worker[e][t].at = "delete" /\ Others(e, t)
  BY OnlyOne DEF DeleteTells, At, Taken, Others
<1> QED BY <1>2, <1>3, MovesAlone DEF DeleteTells, Told

-----------------------------------------------------------------------------
(* What was written stays.                                                  *)

LEMMA NobodyKeeps ==
    ASSUME Sound, NobodyAsks, NEW e \in Devices, Works(e), ~raced', running'
    PROVE  /\ NobodyAsks'
           /\ ~InterfaceStep(e) /\ ~DeleteStep(e, "interface")
           /\ kept' \subseteq kept
<1> USE Workers
<1>1. asked[e] = 0 /\ worker[e]["interface"].at = "idle"
  BY DEF NobodyAsks
<1>2. ~InterfaceStep(e) /\ ~DeleteStep(e, "interface")
  BY <1>1 DEF InterfaceStep, InterfaceDeletes, InterfaceRemoves, DeleteStep, DeleteTests, DeleteUnlists,
              DeleteTells, At, Sound, TypeOK
<1>3. CASE UserCloses(e) \/ WatcherStep(e) \/ ReceiverStep(e) \/ SendsNext(e)
  <2>1. UNCHANGED <<worker, asked>> /\ kept' \subseteq kept
    BY <1>3, UserFrame, WatcherFrame, ReceiverFrame, SendsFrame DEF Sound
  <2> QED BY <1>2, <2>1 DEF NobodyAsks
<1>4. CASE ReceiveStep(e) \/ DeleteStep(e, "receive")
  <2>1. UNCHANGED <<asked, kept>>
    BY <1>4, ManagerFrame DEF Sound
  <2>2. CASE ReceiveStep(e)
    <3>1. Resting(e, "receive")
      BY <2>2, OpensAs, WritesAs, TestsAs, ListsAs, TellsAs, DeletesAs DEF ReceiveStep
    <3> QED BY <1>2, <2>1, <3>1 DEF Resting, NobodyAsks
  <2>3. CASE DeleteStep(e, "receive")
    <3>1. Resting(e, "receive")
      BY <2>3, DeleteTestsAs, DeleteUnlistsAs, DeleteTellsAs DEF DeleteStep
    <3> QED BY <1>2, <2>1, <3>1 DEF Resting, NobodyAsks
  <2> QED BY <1>4, <2>2, <2>3
<1> QED BY <1>2, <1>3, <1>4 DEF Works, Threads

LEMMA HoldsKeeps ==
    ASSUME Sound, NobodyAsks, NEW d \in Devices, NEW v, Holds(d, v), Unreached(d),
           NEW e \in Devices, Works(e), ~raced', running'
    PROVE  Holds(d, v)'
<1>1. d \notin kept'
  BY NobodyKeeps DEF Holds
<1>2. CASE SameDirectory(d)
  BY <1>1, <1>2 DEF Holds, SameDirectory
<1>3. CASE e = d /\ UserCloses(e)
  <2>1. user[d].at = "writing" /\ user[d] \in Writing /\ Fills(d, user[d]) /\ user'[d] = NotWriting
    BY <1>3 DEF UserCloses, Holds, Sound, TypeOK
  <2>2. local' = [local EXCEPT ![d] = user[d].data]
    BY <2>1, FillsAs DEF Sound
  <2> QED BY <1>1, <2>1, <2>2 DEF Holds, NotWriting, Sound, TypeOK
<1>4. CASE e = d /\ WatcherStep(e)
  BY <1>1, <1>4, WatcherFrame DEF Sound, Holds
<1>5. CASE e # d /\ (UserCloses(e) \/ WatcherStep(e) \/ ReceiverStep(e))
  BY <1>2, <1>5, UserFrame, WatcherFrame, ReceiverFrame DEF Sound, Same
<1>6. CASE ReceiveStep(e) \/ DeleteStep(e, "receive")
  BY <1>2, <1>6, Workers, ManagerFrame DEF Sound
<1>7. CASE SendsNext(e)
  BY <1>2, <1>7, SendsFrame DEF Sound, device, SameDirectory
<1>8. e = d => ~ReceiverStep(e)
  BY DEF Unreached, ReceiverStep, ReceiverOpens, ReceiverCloses, ReceiverDeletes
<1> QED BY <1>3, <1>4, <1>5, <1>6, <1>7, <1>8, NobodyKeeps DEF Works, Threads

LEMMA UndeletedKeeps ==
    ASSUME Sound, NobodyAsks, NEW d \in Devices, Undeleted(d),
           NEW e \in Devices, Works(e), ~ReceiverDeletes(d), ~raced', running'
    PROVE  Undeleted(d)'
<1> USE Workers
<1>1. events[d] \in Seq(Events) /\ batch[d] \in Seq(Events) /\ up[d] \in Seq(Message)
  BY DEF Sound, TypeOK
<1>2. CASE e # d
  <2>1. SameDirectory(d) /\ up'[d] = up[d]
    BY <1>2, UserFrame, WatcherFrame, ReceiverFrame, ManagerFrame, SendsFrame, NobodyKeeps
    DEF Sound, Works, Same, Threads
  <2>2. worker'[d]["receive"] = worker[d]["receive"] \/ worker'[d]["receive"].at = "idle"
    <3>1. CASE UserCloses(e) \/ WatcherStep(e) \/ ReceiverStep(e) \/ SendsNext(e)
      BY <3>1, UserFrame, WatcherFrame, ReceiverFrame, SendsFrame DEF Sound
    <3>2. CASE ReceiveStep(e)
      <4>1. Resting(e, "receive")
        BY <3>2, OpensAs, WritesAs, TestsAs, ListsAs, TellsAs, DeletesAs DEF ReceiveStep
      <4> QED BY <1>2, <4>1 DEF Resting
    <3>3. CASE DeleteStep(e, "receive")
      <4>1. Resting(e, "receive")
        BY <3>3, DeleteTestsAs, DeleteUnlistsAs, DeleteTellsAs DEF DeleteStep
      <4> QED BY <1>2, <4>1 DEF Resting
    <3> QED BY <3>1, <3>2, <3>3, NobodyKeeps DEF Works, Threads
  <2> QED BY <2>1, <2>2 DEF Undeleted, Erasing, SameDirectory
<1>3. CASE e = d /\ (UserCloses(d) \/ ReceiverStep(d))
  <2>1. UNCHANGED <<worker, up, batch>>
    BY <1>3, UserFrame, ReceiverFrame DEF Sound
  <2>2. Truncates(d) \/ \E w \in Writing : w.at # "lost" /\ Fills(d, w)
    BY <1>3 DEF UserCloses, ReceiverStep, ReceiverOpens, ReceiverCloses, Sound, DeviceInv, Unlost, TypeOK
  <2>3. Free(events'[d], "delete")
    BY <2>2, WritesNoDeletion DEF Undeleted, Sound
  <2> QED BY <2>1, <2>3 DEF Undeleted, Erasing
<1>4. CASE e = d /\ WatcherReads(d)
  BY <1>4, FreeEmpty DEF WatcherReads, Undeleted, Erasing, Sound, TypeOK, server, wires
<1>5. CASE e = d /\ WatcherSends(d)
  <2>1. batch[d] # <<>> /\ batch'[d] = Tail(batch[d]) /\ events' = events /\ worker' = worker
    BY <1>5, BatchAs DEF WatcherSends, Sound, server
  <2>2. up'[d] = up[d] \/ (local[d] \in Contents /\ up'[d] = Append(up[d], Sent(local[d])))
    BY <1>5, Things DEF WatcherSends, Sound, TypeOK, Sent
  <2>3. Free(up'[d], Deletion)
    BY <1>1, <2>2, FreeOfDeletion DEF Undeleted
  <2>4. Free(batch'[d], "delete")
    BY <1>1, <2>1, FreeShorter DEF Undeleted
  <2> QED BY <2>1, <2>3, <2>4 DEF Undeleted, Erasing
<1>6. ~WatcherDeletes(d)
  BY <1>1, FreeShorter DEF Undeleted, WatcherDeletes
<1>7. CASE e = d /\ ReceiveStep(d)
  <2>1. SameDirectory(d)
    BY <1>7, ManagerFrame DEF Sound
  <2>2. ~ReceiveDeletes(d)
    BY FreeShorter, DeletesAs DEF Undeleted
  <2>3. up'[d] = up[d] \/ (up[d] # <<>> /\ up'[d] = Tail(up[d]))
    BY <1>7, <2>2, OpensAs, WritesAs, TestsAs, ListsAs, TellsAs DEF ReceiveStep
  <2>4. Free(up'[d], Deletion)
    BY <1>1, <2>3, FreeShorter DEF Undeleted
  <2>5. ~Erasing(d)'
    BY <1>7, <2>2, OpensAs, WritesAs, TestsAs, ListsAs, TellsAs DEF ReceiveStep, Erasing
  <2> QED BY <2>1, <2>4, <2>5 DEF Undeleted, SameDirectory
<1>8. ~DeleteStep(d, "receive")
  BY DEF Undeleted, Erasing, DeleteStep, DeleteTests, DeleteUnlists, DeleteTells, At
<1>9. CASE e = d /\ SendsNext(d)
  BY <1>9, SendsFrame DEF Undeleted, Erasing, Sound, device
<1> QED BY <1>2, <1>3, <1>4, <1>5, <1>6, <1>7, <1>8, <1>9, NobodyKeeps DEF Works, WatcherStep, Threads

(* The threads do nothing but store v, make it public and tell of it.       *)
LEMMA SpreadsOut ==
    ASSUME Sound, NEW x \in Devices, NEW v, Spreads(x, v), NEW e \in Devices
    PROVE  /\ ~ReceiveDeletes(e) /\ ~DeleteStep(e, "receive") /\ ~WatcherDeletes(e) /\ ~ReceiverDeletes(e)
           /\ e # x => ~ReceivePushes(e) /\ ~ReceiveRefreshes(e) /\ ~ReceiveTells(e)
<1>1. Offers(e, v)
  BY DEF Spreads
<1>2. /\ events[e] \in Seq(Events) /\ batch[e] \in Seq(Events)
      /\ up[e] \in Seq(Message) /\ down[e] \in Seq(Message)
  BY DEF Sound, TypeOK
<1>3. ~ReceiveDeletes(e)
  <2>1. up[e] # <<>> => Head(up[e]) = Sent(v)
    BY <1>1, AllShorter DEF Offers
  <2> QED BY <2>1, Letters DEF ReceiveDeletes
<1>4. ~DeleteStep(e, "receive")
  BY <1>1 DEF Offers, Undeleted, Erasing, DeleteStep, DeleteTests, DeleteUnlists, DeleteTells, At
<1>5. ~WatcherDeletes(e)
  BY <1>1, <1>2, FreeShorter DEF Offers, Undeleted, WatcherDeletes
<1>6. ~ReceiverDeletes(e)
  <2>1. CASE e = x
    BY <2>1 DEF Spreads, Unreached, ReceiverDeletes
  <2>2. CASE e # x
    <3>1. down[e] # <<>> => Head(down[e]) = Sent(v)
      BY <2>2, AllShorter DEF Spreads, Copies
    <3> QED BY <3>1, Letters DEF ReceiverDeletes
  <2> QED BY <2>1, <2>2
<1>7. e # x => ~ReceivePushes(e) /\ ~ReceiveRefreshes(e) /\ ~ReceiveTells(e)
  BY DEF Spreads, Copies, ReceivePushes, ReceiveRefreshes, ReceiveTells, At
<1> QED BY <1>3, <1>4, <1>5, <1>6, <1>7

(* What a device has when its watcher looks.                                *)
LEMMA SpreadsLook ==
    ASSUME Sound, NEW x \in Devices, NEW v, Spreads(x, v), Holds(x, v), NEW e \in Devices,
           WatcherSends(e), ~raced'
    PROVE  local[e] = v
<1>1. receiver[e].at = "idle" /\ user[e].at = "idle" /\ Stirred(e)
  BY DEF WatcherSends, BeingWritten, Stirred
<1>2. CASE e = x
  BY <1>1, <1>2 DEF Holds
<1>3. CASE e # x
  BY <1>1, <1>3 DEF Spreads, Copies
<1> QED BY <1>2, <1>3

LEMMA OffersKeep ==
    ASSUME Sound, NEW x \in Devices, NEW v, Spreads(x, v), Holds(x, v), NEW e \in Devices, NEW d \in Devices,
           Works(e), ~raced', running'
    PROVE  Offers(d, v)'
<1> USE Workers
<1>1. Offers(d, v) /\ NobodyAsks
  BY DEF Spreads
<1>2. Undeleted(d)'
  BY <1>1, SpreadsOut, UndeletedKeeps DEF Offers
<1>3. CASE UserCloses(e) \/ ReceiverStep(e) \/ SendsNext(e)
  <2>1. UNCHANGED <<worker, stored, up>>
    BY <1>3, UserFrame, ReceiverFrame, SendsFrame DEF Sound
  <2> QED BY <1>1, <1>2, <2>1 DEF Offers
<1>4. CASE WatcherStep(e)
  <2>1. UNCHANGED <<worker, stored>> /\ (d # e => up'[d] = up[d])
    BY <1>4, WatcherFrame DEF Sound, Same
  <2>2. ASSUME d = e PROVE up'[d] \in Seq({Sent(v)})
    <3>1. CASE WatcherReads(e)
      BY <1>1, <2>2, <3>1 DEF WatcherReads, wires, Offers
    <3>2. CASE WatcherSends(e)
      <4>1. up'[d] = up[d] \/ up'[d] = Append(up[d], Sent(v))
        BY <2>2, <3>2, SpreadsLook DEF WatcherSends, Sound, TypeOK, Sent
      <4> QED BY <1>1, <4>1, AllLonger DEF Offers
    <3> QED BY <1>4, <3>1, <3>2, SpreadsOut DEF WatcherStep
  <2> QED BY <1>1, <1>2, <2>1, <2>2 DEF Offers
<1>5. CASE ReceiveStep(e)
  <2>1. Resting(e, "receive") /\ (d # e => up'[d] = up[d])
    BY <1>5, ManagerFrame, OpensAs, WritesAs, TestsAs, ListsAs, TellsAs, DeletesAs DEF ReceiveStep, Sound
  <2>2. CASE d # e
    <3>1. worker'[d]["receive"].at = "idle"
      BY <2>1, <2>2 DEF Resting
    <3> QED BY <1>1, <1>2, <2>1, <2>2, <3>1 DEF Offers
  <2>3. CASE d = e
    <3>1. CASE ReceiveOpens(e)
      <4>1. up[d] \in Seq({Sent(v)}) /\ up[d] # <<>> /\ up'[d] = Tail(up[d])
            /\ worker'[d]["receive"].at = "writing" /\ worker'[d]["receive"].data = Head(up[d]).data
        BY <1>1, <2>3, <3>1, OpensAs DEF Offers
      <4>2. Head(up[d]) = Sent(v) /\ up'[d] \in Seq({Sent(v)})
        BY <4>1, AllShorter
      <4> QED BY <1>2, <4>1, <4>2 DEF Offers, Sent
    <3>2. CASE ReceiveWrites(e)
      BY <1>1, <1>2, <2>3, <3>2, WritesAs DEF Offers
    <3>3. CASE ReceiveTests(e)
      BY <1>1, <1>2, <2>3, <3>3, TestsAs DEF Offers
    <3>4. CASE ReceivePushes(e) \/ ReceiveRefreshes(e)
      BY <1>1, <1>2, <2>3, <3>4, ListsAs DEF Offers
    <3>5. CASE ReceiveTells(e)
      BY <1>1, <1>2, <2>3, <3>5, TellsAs DEF Offers
    <3> QED BY <1>5, <3>1, <3>2, <3>3, <3>4, <3>5, SpreadsOut DEF ReceiveStep
  <2> QED BY <2>2, <2>3
<1> QED BY <1>1, <1>3, <1>4, <1>5, NobodyKeeps, SpreadsOut DEF Works, Threads

(* What is sent now is v.                                                   *)
LEMMA SpreadsSent ==
    ASSUME Sound, NEW x \in Devices, NEW v, Spreads(x, v), NEW d \in Devices, d # x,
           SendsNext(d), ~raced'
    PROVE  stored = v \/ stored = None
<1>1. Public = v
  <2>1. queue[d] # <<>>
    BY DEF SendsNext
  <2> QED BY <2>1 DEF Spreads, Copies, Engaged
<1>2. CASE \A e \in Devices, t \in Threads : ~Taken(e, t)
  BY <1>1, <1>2, Shortness DEF Sound, ListSerial, AtRest, Public
<1>3. ASSUME NEW e \in Devices, NEW t \in Threads, Taken(e, t) PROVE stored = v
  <2>1. t = "receive"
    BY <1>3 DEF Spreads, NobodyAsks, Taken, Threads
  <2>2. worker[e]["receive"].at # "writing"
    BY DEF SendsNext
  <2>3. Offers(e, v)
    BY DEF Spreads
  <2>4. worker[e]["receive"].at \in Places \ {"lost", "remove", "writing", "idle"}
    <3>1. worker[e]["receive"].at \in Places
      <4>1. worker \in [Devices -> [Threads -> [at : Places, data : Files]]]
        BY DEF Sound, TypeOK
      <4>2. worker[e] \in [Threads -> [at : Places, data : Files]]
        BY <4>1
      <4>3. worker[e]["receive"] \in [at : Places, data : Files]
        BY <4>2 DEF Threads
      <4> QED BY <4>3
    <3>2. worker[e]["receive"].at # "idle"
      BY <1>3, <2>1 DEF Taken
    <3>3. worker[e]["receive"].at # "remove"
      BY DEF Sound, Divided
    <3>4. worker[e]["receive"].at # "lost"
      BY DEF Sound, ListSerial, InHand, Place, Threads
    <3> QED BY <2>2, <3>1, <3>2, <3>3, <3>4
  <2> QED BY <2>3, <2>4 DEF Places, Offers, Undeleted, Erasing
<1> QED BY <1>2, <1>3

LEMMA CopiesInDirectory ==
    ASSUME Sound, NEW x \in Devices, NEW v, Spreads(x, v), NEW d \in Devices, d # x,
           UserCloses(d) \/ WatcherStep(d) \/ ReceiverStep(d), ~raced', running'
    PROVE  Copies(d, v)'
<1>1. Copies(d, v) /\ down[d] \in Seq(Message) /\ local \in [Devices -> Files]
  BY DEF Spreads, Sound, TypeOK
<1>2. UNCHANGED <<worker, stored, file_list, queue>>
  BY UserFrame, WatcherFrame, ReceiverFrame DEF Sound
<1>3. ASSUME Engaged(d), user'[d] = user[d], down'[d] \in Seq({Sent(v)}),
             IF receiver'[d].at # "idle" THEN receiver'[d].data = v ELSE Stirred(d)' => local'[d] = v
      PROVE  Copies(d, v)'
  <2>1. Public' = v
    BY <1>1, <1>2, <1>3 DEF Copies, Public
  <2> QED BY <1>1, <1>2, <1>3, <2>1 DEF Copies
<1>4. ~UserCloses(d)
  BY <1>1 DEF Copies, UserCloses
<1>5. CASE WatcherStep(d)
  <2>1. UNCHANGED <<user, receiver, local, down>>
    BY <1>5, WatcherFrame DEF Sound
  <2>2. Stirred(d)
    BY <1>5 DEF WatcherStep, WatcherReads, WatcherSends, WatcherDeletes, Stirred
  <2> QED BY <1>1, <1>3, <2>1, <2>2 DEF Copies, Engaged
<1>6. CASE ReceiverOpens(d)
  <2>1. /\ down[d] # <<>> /\ down'[d] = Tail(down[d]) /\ user' = user
        /\ receiver'[d].at = "writing" /\ receiver'[d].data = Head(down[d]).data
    BY <1>6 DEF ReceiverOpens, Sound, TypeOK
  <2>2. Head(down[d]) = Sent(v) /\ down'[d] \in Seq({Sent(v)})
    BY <1>1, <2>1, AllShorter DEF Copies
  <2>3. receiver'[d].data = v
    BY <2>1, <2>2 DEF Sent
  <2> QED BY <1>3, <2>1, <2>2, <2>3 DEF Engaged
<1>7. CASE ReceiverCloses(d)
  <2>1. /\ receiver[d].at # "idle" /\ receiver[d].at # "lost" /\ receiver[d] \in Writing
        /\ receiver'[d].at = "idle" /\ down' = down /\ user' = user /\ Fills(d, receiver[d])
    BY <1>7 DEF ReceiverCloses, Sound, DeviceInv, Unlost, TypeOK, NotWriting, wires
  <2>2. local'[d] = v
    BY <1>1, <2>1, FillsAs DEF Sound, Copies
  <2> QED BY <1>1, <1>3, <2>1, <2>2 DEF Copies, Engaged, Stirred
<1> QED BY <1>4, <1>5, <1>6, <1>7, SpreadsOut DEF ReceiverStep

(* The manager makes nothing public but v.                                  *)
LEMMA CopiesAtManager ==
    ASSUME Sound, NEW x \in Devices, NEW v, Spreads(x, v), NEW d \in Devices, d # x,
           NEW e \in Devices, ReceiveStep(e), ~raced', running'
    PROVE  Copies(d, v)'
<1> USE Workers
<1>1. Copies(d, v) /\ Offers(e, v)
  BY DEF Spreads
<1>2. SameDirectory(d) /\ down' = down /\ (e # d => up'[d] = up[d])
  BY ManagerFrame DEF Sound
<1>3. Resting(e, "receive")
  BY OpensAs, WritesAs, TestsAs, ListsAs, TellsAs, DeletesAs DEF ReceiveStep
<1>4. Uploading(d)' => Uploading(d)
  <2>1. CASE e = d
    <3>1. up[d] # <<>> \/ Taken(d, "receive")
      BY <2>1, OpensAs, WritesAs, TestsAs, ListsAs, TellsAs, DeletesAs DEF ReceiveStep, Taken
    <3> QED BY <3>1 DEF Uploading
  <2>2. CASE e # d
    <3>1. worker'[d]["receive"].at = "idle"
      BY <1>3, <2>2 DEF Resting
    <3> QED BY <1>2, <2>2, <3>1 DEF Uploading, Taken
  <2> QED BY <2>1, <2>2
<1>5. Stirred(d)' <=> Stirred(d)
  BY <1>2 DEF SameDirectory, Stirred
<1>6. worker'[d]["receive"].at \in {"idle", "writing", "test"}
  <2>1. CASE e # d
    BY <1>3, <2>1 DEF Resting
  <2>2. CASE e = d /\ ReceiveTests(e)
    <3>1. stored = v /\ Public = v /\ stored # None
      BY <1>1, <2>2, TestsAs, Things DEF Offers, Copies, Engaged, Uploading, Taken
    <3>2. Status = "EXISTS"
      BY <3>1 DEF Public, Status, Known, CRC
    <3> QED BY <2>2, <3>2, TestsAs
  <2>3. CASE e = d /\ ~ReceiveTests(e)
    BY <2>3, OpensAs, WritesAs, SpreadsOut DEF ReceiveStep
  <2> QED BY <2>1, <2>2, <2>3
<1>7. ASSUME Free(queue'[d], "delete"), Engaged(d)' => Public' = v PROVE Copies(d, v)'
  BY <1>1, <1>2, <1>5, <1>6, <1>7 DEF Copies, SameDirectory
<1>8. CASE ReceiveOpens(e) \/ ReceiveWrites(e) \/ ReceiveTests(e)
  <2>1. UNCHANGED <<file_list, queue>>
    BY <1>8, OpensAs, WritesAs, TestsAs
  <2>2. Engaged(d)' => Engaged(d)
    BY <1>2, <1>4, <1>5, <2>1 DEF Engaged
  <2> QED BY <1>1, <1>7, <2>1, <2>2 DEF Copies, Public
<1>9. CASE ReceivePushes(e) \/ ReceiveRefreshes(e)
  <2>1. Public' = v /\ queue' = queue
    BY <1>1, <1>9, ListsAs DEF Offers
  <2> QED BY <1>1, <1>7, <2>1 DEF Copies
<1>10. CASE ReceiveTells(e)
  <2>1. Public' = v /\ queue[d] \in Seq({"send", "delete"})
    BY <1>1, <1>10, TellsAs DEF Offers, Public, Sound, TypeOK
  <2>2. queue'[d] = queue[d] \/ queue'[d] = Append(queue[d], "send")
    BY <1>10, TellsAs
  <2>3. Free(queue'[d], "delete")
    <3>1. Free(queue[d], "delete")
      BY <1>1 DEF Copies
    <3>2. Free(Append(queue[d], "send"), "delete")
      BY <2>1, <3>1, FreeLonger
    <3> QED BY <2>2, <3>1, <3>2
  <2> QED BY <1>7, <2>1, <2>3
<1> QED BY <1>8, <1>9, <1>10, SpreadsOut DEF ReceiveStep

LEMMA CopiesSent ==
    ASSUME Sound, NEW x \in Devices, NEW v, Spreads(x, v), NEW d \in Devices, d # x, SendsNext(d), ~raced', running'
    PROVE  Copies(d, v)'
<1>1. Copies(d, v) /\ Engaged(d)
  BY DEF Spreads, SendsNext, Engaged
<1>2. UNCHANGED <<worker, file_list, up, device>>
  BY SendsFrame DEF Sound
<1>3. /\ queue[d] \in Seq({"send", "delete"}) /\ queue[d] # <<>> /\ queue'[d] = Tail(queue[d])
  BY SendsAs DEF Sound, TypeOK
<1>4. Head(queue[d]) = "send" /\ Free(queue'[d], "delete")
  BY <1>1, <1>3, FreeShorter, Shorter DEF Copies
<1>5. down'[d] = down[d] \/ (stored # None /\ down'[d] = Append(down[d], Sent(stored)))
  BY <1>4 DEF SendsNext, Missing, Sent, Sound, TypeOK
<1>6. down'[d] \in Seq({Sent(v)})
  BY <1>1, <1>5, SpreadsSent, AllLonger DEF Copies
<1>7. Public' = v /\ (Stirred(d)' <=> Stirred(d))
  BY <1>1, <1>2 DEF Copies, Public, Stirred, device
<1> QED BY <1>1, <1>2, <1>4, <1>6, <1>7 DEF Copies, device

LEMMA SpreadsKeeps ==
    ASSUME Sound, NEW x \in Devices, NEW v, Spreads(x, v), Holds(x, v), NEW e \in Devices, Works(e),
           ~raced', running'
    PROVE  Spreads(x, v)'
<1> USE Workers
<1>1. NobodyAsks /\ Unreached(x)
  BY DEF Spreads
<1>2. Unreached(x)'
  <2>1. CASE e # x /\ (UserCloses(e) \/ WatcherStep(e) \/ ReceiverStep(e) \/ SendsNext(e))
    BY <1>1, <2>1, UserFrame, WatcherFrame, ReceiverFrame, SendsFrame DEF Sound, Same, SameDirectory, Unreached
  <2>2. CASE e = x /\ (UserCloses(e) \/ WatcherStep(e))
    <3>1. receiver' = receiver /\ queue' = queue /\ down' = down
      BY <2>2, UserFrame, WatcherFrame DEF Sound, UserCloses
    <3> QED BY <1>1, <3>1 DEF Unreached
  <2>3. CASE ReceiveStep(e)
    <3>1. SameDirectory(x) /\ down' = down
      BY <2>3, ManagerFrame DEF Sound
    <3>2. queue'[x] = queue[x]
      BY <2>3, OpensAs, WritesAs, TestsAs, ListsAs, TellsAs, SpreadsOut DEF ReceiveStep
    <3> QED BY <1>1, <3>1, <3>2 DEF Unreached, SameDirectory
  <2>4. e = x => ~ReceiverStep(e) /\ ~SendsNext(e)
    BY <1>1 DEF Unreached, ReceiverStep, ReceiverOpens, ReceiverCloses, ReceiverDeletes, SendsNext
  <2> QED BY <1>1, <2>1, <2>2, <2>3, <2>4, SpreadsOut, NobodyKeeps DEF Works, Threads
<1>3. ASSUME NEW d \in Devices, d # x PROVE Copies(d, v)'
  <2>1. CASE e # d /\ (UserCloses(e) \/ WatcherStep(e) \/ ReceiverStep(e) \/ SendsNext(e))
    <3>1. UNCHANGED <<worker, file_list>> /\ Same(d)
      BY <2>1, UserFrame, WatcherFrame, ReceiverFrame, SendsFrame DEF Sound
    <3>2. Copies(d, v)
      BY <1>3 DEF Spreads
    <3>3. (Stirred(d)' <=> Stirred(d)) /\ (Engaged(d)' <=> Engaged(d)) /\ Public' = Public
      BY <3>1 DEF Same, SameDirectory, Stirred, Engaged, Uploading, Taken, Public
    <3> QED BY <3>1, <3>2, <3>3 DEF Copies, Same, SameDirectory
  <2> QED BY <1>1, <1>3, <2>1, CopiesInDirectory, CopiesAtManager, CopiesSent, SpreadsOut, NobodyKeeps
      DEF Works, Threads
<1> QED BY <1>1, <1>2, <1>3, OffersKeep, NobodyKeeps DEF Spreads

LEMMA WrittenKeeps ==
    ASSUME Sound, NEW d \in Devices, NEW v, Written(d, v), NEW e \in Devices, Works(e), ~raced', running'
    PROVE  Written(d, v)'
<1>1. NobodyAsks /\ Unreached(d) /\ Holds(d, v) /\ Spreads(d, v)
  BY DEF Written, Spreads
<1> QED BY <1>1, SpreadsKeeps, HoldsKeeps DEF Written

-----------------------------------------------------------------------------
(* What was deleted, when nothing else is under way.                        *)

LEMMA InterfaceDeletesAs ==
    ASSUME Sound, NEW e \in Devices, InterfaceDeletes(e), ~raced'
    PROVE  /\ Resting(e, "interface")
           /\ worker[e]["interface"].at = "idle"
           /\ worker'[e]["interface"].at = IF stored = None THEN "idle" ELSE "gone"
           /\ asked[e] > 0 /\ \A d \in Devices : d # e => asked'[d] = asked[d]
           /\ UNCHANGED <<device, up, queue, down, stored, file_list>>
<1> DEFINE place == IF stored = None THEN "idle" ELSE "gone"
<1>1. place \in Places /\ Goes(e, "interface", place)
  BY DEF Places, InterfaceDeletes
<1> HIDE DEF place
<1>2. Moves(e, "interface", [at |-> place, data |-> worker[e]["interface"].data])
  BY <1>1, GoesAs, Workers DEF Sound
<1>3. worker[e]["interface"].at = "idle" /\ Others(e, "interface")
  BY DEF InterfaceDeletes, At, Busy, Others
<1>4. Resting(e, "interface") /\ worker'[e]["interface"].at = place
  BY <1>2, <1>3, MovesAlone, Workers
<1> QED BY <1>3, <1>4 DEF place, InterfaceDeletes, Sound, TypeOK

LEMMA InterfaceRemovesAs ==
    ASSUME Sound, NEW e \in Devices, InterfaceRemoves(e)
    PROVE  /\ Resting(e, "interface")
           /\ stored' = None
           /\ UNCHANGED <<device, up, queue, down, asked, file_list>>
<1>1. worker[e]["interface"].at = "remove" /\ Removes(e, "interface", "idle")
  BY DEF InterfaceRemoves, At
<1>2. Others(e, "interface")
  BY <1>1, OnlyOne, Workers DEF Taken, Others
<1>3. \A d \in Devices, u \in Threads : <<d, u>> # <<e, "interface">> =>
         worker'[d][u].at = IF worker[d][u].at = "writing" THEN "lost" ELSE worker[d][u].at
  BY <1>1, RemovesTo, Workers DEF Sound, Places
<1> QED BY <1>1, <1>2, <1>3 DEF Resting, Others, InterfaceRemoves, Removes, wires

(* Where there are only deletions.                                          *)
LEMMA BareOut ==
    ASSUME Sound, \A d \in Devices : Bare(d), NEW e \in Devices
    PROVE  /\ ~UserCloses(e) /\ ~ReceiverOpens(e) /\ ~ReceiverCloses(e)
           /\ ReceiveStep(e) => ReceiveDeletes(e)
           /\ WatcherSends(e) => local[e] = None
<1>1. Bare(e)
  OBVIOUS
<1>2. ~UserCloses(e) /\ ~ReceiverCloses(e)
  BY <1>1 DEF Bare, UserCloses, ReceiverCloses
<1>3. ~ReceiverOpens(e)
  <2>1. down[e] # <<>> => Head(down[e]) = Deletion
    BY <1>1, AllShorter DEF Bare
  <2> QED BY <2>1, Letters DEF ReceiverOpens
<1>4. ~ReceiveOpens(e)
  <2>1. up[e] # <<>> => Head(up[e]) = Deletion
    BY <1>1, AllShorter DEF Bare
  <2> QED BY <2>1, Letters DEF ReceiveOpens
<1>5. ReceiveStep(e) => ReceiveDeletes(e)
  BY <1>1, <1>4, Workers DEF ReceiveStep, ReceiveWrites, ReceiveTests, ReceivePushes, ReceiveRefreshes,
     ReceiveTells, At, Bare, Storing, Sound, ListSerial, InHand, Place
<1>6. WatcherSends(e) => local[e] = None
  <2>1. batch[e] # <<>> /\ batch[e] \in Seq({"delete"}) => Head(batch[e]) = "delete"
    BY AllShorter
  <2> QED BY <1>1, <2>1 DEF Bare, WatcherSends
<1> QED BY <1>2, <1>3, <1>4, <1>5, <1>6

LEMMA BareWatches ==
    ASSUME Sound, \A x \in Devices : Bare(x), NEW d \in Devices, WatcherStep(d)
    PROVE  Bare(d)'
<1>1. Bare(d)
  OBVIOUS
<1>2. UNCHANGED <<worker, local, user, receiver, queue, down>>
  BY WatcherFrame DEF Sound
<1>3. ASSUME local[d] = None \/ (events'[d] \in Seq({"delete"}) /\ batch'[d] \in Seq({"delete"})),
             up'[d] \in Seq({Deletion})
      PROVE  Bare(d)'
  BY <1>1, <1>2, <1>3 DEF Bare, Storing
<1>4. CASE WatcherReads(d)
  <2>1. events'[d] = <<>> /\ batch'[d] = events[d] /\ up' = up
    BY <1>4 DEF WatcherReads, Sound, TypeOK, wires
  <2> QED BY <1>1, <1>3, <2>1, NoneOf DEF Bare
<1>5. CASE WatcherSends(d)
  <2>1. local[d] = None /\ up' = up
    BY <1>5, BareOut DEF WatcherSends
  <2> QED BY <1>1, <1>3, <2>1 DEF Bare
<1>6. CASE WatcherDeletes(d)
  <2>1. /\ batch[d] # <<>> /\ batch'[d] = Tail(batch[d]) /\ events' = events
        /\ up'[d] = Append(up[d], Deletion)
    BY <1>6, BatchAs DEF WatcherDeletes, Sound, TypeOK, Deletion
  <2>2. batch[d] \in Seq({"delete"}) => batch'[d] \in Seq({"delete"})
    BY <2>1, AllShorter
  <2>3. up'[d] \in Seq({Deletion})
    BY <1>1, <2>1, AllLonger DEF Bare
  <2> QED BY <1>1, <1>3, <2>1, <2>2, <2>3 DEF Bare
<1> QED BY <1>4, <1>5, <1>6 DEF WatcherStep

LEMMA BareKeeps ==
    ASSUME Sound, \A x \in Devices : Bare(x), NEW e \in Devices, Works(e), NEW d \in Devices, ~raced', running'
    PROVE  Bare(d)'
<1> USE Workers
<1>1. Bare(d)
  OBVIOUS
<1>2. CASE d # e /\ (WatcherStep(e) \/ ReceiverStep(e) \/ SendsNext(e))
  BY <1>1, <1>2, WatcherFrame, ReceiverFrame, SendsFrame DEF Sound, Same, SameDirectory, Bare, Storing
<1>3. CASE d = e /\ ReceiverDeletes(d)
  <2>1. /\ down[d] # <<>> /\ down'[d] = Tail(down[d]) /\ user'[d] = Orphaned(user[d]) /\ user[d] \in Writing
        /\ UNCHANGED <<receiver, up, queue, worker>> /\ local'[d] = None
    BY <1>3 DEF ReceiverDeletes, Unlinks, Sound, TypeOK, server
  <2>2. user'[d].at = "idle" /\ down'[d] \in Seq({Deletion})
    BY <1>1, <2>1, OrphanedAs, AllShorter DEF Bare
  <2> QED BY <1>1, <2>1, <2>2 DEF Bare, Storing
<1>4. CASE d = e /\ SendsNext(d)
  <2>1. queue[d] # <<>> /\ queue'[d] = Tail(queue[d]) /\ UNCHANGED <<device, up, worker>>
    BY <1>4, SendsAs, SendsFrame DEF Sound
  <2>2. Head(queue[d]) = "delete" /\ queue'[d] \in Seq({"delete"})
    BY <1>1, <2>1, AllShorter DEF Bare
  <2>3. down'[d] = Append(down[d], Deletion)
    BY <1>4, <2>2 DEF SendsNext, Sound, TypeOK, Deletion
  <2>4. down'[d] \in Seq({Deletion})
    BY <1>1, <2>3, AllLonger DEF Bare
  <2> QED BY <1>1, <2>1, <2>2, <2>4 DEF Bare, Storing, device
<1>5. CASE ReceiveDeletes(e)
  <2>1. UNCHANGED <<device, down, queue>> /\ (d # e => up'[d] = up[d]) /\ Resting(e, "receive")
        /\ up[e] # <<>> /\ up'[e] = Tail(up[e]) /\ worker'[e]["receive"].at = "gone"
    BY <1>5, ManagerFrame, DeletesAs DEF Sound, ReceiveStep
  <2>2. up'[d] \in Seq({Deletion})
    BY <1>1, <2>1, AllShorter DEF Bare
  <2>3. ~Storing(d)'
    BY <2>1 DEF Resting, Storing
  <2> QED BY <1>1, <2>1, <2>2, <2>3 DEF Bare, device
<1>6. ASSUME NEW t \in Threads, DeleteStep(e, t) PROVE Bare(d)'
  <2>1. UNCHANGED <<device, down, up>> /\ Resting(e, t) /\ ~Storing(e)'
    BY <1>6, ManagerFrame, DeleteTestsAs, DeleteUnlistsAs, DeleteTellsAs
    DEF Sound, DeleteStep, AfterList, Storing, Resting, Threads
  <2>2. queue'[d] = queue[d] \/ queue'[d] = Append(queue[d], "delete")
    BY <1>6, DeleteTestsAs, DeleteUnlistsAs, DeleteTellsAs DEF DeleteStep
  <2>3. queue'[d] \in Seq({"delete"})
    BY <1>1, <2>2, AllLonger DEF Bare
  <2>4. ~Storing(d)'
    BY <2>1 DEF Resting, Storing
  <2> QED BY <1>1, <2>1, <2>3, <2>4 DEF Bare, device
<1>7. CASE InterfaceStep(e)
  <2>1. UNCHANGED <<device, up, queue, down>> /\ Resting(e, "interface")
    BY <1>7, InterfaceDeletesAs, InterfaceRemovesAs DEF InterfaceStep
  <2>2. ~Storing(d)'
    BY <2>1 DEF Resting, Storing
  <2> QED BY <1>1, <2>1, <2>2 DEF Bare, device
<1> QED BY <1>2, <1>3, <1>4, <1>5, <1>6, <1>7, BareOut, BareWatches DEF Works, ReceiverStep

LEMMA DeadKeeps ==
    ASSUME Sound, NEW d \in Devices, Dead(d), NEW e \in Devices, Works(e), ~raced', running'
    PROVE  Dead(d)'
<1> USE Workers
<1>1. \A x \in Devices : Bare(x)
  BY DEF Dead
<1>2. \A x \in Devices : Bare(x)'
  BY <1>1, BareKeeps
<1>3. CASE WatcherStep(e) \/ ReceiverDeletes(e) \/ SendsNext(e)
  <2>1. UNCHANGED <<worker, stored, asked>>
    BY <1>3, WatcherFrame, ReceiverFrame, SendsFrame DEF Sound, ReceiverStep
  <2>2. local[d] = None => local'[d] = None
    BY <1>3, WatcherFrame, SendsFrame DEF Sound, device, ReceiverDeletes, Unlinks, TypeOK
  <2> QED BY <1>2, <2>1, <2>2 DEF Dead
<1>4. CASE ReceiveDeletes(e)
  BY <1>2, <1>4, DeletesAs DEF Dead
<1>5. ASSUME NEW t \in Threads, DeleteStep(e, t) PROVE Dead(d)'
  <2>1. UNCHANGED <<device, asked, stored>> /\ Resting(e, t)
    BY <1>5, ManagerFrame, DeleteTestsAs, DeleteUnlistsAs, DeleteTellsAs DEF Sound, DeleteStep
  <2>2. worker[d]["interface"].at # "idle" => worker'[d]["interface"].at # "idle"
    <3>1. <<d, "interface">> # <<e, t>> => worker[d]["interface"].at = "idle"
      BY <2>1 DEF Resting
    <3>2. t = "interface" => worker'[e][t].at # "idle"
      BY <1>5, DeleteTestsAs, DeleteUnlistsAs, DeleteTellsAs DEF DeleteStep, AfterList
    <3> QED BY <3>1, <3>2
  <2> QED BY <1>2, <2>1, <2>2 DEF Dead, device
<1>6. CASE InterfaceDeletes(e)
  <2>1. /\ \A x \in Devices : x # e => asked'[x] = asked[x]
        /\ stored # None => worker'[e]["interface"].at # "idle"
        /\ worker[d]["interface"].at = "idle"
        /\ UNCHANGED <<device, stored>>
    BY <1>6, InterfaceDeletesAs DEF Resting
  <2> QED BY <1>2, <2>1 DEF Dead, device
<1>7. CASE InterfaceRemoves(e)
  BY <1>2, <1>7, InterfaceRemovesAs DEF Dead
<1> QED BY <1>1, <1>3, <1>4, <1>5, <1>6, <1>7, BareOut DEF Works, ReceiverStep, InterfaceStep

-----------------------------------------------------------------------------
(* What users begin.                                                        *)

(* Where only the watcher of d has something to report, no deletion, a      *)
(* write starts from what all have.                                         *)
LEMMA WrittenFirst ==
    ASSUME Sound, NEW d \in Devices, Unreported(d), NEW v \in Values, UserOpens(d, v),
           Free(events[d], "delete"), Free(batch[d], "delete")
    PROVE  Written(d, v)'
<1> USE Workers
<1>1. /\ UNCHANGED <<worker, stored, file_list, asked, up, queue, down, batch, receiver>>
      /\ \A z \in Devices : z # d => Same(z)
  BY UserFrame DEF Sound, UserOpens
<1>2. /\ user'[d].at = "writing" /\ user'[d].data = v /\ d \notin kept' /\ Truncates(d)
  BY DEF UserOpens, Truncates, Sound, TypeOK
<1>3. /\ \A z \in Devices, t \in Threads : worker'[z][t].at = "idle"
      /\ \A z \in Devices : up'[z] = <<>> /\ asked'[z] = 0 /\ queue'[z] = <<>> /\ down'[z] = <<>>
                            /\ receiver'[z].at = "idle"
  BY <1>1 DEF Unreported, DirectoryIdle, ServerIdle
<1>4. \A z \in Devices : z # d => user'[z].at = "idle" /\ events'[z] = <<>> /\ batch'[z] = <<>>
  BY <1>1 DEF Unreported, DirectoryIdle, Same, SameDirectory
<1>5. Holds(d, v)'
  BY <1>2 DEF Holds
<1>6. Unreached(d)' /\ NobodyAsks'
  BY <1>3 DEF Unreached, NobodyAsks
<1>7. \A z \in Devices : Free(events'[z], "delete") /\ Free(batch'[z], "delete")
  BY <1>1, <1>2, <1>4, FreeEmpty, WritesNoDeletion DEF Sound
<1>8. \A z \in Devices : ~Uploading(z)' /\ (z # d => ~Stirred(z)')
  BY <1>3, <1>4 DEF Uploading, Taken, Stirred
<1>9. \A z \in Devices : Undeleted(z)'
  BY <1>3, <1>7, FreeEmpty DEF Undeleted, Erasing
<1>10. \A z \in Devices : Offers(z, v)'
  BY <1>3, <1>9, NoneOf DEF Offers
<1>11. \A z \in Devices \ {d} : Copies(z, v)'
  BY <1>3, <1>4, <1>8, FreeEmpty, NoneOf DEF Copies, Engaged
<1> QED BY <1>5, <1>6, <1>10, <1>11 DEF Written, Spreads

LEMMA QuietUnreported ==
    ASSUME Quiet, NEW d \in Devices
    PROVE  Unreported(d) /\ Free(events[d], "delete") /\ Free(batch[d], "delete")
BY FreeEmpty DEF Quiet, Unreported, DirectoryIdle

LEMMA DeadFirst ==
    ASSUME Sound, NEW d \in Devices, Unreported(d), UserDeletes(d)
    PROVE  Dead(d)'
<1> USE Workers
<1>1. /\ UNCHANGED <<worker, up, queue, down, batch, user>> /\ user[d].at = "idle"
      /\ \A z \in Devices : z # d => Same(z)
  BY UserFrame DEF Sound, UserDeletes
<1>2. receiver'[d].at = "idle" /\ local'[d] = None
  <2>1. receiver'[d] = Orphaned(receiver[d]) /\ receiver[d] \in Writing
    BY DEF UserDeletes, Sound, TypeOK
  <2>2. receiver[d].at = "idle"
    BY DEF Unreported
  <2> QED BY <2>1, <2>2, OrphanedAs DEF UserDeletes, Unlinks, Sound, TypeOK
<1>3. /\ \A z \in Devices : worker'[z]["receive"].at = "idle"
      /\ \A z \in Devices : up'[z] = <<>> /\ queue'[z] = <<>> /\ down'[z] = <<>>
  BY <1>1 DEF Unreported, ServerIdle
<1>4. \A z \in Devices : z # d => user'[z].at = "idle" /\ receiver'[z].at = "idle"
                                  /\ events'[z] = <<>> /\ batch'[z] = <<>>
  BY <1>1 DEF Unreported, DirectoryIdle, Same, SameDirectory
<1>5. \A z \in Devices : Bare(z)'
  BY <1>1, <1>2, <1>3, <1>4, NoneOf DEF Bare, Storing
<1> QED BY <1>2, <1>5 DEF Dead

LEMMA AskedFirst ==
    ASSUME Sound, Quiet, NEW d \in Devices, UserAsks(d)
    PROVE  Dead(d)'
<1> USE Workers
<1>1. /\ \A z \in Devices : worker[z]["receive"].at = "idle" /\ asked[z] = 0
      /\ \A z \in Devices : up[z] = <<>> /\ queue[z] = <<>> /\ down[z] = <<>>
                            /\ receiver[z].at = "idle" /\ batch[z] = <<>>
                            /\ user[z].at = "idle" /\ events[z] = <<>>
  BY DEF Quiet, DirectoryIdle, ServerIdle
<1>2. UNCHANGED <<device, up, queue, down, worker>> /\ asked'[d] > 0
  BY <1>1 DEF UserAsks, server, Sound, TypeOK
<1>3. \A z \in Devices : Bare(z)'
  BY <1>1, <1>2, NoneOf DEF Bare, Storing, device
<1> QED BY <1>2, <1>3 DEF Dead

-----------------------------------------------------------------------------
LEMMA WorksFrame ==
    ASSUME NEW e \in Devices, Works(e)
    PROVE  UNCHANGED wanted
<1>1. CASE UserCloses(e) \/ WatcherStep(e) \/ ReceiverStep(e) \/ SendsNext(e) \/ InterfaceStep(e)
  BY <1>1 DEF UserCloses, WatcherStep, WatcherReads, WatcherSends, WatcherDeletes, ReceiverStep, ReceiverOpens,
     ReceiverCloses, ReceiverDeletes, SendsNext, InterfaceStep, InterfaceDeletes, InterfaceRemoves
<1>2. CASE ReceiveStep(e) \/ \E t \in Threads : DeleteStep(e, t)
  BY <1>2 DEF ReceiveStep, ReceiveOpens, ReceiveWrites, ReceiveTests, ReceivePushes, ReceiveRefreshes,
     ReceiveTells, ReceiveDeletes, DeleteStep, DeleteTests, DeleteUnlists, DeleteTells
<1> QED BY <1>1, <1>2 DEF Works

LEMMA LastUser ==
    ASSUME Sound, LastInv, NEW d \in Devices, UserStep(d), ~raced, ~raced'
    PROVE  LastInv'
<1>1. CASE \E v \in Values : UserOpens(d, v)
  <2> PICK v \in Values : UserOpens(d, v)
    BY <1>1
  <2>1. CASE ~InTurn(d)
    BY <2>1 DEF UserOpens, Wants, LastInv
  <2>2. CASE InTurn(d)
    <3>1. wanted'.by = d /\ wanted'.data = v /\ v # None /\ d # None
      BY <2>2, Things DEF UserOpens, Wants
    <3>2. Unreported(d) /\ Free(events[d], "delete") /\ Free(batch[d], "delete")
      <4>1. CASE Quiet
        BY <4>1, QuietUnreported
      <4>2. CASE ~Quiet
        <5>1. Unreported(d) /\ Written(d, wanted.data)
          BY <2>2, <3>1, <4>2 DEF InTurn, LastInv
        <5> QED BY <5>1 DEF Written, Spreads, Offers, Undeleted
      <4> QED BY <4>1, <4>2
    <3>3. Written(d, v)'
      BY <3>2, WrittenFirst
    <3> QED BY <3>1, <3>3 DEF LastInv
  <2> QED BY <2>1, <2>2
<1>2. CASE UserDeletes(d)
  <2>1. CASE ~InTurn(d)
    BY <1>2, <2>1 DEF UserDeletes, Wants, LastInv
  <2>2. CASE InTurn(d)
    <3>1. wanted'.by = d /\ wanted'.data = None
      BY <1>2, <2>2 DEF UserDeletes, Wants
    <3>2. Unreported(d)
      BY <2>2, QuietUnreported DEF InTurn
    <3> QED BY <1>2, <3>1, <3>2, DeadFirst DEF LastInv
  <2> QED BY <2>1, <2>2
<1>3. CASE UserAsks(d)
  BY <1>3, AskedFirst DEF UserAsks, Wants, LastInv
<1> QED BY <1>1, <1>2, <1>3 DEF UserStep

LEMMA LastWorks ==
    ASSUME Sound, LastInv, NEW e \in Devices, Works(e), ~raced, ~raced', running'
    PROVE  LastInv'
<1>1. wanted' = wanted
  BY WorksFrame
<1>2. CASE wanted.by = None
  BY <1>1, <1>2 DEF LastInv
<1>3. ASSUME NEW d \in Devices, wanted.by = d PROVE LastInv'
  <2>1. d # None
    BY Things
  <2>2. ASSUME NEW v, wanted.data = v, v # None PROVE LastInv'
    <3>1. Written(d, v)
      BY <1>3, <2>1, <2>2 DEF LastInv
    <3>2. Written(d, v)'
      BY <3>1, WrittenKeeps
    <3> QED BY <1>1, <1>3, <2>1, <2>2, <3>2 DEF LastInv
  <2>3. CASE wanted.data = None
    <3>1. Dead(d)
      BY <1>3, <2>1, <2>3 DEF LastInv
    <3>2. Dead(d)'
      BY <3>1, DeadKeeps
    <3> QED BY <1>1, <1>3, <2>1, <2>3, <3>2 DEF LastInv
  <2> QED BY <2>2, <2>3
<1>4. wanted.by \in Devices \cup {None}
  BY DEF Sound, TypeOK
<1> QED BY <1>2, <1>3, <1>4

LEMMA LastStill ==
    ASSUME LastInv, UNCHANGED vars
    PROVE  LastInv'
<1> USE DEF vars, device, wires, server
<1>1. \A d, v : Written(d, v)' <=> Written(d, v)
  BY DEF Written, Holds, Undeleted, Spreads, Unreached, NobodyAsks, Offers, Copies,
         Engaged, Stirred, Uploading, Taken, Erasing, Public
<1>2. \A d : Dead(d)' <=> Dead(d)
  BY DEF Dead, Bare, Storing
<1> QED BY <1>1, <1>2 DEF LastInv

LEMMA LastStep == SInv /\ LastInv /\ [Next]_vars => LastInv'
<1> SUFFICES ASSUME SInv, LastInv, [Next]_vars, ~raced' PROVE LastInv'
  BY DEF LastInv
<1>1. ~raced /\ running'
  BY RunningStep
<1>2. Sound
  BY <1>1 DEF SInv, Sound
<1>3. ASSUME NEW d \in Devices, UserStep(d) PROVE LastInv'
  BY <1>1, <1>2, <1>3, LastUser
<1>4. ASSUME NEW e \in Devices, Works(e) PROVE LastInv'
  BY <1>1, <1>2, <1>4, LastWorks
<1> QED BY <1>3, <1>4, LastStill DEF Next, Works

LEMMA LastInit == Init => LastInv
BY DEF Init, LastInv

-----------------------------------------------------------------------------
(* For any devices and contents, and any number of changes: what the last   *)
(* of several users in turn wrote is what remains of the file (client.c:    *)
(* 349-356, server.c:632-660), and what the last deleted is gone            *)
(* (server.c:391-412, 502-524).                                             *)
THEOREM LastChangeStays == Spec => []LastChangeWins
<1>1. SInv /\ LastInv => LastChangeWins
  <2> SUFFICES ASSUME SInv, LastInv, running, Quiet, ~raced, NEW d \in Devices, wanted.by = d
               PROVE  stored = wanted.data
    BY DEF LastChangeWins, SInv, TypeOK
  <2>1. d # None /\ wanted.data \in Files
    BY Things DEF SInv, TypeOK
  <2>2. local[d] = stored \/ (d \in kept /\ stored = None)
    BY Agreed DEF Agree, DevicesAgree
  <2>3. CASE wanted.data # None
    <3>1. Holds(d, wanted.data)
      BY <2>1, <2>3 DEF LastInv, Written
    <3> QED BY <2>2, <3>1 DEF Holds, Quiet, DirectoryIdle
  <2>4. CASE wanted.data = None
    <3>1. asked[d] = 0 /\ \A t \in Threads : worker[d][t].at = "idle"
      BY DEF Quiet, ServerIdle
    <3>2. Dead(d)
      BY <2>1, <2>4 DEF LastInv
    <3> QED BY <2>2, <2>4, <3>1, <3>2, Workers DEF Dead
  <2> QED BY <2>3, <2>4
<1>2. Spec => []LastInv
  BY SAlways, LastInit, LastStep, PTL DEF Spec
<1> QED BY <1>1, <1>2, SAlways, PTL
=============================================================================
