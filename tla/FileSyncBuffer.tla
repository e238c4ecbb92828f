--------------------------- MODULE FileSyncBuffer ---------------------------
(***************************************************************************)
(* The per-session buffer of file entries (util/fileSync.c) with the        *)
(* threads that meet in it:                                                 *)
(*   - the session's own send thread (send_f, server.c), the one consumer;  *)
(*   - the receive and interface threads of the user's other session, the   *)
(*     producers (send_file_to_session, connectionManagement.c);            *)
(*   - the session's own interface thread, which ends the session: it       *)
(*     clears `active` without the lock, broadcasts under the lock and      *)
(*     joins the send thread.                                               *)
(* A thread asleep in pthread_cond_wait is "waiting"; a signal, a broadcast *)
(* or a spurious wake-up sends it back to contend for the lock.             *)
(***************************************************************************)
EXTENDS Naturals, FiniteSets, Sequences

CONSTANTS
    Producers,   \* threads of the user's other session
    Entries,     \* the file entries they may add
    Empty,       \* a slot no entry was written to yet, an argument not given
    Capacity     \* FILE_SYNC_BUFFER_SIZE

ASSUME ProducersAssumption == IsFiniteSet(Producers)
ASSUME EmptyAssumption == Empty \notin Entries
ASSUME CapacityAssumption == Capacity \in Nat \ {0}

VARIABLES
    buffer,      \* FileSyncBuffer.buffer
    start, end, count,
    locked,      \* the send thread holds FileSyncBuffer.lock between steps
    active,      \* Session.active
    sender,      \* where the send thread is
    producer,    \* where each producer is
    pending,     \* the entry each producer is adding
    closer       \* where the session's interface thread is in PACKET_EXIT

ringVars == <<buffer, start, end, count>>
vars == <<ringVars, locked, active, sender, producer, pending, closer>>

Slots == 0 .. Capacity - 1

SenderPlace == {"loop", "acquire", "check", "block", "take", "waiting",
                "sending", "exited"}
ProducerPlace == {"idle", "adding", "waiting"}
CloserPlace == {"serving", "shutdown", "joining", "closed"}

TypeOK ==
    /\ buffer \in [Slots -> Entries \cup {Empty}]
    /\ start \in Slots
    /\ end \in Slots
    /\ count \in 0 .. Capacity
    /\ locked \in BOOLEAN
    /\ active \in BOOLEAN
    /\ sender \in SenderPlace
    /\ producer \in [Producers -> ProducerPlace]
    /\ pending \in [Producers -> Entries \cup {Empty}]
    /\ closer \in CloserPlace

Init ==
    /\ buffer = [s \in Slots |-> Empty]
    /\ start = 0
    /\ end = 0
    /\ count = 0
    /\ locked = FALSE
    /\ active = TRUE
    /\ sender = "loop"
    /\ producer = [p \in Producers |-> "idle"]
    /\ pending = [p \in Producers |-> Empty]
    /\ closer = "serving"

(* Positions in the ring wrap around at its capacity.                       *)
Wrapped(x) == x % Capacity

Following(slot) == Wrapped(slot + 1)

FullOffByOne == count = Capacity + 1             \* a mutant of Full

Full == count = Capacity

SenderNotWoken == sender                         \* a mutant of SenderWoken

(* The send thread as pthread_cond_signal(not_empty) leaves it.             *)
SenderWoken == IF sender = "waiting" THEN "acquire" ELSE sender

-----------------------------------------------------------------------------
(* Producers.                                                               *)

(* The producer found the session in its user's table and calls             *)
(* add_file_to_sync_buffer.                                                 *)
CallAdd(p) ==
    /\ producer[p] = "idle"
    /\ closer # "closed"
    /\ \E e \in Entries : pending' = [pending EXCEPT ![p] = e]
    /\ producer' = [producer EXCEPT ![p] = "adding"]
    /\ UNCHANGED <<ringVars, locked, active, sender, closer>>

(* The producer has the lock of a session that still exists.                *)
InAdd(p) ==
    /\ producer[p] = "adding"
    /\ closer # "closed"
    /\ ~locked

(* A full buffer: the producer sleeps on not_full.                          *)
AddBlocks(p) ==
    /\ InAdd(p)
    /\ Full
    /\ producer' = [producer EXCEPT ![p] = "waiting"]
    /\ UNCHANGED <<ringVars, locked, active, sender, pending, closer>>

(* Room in the buffer: the entry is written at `end` and not_empty is       *)
(* signalled.                                                               *)
Add(p) ==
    /\ InAdd(p)
    /\ ~Full
    /\ buffer' = [buffer EXCEPT ![end] = pending[p]]
    /\ end' = Following(end)
    /\ count' = count + 1
    /\ sender' = SenderWoken
    /\ producer' = [producer EXCEPT ![p] = "idle"]
    /\ pending' = [pending EXCEPT ![p] = Empty]
    /\ UNCHANGED <<start, locked, active, closer>>

SpuriousProducerWake(p) ==
    /\ producer[p] = "waiting"
    /\ closer # "closed"
    /\ producer' = [producer EXCEPT ![p] = "adding"]
    /\ UNCHANGED <<ringVars, locked, active, sender, pending, closer>>

-----------------------------------------------------------------------------
(* The send thread.                                                         *)

SenderLoop ==
    /\ sender = "loop"
    /\ sender' = IF active THEN "acquire" ELSE "exited"
    /\ UNCHANGED <<ringVars, locked, active, producer, pending, closer>>

SenderAcquire ==
    /\ sender = "acquire"
    /\ ~locked
    /\ locked' = TRUE
    /\ sender' = "check"
    /\ UNCHANGED <<ringVars, active, producer, pending, closer>>

(* A mutant of SenderCheck: it looks only at the number of entries.         *)
SenderCheckCountOnly ==
    /\ sender = "check"
    /\ sender' = IF count = 0 THEN "block" ELSE "take"
    /\ UNCHANGED <<ringVars, locked, active, producer, pending, closer>>

(* `while (buffer->count == 0 && session->active)`: `active` is read here   *)
(* without any protection against the thread that clears it.                *)
SenderCheck ==
    /\ sender = "check"
    /\ sender' = IF count = 0 /\ active THEN "block" ELSE "take"
    /\ UNCHANGED <<ringVars, locked, active, producer, pending, closer>>

SenderBlock ==
    /\ sender = "block"
    /\ locked' = FALSE
    /\ sender' = "waiting"
    /\ UNCHANGED <<ringVars, active, producer, pending, closer>>

SpuriousSenderWake ==
    /\ sender = "waiting"
    /\ sender' = "acquire"
    /\ UNCHANGED <<ringVars, locked, active, producer, pending, closer>>

(* `if (!session->active)` under the lock: the thread leaves empty-handed.  *)
SenderGivesUp ==
    /\ sender = "take"
    /\ ~active
    /\ locked' = FALSE
    /\ sender' = "loop"
    /\ UNCHANGED <<ringVars, active, producer, pending, closer>>

(* One producer asleep on not_full, if there is one, is on its way again.   *)
WakeOneProducer ==
    IF \E p \in Producers : producer[p] = "waiting"
    THEN \E p \in Producers :
            /\ producer[p] = "waiting"
            /\ producer' = [producer EXCEPT ![p] = "adding"]
    ELSE UNCHANGED producer

(* A mutant of SignalNotFull: only the step that makes a full buffer not    *)
(* full signals.                                                            *)
SignalNotFullIfFull == IF Full THEN WakeOneProducer ELSE UNCHANGED producer

SignalNotFull == WakeOneProducer

(* The oldest entry leaves the buffer and not_full is signalled.            *)
SenderTake ==
    /\ sender = "take"
    /\ active
    /\ start' = Following(start)
    /\ count' = count - 1
    /\ SignalNotFull
    /\ locked' = FALSE
    /\ sender' = "sending"
    /\ UNCHANGED <<buffer, end, active, pending, closer>>

(* The file, or the order to delete it, goes to the client.                 *)
SenderSend ==
    /\ sender = "sending"
    /\ sender' = "loop"
    /\ UNCHANGED <<ringVars, locked, active, producer, pending, closer>>

-----------------------------------------------------------------------------
(* The interface thread of the session, in PACKET_EXIT.                     *)

ClearActive ==
    /\ closer = "serving"
    /\ active' = FALSE
    /\ closer' = "shutdown"
    /\ UNCHANGED <<ringVars, locked, sender, producer, pending>>

(* A mutant of SignalShutdown: it broadcasts without taking the lock.       *)
SignalShutdownUnlocked ==
    /\ closer = "shutdown"
    /\ sender' = SenderWoken
    /\ producer' = [p \in Producers |->
                      IF producer[p] = "waiting" THEN "adding" ELSE producer[p]]
    /\ closer' = "joining"
    /\ UNCHANGED <<ringVars, locked, active, pending>>

(* Both conditions are broadcast under the lock.                            *)
SignalShutdown ==
    /\ closer = "shutdown"
    /\ ~locked
    /\ sender' = SenderWoken
    /\ producer' = [p \in Producers |->
                      IF producer[p] = "waiting" THEN "adding" ELSE producer[p]]
    /\ closer' = "joining"
    /\ UNCHANGED <<ringVars, locked, active, pending>>

(* The join of the send thread returns; the session leaves its user's table *)
(* and is freed.  What a producer that still holds a pointer to it would do *)
(* from here on is undefined in the code and is not followed.               *)
JoinSender ==
    /\ closer = "joining"
    /\ sender = "exited"
    /\ closer' = "closed"
    /\ UNCHANGED <<ringVars, locked, active, sender, producer, pending>>

SessionOver ==
    /\ closer = "closed"
    /\ UNCHANGED vars

-----------------------------------------------------------------------------
SenderStep ==
    \/ SenderLoop
    \/ SenderAcquire
    \/ SenderCheck
    \/ SenderBlock
    \/ SenderGivesUp
    \/ SenderTake
    \/ SenderSend

Next ==
    \/ \E p \in Producers :
          \/ CallAdd(p)
          \/ AddBlocks(p)
          \/ Add(p)
          \/ SpuriousProducerWake(p)
    \/ SenderStep
    \/ SpuriousSenderWake
    \/ ClearActive
    \/ SignalShutdown
    \/ JoinSender
    \/ SessionOver

Spec == Init /\ [][Next]_vars

(***************************************************************************)
(* A runnable thread runs (weak fairness), and one that keeps contending    *)
(* for the mutex gets it in the end (strong fairness: the mutex is held for *)
(* a few instructions at a time).  Fairness of SenderSend says the client   *)
(* keeps reading.  No client is obliged to leave and no producer to call.   *)
(***************************************************************************)
Fairness ==
    /\ WF_vars(SenderStep)
    /\ SF_vars(SenderAcquire)
    /\ \A p \in Producers : SF_vars(Add(p) \/ AddBlocks(p))
    /\ SF_vars(SignalShutdown)
    /\ WF_vars(JoinSender)

FairSpec == Spec /\ Fairness

-----------------------------------------------------------------------------
(* The three indices of the ring never disagree: `end` is `count` slots     *)
(* after `start`, and every slot between them holds an entry, so that       *)
(* get_next_file_to_sync cannot hand out a slot nobody wrote.               *)
RingConsistent ==
    /\ end = Wrapped(start + count)
    /\ \A k \in 0 .. count - 1 : buffer[Wrapped(start + k)] \in Entries

(* The send thread is asleep on not_empty only while there is nothing to do:*)
(* the buffer is empty and the session goes on, or the thread that ended it *)
(* has yet to broadcast (fileSync.c:41-43 against server.c:527-529).        *)
SenderSleepsOnlyWhenIdle ==
    sender = "waiting" => /\ count = 0
                          /\ active \/ closer = "shutdown"

Adding == {p \in Producers : producer[p] = "adding"}

(* While a producer sleeps on not_full, every free slot of the buffer is    *)
(* already matched by a producer on its way to it: no signal of not_full is *)
(* lost, although a third thread may take the slot it was sent for.         *)
NoLostNotFull ==
    (\E p \in Producers : producer[p] = "waiting") =>
        Capacity - count <= Cardinality(Adding)

(* Ending a session ends its send thread, from wherever it was, so that the *)
(* pthread_join of server.c:541 returns.                                    *)
SenderStops == ~active ~> closer = "closed"

(* A buffer that is full does not stay full as long as the session lasts.   *)
FullDrains == (count = Capacity /\ active) ~> (count < Capacity \/ ~active)

(* The buffer implements a bounded FIFO channel, liveness included.         *)
Queue == [k \in 1 .. count |-> buffer[Wrapped(start + (k - 1))]]

Channel == INSTANCE FileChannel WITH
              Bound <- Capacity,
              queue <- Queue,
              open <- active,
              stopped <- (sender = "exited")

ImplementsChannel == Channel!Spec
=============================================================================
