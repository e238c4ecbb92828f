------------------------ MODULE FileSyncBufferProofs ------------------------
(***************************************************************************)
(* Proofs about FileSyncBuffer for every set of producers and every         *)
(* capacity: its safety invariants, and that it implements the safety part  *)
(* of FileChannel.                                                          *)
(***************************************************************************)
EXTENDS FileSyncBuffer, FiniteSetTheorems, TLAPS

(* Who may be where: the lock is held exactly inside the send thread's      *)
(* critical section, the decision to sleep is still right when the thread   *)
(* sleeps, an entry is taken only when there is one, and a call to          *)
(* add_file_to_sync_buffer carries an entry.                                *)
Places ==
    /\ locked <=> sender \in {"check", "block", "take"}
    /\ active <=> closer = "serving"
    /\ sender = "block" => count = 0 /\ (active \/ closer = "shutdown")
    /\ sender = "take" => count > 0 \/ ~active
    /\ closer = "closed" => sender = "exited"
    /\ sender = "exited" => ~active
    /\ \A p \in Producers : producer[p] # "idle" => pending[p] \in Entries

(* The inductive invariant.                                                 *)
IInv ==
    /\ TypeOK
    /\ Places
    /\ RingConsistent
    /\ SenderSleepsOnlyWhenIdle

-----------------------------------------------------------------------------
(* Positions in the ring.                                                   *)

LEMMA WrapValue ==
  \A x \in 0 .. 2 * Capacity - 1 :
     Wrapped(x) = IF x < Capacity THEN x ELSE x - Capacity
BY CapacityAssumption DEF Wrapped

LEMMA WrapInSlots ==
  \A x \in 0 .. 2 * Capacity - 1 : Wrapped(x) \in Slots
BY WrapValue, CapacityAssumption DEF Slots

(* The slot after the slot k places from s is the one k+1 places from s,    *)
(* and also the one k places from the slot after s.                         *)
LEMMA WrapStep ==
  ASSUME NEW s \in Slots, NEW k \in 0 .. Capacity - 1
  PROVE  /\ Wrapped(Wrapped(s + k) + 1) = Wrapped(s + (k + 1))
         /\ Wrapped(Wrapped(s + 1) + k) = Wrapped(s + (k + 1))
BY WrapValue, CapacityAssumption DEF Slots

(* Two different distances below the capacity lead to different slots.      *)
LEMMA WrapInjective ==
  ASSUME NEW s \in Slots, NEW k \in 0 .. Capacity - 1, NEW l \in 0 .. Capacity - 1,
         k # l
  PROVE  Wrapped(s + k) # Wrapped(s + l)
BY WrapValue, CapacityAssumption DEF Slots

LEMMA FollowingInSlots ==
  ASSUME NEW s \in Slots
  PROVE  Following(s) \in Slots
BY WrapInSlots, CapacityAssumption DEF Following, Slots

-----------------------------------------------------------------------------
LEMMA InitIInv == Init => IInv
<1> SUFFICES ASSUME Init PROVE IInv
  OBVIOUS
<1>1. TypeOK
  <2>1. 0 \in Slots /\ 0 \in 0 .. Capacity
    BY CapacityAssumption DEF Slots
  <2> QED
    BY <2>1
     DEF Init, TypeOK, SenderPlace, ProducerPlace, CloserPlace
<1>2. Wrapped(0) = 0
  BY WrapValue, CapacityAssumption
<1> QED
  BY <1>1, <1>2 DEF Init, IInv, Places, RingConsistent, SenderSleepsOnlyWhenIdle

(* An entry enters the ring.                                                *)
LEMMA AddKeepsRing ==
  ASSUME IInv, NEW p \in Producers, Add(p)
  PROVE  RingConsistent'
<1> USE DEF IInv, TypeOK
<1>1. /\ count \in 0 .. Capacity - 1
      /\ start \in Slots
      /\ end = Wrapped(start + count)
      /\ end \in Slots
      /\ count' = count + 1
      /\ start' = start
      /\ end' = Wrapped(end + 1)
  BY CapacityAssumption DEF Add, Full, Following, RingConsistent
<1>2. end' = Wrapped(start' + count')
  BY <1>1, WrapStep
<1>3. ASSUME NEW k \in 0 .. count' - 1
      PROVE  buffer'[Wrapped(start' + k)] \in Entries
  <2>1. k \in 0 .. Capacity - 1
    BY <1>1, CapacityAssumption
  <2>2. Wrapped(start + k) \in Slots
    BY <1>1, <2>1, WrapInSlots, CapacityAssumption DEF Slots
  <2>3. buffer' = [buffer EXCEPT ![end] = pending[p]] /\ pending[p] \in Entries
    BY DEF Add, InAdd, Places
  <2>4. CASE k = count
    BY <1>1, <2>3, <2>4
  <2>5. CASE k # count
    <3>1. Wrapped(start + k) # end
      BY <1>1, <2>1, <2>5, WrapInjective
    <3>2. buffer[Wrapped(start + k)] \in Entries
      BY <1>1, <2>1, <2>5 DEF RingConsistent
    <3> QED
      BY <1>1, <2>2, <2>3, <3>1, <3>2
  <2> QED
    BY <2>4, <2>5
<1> QED
  BY <1>2, <1>3 DEF RingConsistent

(* The oldest entry leaves it.                                              *)
LEMMA TakeKeepsRing ==
  ASSUME IInv, SenderTake
  PROVE  RingConsistent'
<1> USE DEF IInv, TypeOK
<1>1. /\ count \in 1 .. Capacity
      /\ start \in Slots
      /\ end = Wrapped(start + count)
      /\ count' = count - 1
      /\ start' = Wrapped(start + 1)
      /\ end' = end
      /\ buffer' = buffer
  BY CapacityAssumption DEF SenderTake, Places, Following, RingConsistent
<1>2. ASSUME NEW k \in 0 .. count - 1
      PROVE  Wrapped(start' + k) = Wrapped(start + (k + 1))
  <2>1. k \in 0 .. Capacity - 1
    BY <1>1, CapacityAssumption
  <2> QED
    BY <1>1, <2>1, WrapStep
<1>3. end' = Wrapped(start' + count')
  <2>1. count - 1 \in 0 .. count - 1 /\ (count - 1) + 1 = count
    BY <1>1
  <2> QED
    BY <1>1, <1>2, <2>1
<1>4. ASSUME NEW k \in 0 .. count' - 1
      PROVE  buffer'[Wrapped(start' + k)] \in Entries
  <2>1. k \in 0 .. count - 1 /\ k + 1 \in 0 .. count - 1
    BY <1>1
  <2> QED
    BY <1>1, <1>2, <2>1 DEF RingConsistent
<1> QED
  BY <1>3, <1>4 DEF RingConsistent

LEMMA NextIInv == IInv /\ [Next]_vars => IInv'
<1> SUFFICES ASSUME IInv, [Next]_vars PROVE IInv'
  OBVIOUS
<1> USE CapacityAssumption DEF IInv, TypeOK, SenderPlace, ProducerPlace, CloserPlace
<1>1. ASSUME NEW p \in Producers, CallAdd(p) PROVE IInv'
  BY <1>1 DEF CallAdd, Places, RingConsistent, SenderSleepsOnlyWhenIdle, ringVars
<1>2. ASSUME NEW p \in Producers, AddBlocks(p) PROVE IInv'
  BY <1>2 DEF AddBlocks, InAdd, Places, RingConsistent, SenderSleepsOnlyWhenIdle,
              ringVars
<1>3. ASSUME NEW p \in Producers, Add(p) PROVE IInv'
  <2>1. Following(end) \in Slots
    BY FollowingInSlots
  <2>2. TypeOK'
    BY <1>3, <2>1 DEF Add, InAdd, Full, SenderWoken, Places
  <2>3. Places'
    BY <1>3 DEF Add, InAdd, Full, SenderWoken, Places
  <2>4. RingConsistent'
    BY <1>3, AddKeepsRing
  <2>5. SenderSleepsOnlyWhenIdle'
    BY <1>3 DEF Add, SenderWoken, SenderSleepsOnlyWhenIdle
  <2> QED
    BY <2>2, <2>3, <2>4, <2>5
<1>4. ASSUME NEW p \in Producers, SpuriousProducerWake(p) PROVE IInv'
  BY <1>4 DEF SpuriousProducerWake, Places, RingConsistent,
              SenderSleepsOnlyWhenIdle, ringVars
<1>5. CASE SenderLoop
  BY <1>5 DEF SenderLoop, Places, RingConsistent, SenderSleepsOnlyWhenIdle, ringVars
<1>6. CASE SenderAcquire
  BY <1>6 DEF SenderAcquire, Places, RingConsistent, SenderSleepsOnlyWhenIdle,
              ringVars
<1>7. CASE SenderCheck
  BY <1>7 DEF SenderCheck, Places, RingConsistent, SenderSleepsOnlyWhenIdle, ringVars
<1>8. CASE SenderBlock
  BY <1>8 DEF SenderBlock, Places, RingConsistent, SenderSleepsOnlyWhenIdle, ringVars
<1>9. CASE SenderGivesUp
  BY <1>9 DEF SenderGivesUp, Places, RingConsistent, SenderSleepsOnlyWhenIdle,
              ringVars
<1>10. CASE SenderTake
  <2>1. Following(start) \in Slots
    BY FollowingInSlots
  <2>2. /\ producer' \in [Producers -> ProducerPlace]
        /\ \A q \in Producers : producer'[q] # "idle" => producer[q] # "idle"
    BY <1>10 DEF SenderTake, SignalNotFull, WakeOneProducer
  <2>3. TypeOK'
    <3>1. count - 1 \in 0 .. Capacity
      BY <1>10 DEF SenderTake, Places
    <3> QED
      BY <1>10, <2>1, <2>2, <3>1 DEF SenderTake
  <2>4. Places'
    BY <1>10, <2>2 DEF SenderTake, Places
  <2>5. RingConsistent'
    BY <1>10, TakeKeepsRing
  <2>6. SenderSleepsOnlyWhenIdle'
    BY <1>10 DEF SenderTake, SenderSleepsOnlyWhenIdle
  <2> QED
    BY <2>3, <2>4, <2>5, <2>6
<1>11. CASE SenderSend
  BY <1>11 DEF SenderSend, Places, RingConsistent, SenderSleepsOnlyWhenIdle, ringVars
<1>12. CASE SpuriousSenderWake
  BY <1>12 DEF SpuriousSenderWake, Places, RingConsistent, SenderSleepsOnlyWhenIdle,
               ringVars
<1>13. CASE ClearActive
  BY <1>13 DEF ClearActive, Places, RingConsistent, SenderSleepsOnlyWhenIdle, ringVars
<1>14. CASE SignalShutdown
  BY <1>14 DEF SignalShutdown, SenderWoken, Places, RingConsistent,
               SenderSleepsOnlyWhenIdle, ringVars
<1>15. CASE JoinSender
  BY <1>15 DEF JoinSender, Places, RingConsistent, SenderSleepsOnlyWhenIdle, ringVars
<1>16. CASE UNCHANGED vars
  BY <1>16 DEF vars, Places, RingConsistent, SenderSleepsOnlyWhenIdle, ringVars
<1> QED
  BY <1>1, <1>2, <1>3, <1>4, <1>5, <1>6, <1>7, <1>8, <1>9, <1>10, <1>11, <1>12,
     <1>13, <1>14, <1>15, <1>16 DEF Next, SenderStep, SessionOver

LEMMA SpecIInv == Spec => []IInv
<1> QED
  BY InitIInv, NextIInv, PTL DEF Spec

(* Every variable keeps its type.                                           *)
THEOREM TypeCorrect == Spec => []TypeOK
<1>1. IInv => TypeOK
  BY DEF IInv
<1> QED
  BY <1>1, SpecIInv, PTL

(* `start`, `end` and `count` agree, and get_next_file_to_sync only hands   *)
(* out slots that add_file_to_sync_buffer wrote.                            *)
THEOREM RingIsConsistent == Spec => []RingConsistent
<1>1. IInv => RingConsistent
  BY DEF IInv
<1> QED
  BY <1>1, SpecIInv, PTL

(* The send thread never sleeps through an entry or through the end of its  *)
(* session: its wake-up is delivered or still to come.                      *)
THEOREM NoLostNotEmpty == Spec => []SenderSleepsOnlyWhenIdle
<1>1. IInv => SenderSleepsOnlyWhenIdle
  BY DEF IInv
<1> QED
  BY <1>1, SpecIInv, PTL
-----------------------------------------------------------------------------
(* Signals of not_full.                                                     *)

LEMMA SomeProducers ==
  ASSUME NEW S \in SUBSET Producers
  PROVE  IsFiniteSet(S) /\ Cardinality(S) \in Nat
BY ProducersAssumption, FS_Subset, FS_CardinalityType

LEMMA InitNoLostNotFull == Init => NoLostNotFull
BY DEF Init, NoLostNotFull

(* A producer that starts to contend for the lock only helps.               *)
LEMMA OneMoreAdding ==
  ASSUME IInv, NoLostNotFull, NEW p \in Producers,
         producer' = [producer EXCEPT ![p] = "adding"],
         count' = count
  PROVE  NoLostNotFull'
<1>1. Adding' = Adding \cup {p}
  BY DEF Adding, IInv, TypeOK
<1>2. Adding \in SUBSET Producers
  BY DEF Adding
<1>3. /\ Cardinality(Adding) \in Nat
      /\ Cardinality(Adding \cup {p}) \in {Cardinality(Adding), Cardinality(Adding) + 1}
  BY <1>2, SomeProducers, FS_AddElement
<1>4. (\E q \in Producers : producer'[q] = "waiting") =>
         (\E q \in Producers : producer[q] = "waiting")
  BY DEF IInv, TypeOK
<1> QED
  BY <1>1, <1>3, <1>4, CapacityAssumption DEF NoLostNotFull, IInv, TypeOK

LEMMA NextNoLostNotFull == IInv /\ NoLostNotFull /\ [Next]_vars => NoLostNotFull'
<1> SUFFICES ASSUME IInv, NoLostNotFull, [Next]_vars PROVE NoLostNotFull'
  OBVIOUS
<1>a. /\ Adding \in SUBSET Producers
      /\ IsFiniteSet(Adding)
      /\ Cardinality(Adding) \in Nat
  BY SomeProducers DEF Adding
<1>b. /\ Adding' \in SUBSET Producers
      /\ Cardinality(Adding') \in Nat
  BY SomeProducers DEF Adding
<1>1. ASSUME NEW p \in Producers, CallAdd(p) PROVE NoLostNotFull'
  BY <1>1, OneMoreAdding DEF CallAdd, ringVars
<1>2. ASSUME NEW p \in Producers, AddBlocks(p) PROVE NoLostNotFull'
  BY <1>2, <1>b, CapacityAssumption DEF AddBlocks, Full, ringVars, NoLostNotFull
<1>3. ASSUME NEW p \in Producers, Add(p) PROVE NoLostNotFull'
  <2>1. Adding' = Adding \ {p} /\ p \in Adding
    BY <1>3 DEF Add, InAdd, Adding, IInv, TypeOK
  <2>2. Cardinality(Adding') = Cardinality(Adding) - 1
    BY <1>a, <2>1, FS_RemoveElement
  <2>3. (\E q \in Producers : producer'[q] = "waiting") =>
           (\E q \in Producers : producer[q] = "waiting")
    BY <1>3 DEF Add, IInv, TypeOK
  <2>4. count' = count + 1 /\ count \in 0 .. Capacity
    BY <1>3 DEF Add, IInv, TypeOK
  <2> QED
    BY <1>a, <2>2, <2>3, <2>4, CapacityAssumption DEF NoLostNotFull
<1>4. ASSUME NEW p \in Producers, SpuriousProducerWake(p) PROVE NoLostNotFull'
  BY <1>4, OneMoreAdding DEF SpuriousProducerWake, ringVars
<1>5. CASE SenderTake
  <2>1. count' = count - 1 /\ count \in 0 .. Capacity
    BY <1>5 DEF SenderTake, IInv, TypeOK
  <2>2. CASE \E p \in Producers : producer[p] = "waiting"
    <3>1. PICK p \in Producers :
             /\ producer[p] = "waiting"
             /\ producer' = [producer EXCEPT ![p] = "adding"]
      BY <1>5, <2>2 DEF SenderTake, SignalNotFull, WakeOneProducer
    <3>2. Adding' = Adding \cup {p} /\ p \notin Adding
      BY <3>1 DEF Adding, IInv, TypeOK
    <3>3. Cardinality(Adding') = Cardinality(Adding) + 1
      BY <1>a, <3>2, FS_AddElement
    <3> QED
      BY <1>a, <2>1, <2>2, <3>3, CapacityAssumption DEF NoLostNotFull
  <2>3. CASE ~ \E p \in Producers : producer[p] = "waiting"
    BY <1>5, <2>3 DEF SenderTake, SignalNotFull, WakeOneProducer, NoLostNotFull
  <2> QED
    BY <2>2, <2>3
<1>6. CASE SignalShutdown
  <2>1. \A p \in Producers : producer'[p] # "waiting"
    BY <1>6 DEF SignalShutdown
  <2> QED
    BY <2>1 DEF NoLostNotFull
<1>7. ASSUME UNCHANGED <<count, producer>> PROVE NoLostNotFull'
  BY <1>7 DEF NoLostNotFull, Adding
<1> QED
  BY <1>1, <1>2, <1>3, <1>4, <1>5, <1>6, <1>7
     DEF Next, SenderStep, SenderLoop, SenderAcquire, SenderCheck, SenderBlock,
         SenderGivesUp, SenderSend, SpuriousSenderWake, ClearActive, JoinSender,
         SessionOver, vars, ringVars

(* No signal of not_full is lost on a producer, for any number of them.     *)
THEOREM NotFullSignalsSuffice == Spec => []NoLostNotFull
<1> QED
  BY SpecIInv, InitNoLostNotFull, NextNoLostNotFull, PTL DEF Spec

-----------------------------------------------------------------------------
(* The refinement.                                                          *)

QueueOK == Queue \in Seq(Entries) /\ Len(Queue) = count

LEMMA QueueIsSeq == IInv => QueueOK
<1> SUFFICES ASSUME IInv PROVE QueueOK
  OBVIOUS
<1>1. count \in Nat
  BY CapacityAssumption DEF IInv, TypeOK
<1>2. ASSUME NEW k \in 1 .. count
      PROVE  buffer[Wrapped(start + (k - 1))] \in Entries
  <2>1. k - 1 \in 0 .. count - 1
    BY <1>1
  <2> QED
    BY <2>1 DEF IInv, RingConsistent
<1> QED
  BY <1>1, <1>2 DEF Queue, QueueOK

LEMMA InitRefines == Init => Channel!Init
BY DEF Init, Channel!Init, Queue

LEMMA AddRefines ==
  ASSUME IInv, IInv', NEW p \in Producers, Add(p)
  PROVE  Channel!Put(pending[p]) /\ pending[p] \in Entries
<1>1. /\ pending[p] \in Entries
      /\ count \in 0 .. Capacity - 1
      /\ start' = start /\ count' = count + 1
      /\ end \in Slots /\ end = Wrapped(start + count)
      /\ buffer \in [Slots -> Entries \cup {Empty}]
      /\ buffer' = [buffer EXCEPT ![end] = pending[p]]
      /\ start \in Slots
  BY CapacityAssumption DEF Add, InAdd, Full, IInv, TypeOK, Places, RingConsistent
<1>2. /\ Queue \in Seq(Entries) /\ Len(Queue) = count
      /\ Queue' \in Seq(Entries) /\ Len(Queue') = count + 1
  <2>1. QueueOK'
    BY QueueIsSeq, PTL
  <2> QED
    BY <1>1, <2>1, QueueIsSeq DEF QueueOK
<1>3. ASSUME NEW k \in 1 .. count + 1
      PROVE  Queue'[k] = Append(Queue, pending[p])[k]
  <2>1. /\ k - 1 \in 0 .. Capacity - 1
        /\ Wrapped(start + (k - 1)) \in Slots
    BY <1>1, WrapInSlots, CapacityAssumption DEF Slots
  <2>2. Queue'[k] = buffer'[Wrapped(start + (k - 1))]
    BY <1>1 DEF Queue
  <2>3. CASE k = count + 1
    BY <1>1, <1>2, <2>2, <2>3
  <2>4. CASE k # count + 1
    <3>1. k \in 1 .. count /\ k - 1 # count /\ count \in 0 .. Capacity - 1
      BY <1>1, <2>4, CapacityAssumption
    <3>2. Wrapped(start + (k - 1)) # end
      BY <1>1, <2>1, <3>1, WrapInjective
    <3>3. Queue'[k] = buffer[Wrapped(start + (k - 1))]
      BY <1>1, <2>1, <2>2, <3>2
    <3>4. Queue[k] = buffer[Wrapped(start + (k - 1))]
      BY <3>1 DEF Queue
    <3> QED
      BY <1>2, <3>1, <3>3, <3>4
  <2> QED
    BY <2>3, <2>4
<1>4. Queue' = Append(Queue, pending[p])
  BY <1>1, <1>2, <1>3
<1>5. /\ active' = active
      /\ (sender' = "exited") = (sender = "exited")
  BY DEF Add, SenderWoken
<1> QED
  BY <1>1, <1>2, <1>4, <1>5, CapacityAssumption DEF Channel!Put

LEMMA TakeRefines ==
  ASSUME IInv, IInv', SenderTake
  PROVE  Channel!Get
<1>1. /\ count \in 1 .. Capacity
      /\ start \in Slots /\ start' = Wrapped(start + 1)
      /\ count' = count - 1
      /\ buffer' = buffer
  BY CapacityAssumption DEF SenderTake, Following, IInv, TypeOK, Places
<1>2. /\ Queue \in Seq(Entries) /\ Len(Queue) = count
      /\ Queue' \in Seq(Entries) /\ Len(Queue') = count - 1
  <2>1. QueueOK'
    BY QueueIsSeq, PTL
  <2> QED
    BY <1>1, <2>1, QueueIsSeq DEF QueueOK
<1>3. ASSUME NEW k \in 1 .. count - 1
      PROVE  Queue'[k] = Tail(Queue)[k]
  <2>1. k - 1 \in 0 .. Capacity - 1 /\ k + 1 \in 1 .. count /\ (k + 1) - 1 = (k - 1) + 1
    BY <1>1, CapacityAssumption
  <2>2. Queue'[k] = buffer[Wrapped(Wrapped(start + 1) + (k - 1))]
    BY <1>1 DEF Queue
  <2>3. Queue[k + 1] = buffer[Wrapped(start + ((k - 1) + 1))]
    BY <2>1 DEF Queue
  <2>4. Queue'[k] = Queue[k + 1]
    BY <1>1, <2>1, <2>2, <2>3, WrapStep
  <2>5. Tail(Queue)[k] = Queue[k + 1]
    BY <1>1, <1>2
  <2> QED
    BY <2>4, <2>5
<1>4. Queue' = Tail(Queue) /\ Queue # <<>>
  BY <1>1, <1>2, <1>3
<1> QED
  BY <1>4 DEF Channel!Get, SenderTake

LEMMA NextRefines ==
  ASSUME IInv, IInv', [Next]_vars
  PROVE  [Channel!Next]_(Channel!vars)
<1> USE DEF Channel!Next, Channel!vars
<1>1. ASSUME NEW p \in Producers, Add(p) PROVE Channel!Next
  BY <1>1, AddRefines
<1>2. CASE SenderTake
  BY <1>2, TakeRefines
<1>3. CASE ClearActive
  BY <1>3 DEF ClearActive, Channel!Close, ringVars, Queue, IInv, Places
<1>4. CASE SenderLoop
  <2>1. CASE active
    BY <1>4, <2>1 DEF SenderLoop, ringVars, Queue
  <2>2. CASE ~active
    BY <1>4, <2>2 DEF SenderLoop, Channel!Stop, ringVars, Queue
  <2> QED
    BY <2>1, <2>2
<1>5. ASSUME UNCHANGED ringVars, active' = active,
             (sender' = "exited") = (sender = "exited")
      PROVE  UNCHANGED Channel!vars
  BY <1>5 DEF ringVars, Queue
<1>6. ASSUME NEW p \in Producers, CallAdd(p) \/ AddBlocks(p) \/ SpuriousProducerWake(p)
      PROVE  UNCHANGED Channel!vars
  BY <1>5, <1>6 DEF CallAdd, AddBlocks, SpuriousProducerWake
<1>7. CASE SenderAcquire \/ SenderCheck \/ SenderBlock \/ SenderGivesUp \/ SenderSend
  BY <1>5, <1>7 DEF SenderAcquire, SenderCheck, SenderBlock, SenderGivesUp, SenderSend,
                    ringVars
<1>8. CASE SpuriousSenderWake \/ SignalShutdown \/ JoinSender
  BY <1>5, <1>8 DEF SpuriousSenderWake, SignalShutdown, JoinSender, SenderWoken
<1>9. CASE UNCHANGED vars
  BY <1>5, <1>9 DEF vars
<1> QED
  BY <1>1, <1>2, <1>3, <1>4, <1>6, <1>7, <1>8, <1>9 DEF Next, SenderStep, SessionOver

(* Whatever the interleaving of producers, send thread and the end of the   *)
(* session, the buffer behaves as a bounded FIFO that hands nothing to the  *)
(* client once the session was told to end.                                 *)
THEOREM BufferImplementsChannel == Spec => Channel!Init /\ [][Channel!Next]_(Channel!vars)
<1> QED
  BY SpecIInv, InitRefines, NextRefines, PTL DEF Spec
=============================================================================
