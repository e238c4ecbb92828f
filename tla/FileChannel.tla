----------------------------- MODULE FileChannel -----------------------------
(***************************************************************************)
(* What the sync buffer of a session promises to the rest of the server: a  *)
(* bounded FIFO of file entries between the threads that change a user's    *)
(* files and the one send thread of another session of that user, which is  *)
(* cut off once the session is told to end.  Nothing here knows about rings,*)
(* mutexes or condition variables; FileSyncBuffer implements it.            *)
(***************************************************************************)
EXTENDS Naturals, Sequences

CONSTANTS
    Entries,    \* file entries: a file name with "send it" or "delete it"
    Bound       \* the most entries the channel holds

VARIABLES
    queue,      \* entries accepted and not yet handed to the reader
    open,       \* the session has not been told to end
    stopped     \* the reader has noticed and is gone

vars == <<queue, open, stopped>>

Init ==
    /\ queue = <<>>
    /\ open = TRUE
    /\ stopped = FALSE

(* A writer's entry is accepted, also after the end was announced. *)
Put(e) ==
    /\ Len(queue) < Bound
    /\ queue' = Append(queue, e)
    /\ UNCHANGED <<open, stopped>>

(* The reader is handed the oldest entry, and only of an open channel. *)
Get ==
    /\ open
    /\ queue # <<>>
    /\ queue' = Tail(queue)
    /\ UNCHANGED <<open, stopped>>

Close ==
    /\ open
    /\ open' = FALSE
    /\ UNCHANGED <<queue, stopped>>

Stop ==
    /\ ~open
    /\ ~stopped
    /\ stopped' = TRUE
    /\ UNCHANGED <<queue, open>>

Next ==
    \/ \E e \in Entries : Put(e)
    \/ Get
    \/ Close
    \/ Stop

(* The reader keeps up with an open channel and leaves a closed one. *)
Spec == Init /\ [][Next]_vars /\ WF_vars(Get) /\ WF_vars(Stop)
=============================================================================
