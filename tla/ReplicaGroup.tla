----------------------------- MODULE ReplicaGroup -----------------------------
(***************************************************************************)
(* What the manager's list of replicas promises to the threads that notify: *)
(* a group that each replica enters and leaves at most once, and            *)
(* notifications that come by every member exactly once.  A notification    *)
(* has the group for itself; it takes out whoever has closed the connection *)
(* and nobody else.  Nothing here knows of nodes, links, what precedes what *)
(* or a mutex; Replicas implements it for as long as the group is guarded.  *)
(***************************************************************************)
CONSTANTS
    Replicas,   \* servers that may enter
    Threads,    \* those that notify
    Nobody

VARIABLES
    members,    \* the group
    former,     \* replicas that were taken out
    gone,       \* replicas that have closed the connection
    notifier,   \* the thread whose notification is under way
    pending,    \* members that this notification has yet to come by
    guarded     \* the promise has not been given up

group == <<members, former>>
notification == <<notifier, pending>>
vars == <<group, gone, notification, guarded>>

Init ==
    /\ members = {}
    /\ former = {}
    /\ gone = {}
    /\ notifier = Nobody
    /\ pending = {}
    /\ guarded = TRUE

(* Once, and not while somebody is notified. *)
Enter(b) ==
    /\ notifier = Nobody
    /\ b \notin members \cup former
    /\ members' = members \cup {b}
    /\ UNCHANGED <<former, gone, notification>>

Close(b) ==
    /\ b \notin gone
    /\ gone' = gone \cup {b}
    /\ UNCHANGED <<group, notification>>

Begin(t) ==
    /\ notifier = Nobody
    /\ notifier' = t
    /\ pending' = members
    /\ UNCHANGED <<group, gone>>

(* The notification is done with a member, which stays. *)
Tell(b) ==
    /\ b \in pending
    /\ pending' = pending \ {b}
    /\ UNCHANGED <<group, gone, notifier>>

Remove(b) ==
    /\ b \in pending \cap gone
    /\ pending' = pending \ {b}
    /\ members' = members \ {b}
    /\ former' = former \cup {b}
    /\ UNCHANGED <<gone, notifier>>

(* Nobody was left out. *)
End ==
    /\ notifier # Nobody
    /\ pending = {}
    /\ notifier' = Nobody
    /\ UNCHANGED <<group, gone, pending>>

Promised ==
    \/ \E b \in Replicas : Enter(b) \/ Close(b) \/ Tell(b) \/ Remove(b)
    \/ \E t \in Threads : Begin(t)
    \/ End

(* Nothing is promised of a group that is no longer guarded. *)
Next ==
    \/ guarded /\ Promised /\ UNCHANGED guarded
    \/ ~guarded'

Spec == Init /\ [][Next]_vars
=============================================================================
