----------------------------- MODULE MCReplicas -------------------------------
EXTENDS Replicas

CONSTANTS b1, b2

MCBackups == {b1, b2}

(* Nothing is asked of the list once the mutex does not protect it.         *)
NotBreached == ~breached

(* The backups differ in nothing: the first one to be accepted is b1.       *)
Accepted(b) == backup[b].at # "out" /\ b \notin arriving
InOrder == Accepted(b2) => Accepted(b1)
=============================================================================
