------------------------------ MODULE MCFailover ------------------------------
(***************************************************************************)
(* Three servers: the least with which a lower id answers to a higher one    *)
(* after the manager is gone.                                               *)
(***************************************************************************)
EXTENDS Failover

MCServers == {1, 2, 3}
=============================================================================
