-------------------------- MODULE MCFileSyncBuffer --------------------------
(* The two producers a session really has (MAX_SESSIONS is 2), a ring of    *)
(* three slots, and two entries, enough to tell an order from another.      *)
EXTENDS FileSyncBuffer, TLC

CONSTANTS receive, interface, a, b

MCProducers == {receive, interface}
MCEntries == {a, b}
MCCapacity == 3

ProducerSymmetry == Permutations(MCProducers)
=============================================================================
