----------------------------- MODULE MCSessions -----------------------------
(***************************************************************************)
(* Two devices of a user.  With two slots both are served; with one the     *)
(* second is turned away, or takes the slot when the first has left.        *)
(***************************************************************************)
EXTENDS Sessions, TLC

CONSTANTS a, b

MCClients == {a, b}
ClientSymmetry == Permutations(MCClients)
=============================================================================
