------------------------------ MODULE MCClient --------------------------------
(***************************************************************************)
(* Two connections: the first, and one to the next manager.  It may be      *)
(* announced at any moment of the first, also while the user exits, and     *)
(* threads of the old connection may still be on their way out when the new *)
(* one starts.                                                              *)
(***************************************************************************)
EXTENDS Client
=============================================================================
