----------------------------- MODULE MCFileSync -------------------------------
(***************************************************************************)
(* Two devices, as many as a user may have, and two values.  Every property *)
(* holds of a behaviour from the moment it has raced, so that the runs need *)
(* not follow one any further.                                              *)
(***************************************************************************)
EXTENDS FileSync

CONSTANTS d1, d2, v1, v2

MCDevices == {d1, d2}
MCValues == {v1, v2}

NotRaced == ~raced
=============================================================================
