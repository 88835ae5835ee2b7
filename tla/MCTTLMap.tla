------------------------------ MODULE MCTTLMap ------------------------------
(***************************************************************************)
(* Server, and the TTLMap in it, for TLC.  One duration is shorter than     *)
(* Idle, one longer.                                                       *)
(***************************************************************************)
EXTENDS Server

MCTTLs == {1, 4}
=============================================================================
