------------------------------- MODULE MCDtx -------------------------------
(* Small instances of Dtx for TLC. *)
EXTENDS Dtx
=============================================================================
