----------------------------- MODULE MCMuxLink -----------------------------
(* Small instances of MuxLink for TLC. *)
EXTENDS MuxLink
=============================================================================
