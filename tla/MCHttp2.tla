------------------------------ MODULE MCHttp2 ------------------------------
(* Small windows and few frames for Http2; see Http2.cfg and Http2Overrun.cfg. *)
EXTENDS Http2
=============================================================================
