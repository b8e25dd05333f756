------------------------------ MODULE MCCodecs ------------------------------
(* The wire formats with small bytes and short texts; see Codecs.cfg.       *)
EXTENDS Codecs
=============================================================================
