------------------------------- MODULE MCApps ------------------------------
(* Apps, with its AFC client, on a small instance; see Apps.cfg.            *)
EXTENDS Apps
=============================================================================
