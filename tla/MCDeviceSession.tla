-------------------------- MODULE MCDeviceSession --------------------------
(* DeviceSession on a small instance; see DeviceSession.cfg.                *)
EXTENDS DeviceSession
=============================================================================
