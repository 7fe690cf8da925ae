---------------------------- MODULE MCHeartbeat ----------------------------
(* One island, ages up to the grace and beyond, two restarts of the daemon. *)
EXTENDS Heartbeat
=============================================================================
