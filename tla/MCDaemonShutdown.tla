-------------------------- MODULE MCDaemonShutdown --------------------------
(* Three HTTP calls on a channel of capacity one: a call being handled, a  *)
(* queued one and a blocked sender at once.                                *)
EXTENDS DaemonShutdown
=============================================================================
