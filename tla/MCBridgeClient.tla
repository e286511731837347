---------------------------- MODULE MCBridgeClient ----------------------------
(***************************************************************************)
(* BridgeClient on three sockets: the current one and two that were let go *)
(* and whose close events are still to come.                               *)
(***************************************************************************)
EXTENDS BridgeClient
=============================================================================
