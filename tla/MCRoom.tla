------------------------------- MODULE MCRoom -------------------------------
(***************************************************************************)
(* Room on small sets of connections, with the timing constants of         *)
(* worker/src/heartbeat.ts.                                                *)
(***************************************************************************)
EXTENDS Room, TLC

(* Bridge connections are interchangeable.                                  *)
ConnSymmetry == Permutations(BridgeConns)
=============================================================================
