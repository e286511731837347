----------------------------- MODULE MCPiProcess -----------------------------
(* A small instance of PiProcess for TLC.                                   *)
EXTENDS PiProcess

CONSTANT p1

(* One process raises all the dialogs, so that it may leave one behind.     *)
MCAsker == [r \in Requests |-> p1]
=============================================================================
