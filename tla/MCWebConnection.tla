---------------------------- MODULE MCWebConnection ----------------------------
(* WebConnection on a small instance.                                       *)
EXTENDS WebConnection
=============================================================================
