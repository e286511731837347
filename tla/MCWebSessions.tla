---------------------------- MODULE MCWebSessions ----------------------------
(* WebSessions with one old session in the work dir of the new one.         *)
EXTENDS WebSessions, TLC

CONSTANTS s1, s2, home

MCDirOf == (s1 :> home) @@ (s2 :> home)
=============================================================================
