------------------------------ MODULE MCWorkDirs ------------------------------
(* Instances of WorkDirs for TLC.                                           *)
EXTENDS WorkDirs, TLC

CONSTANTS home, repo, p1, p2

MCDirs == {home, repo}
MCPages == {p1, p2}
MCOnePage == {p1}
=============================================================================
