----------------------------- MODULE MCFileState -----------------------------
(* Two server processes on one state file: two goroutines of the first and one *)
(* of the second, as when a new server is started before the old one stops.    *)
EXTENDS FileState, TLC

CONSTANTS c1, c2, c3, s1, s2

TwoServers == c1 :> s1 @@ c2 :> s1 @@ c3 :> s2
=============================================================================
