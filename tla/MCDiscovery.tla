---------------------------- MODULE MCDiscovery -----------------------------
(* Two entities and two goroutines that add and remove them.               *)
EXTENDS Discovery, TLC

Symmetric == Permutations(Callers) \cup Permutations(Entities)
=============================================================================
