--------------------------- MODULE MCRequestCache ---------------------------
(* Small instances of RequestCache for TLC.                                *)
EXTENDS RequestCache, TLC

CallerSymmetry == Permutations(Callers) \cup Permutations(Contents)
=============================================================================
