------------------------------ MODULE MCLinks ------------------------------
(* Small instances of Links for TLC.                                       *)
EXTENDS Links, TLC

LinkSymmetry == Permutations(Devices) \cup Permutations(Entities)
                   \cup Permutations(Servers)
=============================================================================
