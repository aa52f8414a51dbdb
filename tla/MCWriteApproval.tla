-------------------------- MODULE MCWriteApproval --------------------------
(* Small instances of WriteApproval for TLC.                               *)
EXTENDS WriteApproval

CONSTANTS s1, c1, c2

W(s, g, k) == [ski |-> s, generation |-> g, msgCounter |-> k]

(* Two writes of one connection.                                           *)
OneConnection == {W(s1, 1, 1), W(s1, 1, 2)}
=============================================================================
