---------------------------- MODULE MCRoundTrip ----------------------------
(* Small instances of RoundTrip for TLC.                                   *)
EXTENDS RoundTripRefinement, TLC

CONSTANTS p1, p2

ReadAck == [classifier |-> "read", ack |-> TRUE, dest |-> p1]
Write   == [classifier |-> "write", ack |-> TRUE, dest |-> p2]
Call    == [classifier |-> "other", ack |-> FALSE, dest |-> p1]

OneRequest == {Write}
ThreeRequests == {ReadAck, Write, Call}

Msg(k, from, kind) == [ref |-> k, from |-> from, kind |-> kind]

(* Three kinds of answer to the first key, a result from the other peer    *)
(* and a reply under the second key.                                       *)
Answers == {Msg(1, p1, "reply"), Msg(1, p1, "ok"), Msg(1, p1, "illformed"),
            Msg(1, p2, "ok"), Msg(2, p1, "reply")}

(* A remote error for the first key; or garbage too.                       *)
OneAnswer == {Msg(1, p2, "error")}
BadAnswers == {Msg(1, p2, "error"), Msg(1, p2, "undecodable")}

Symmetric == Permutations(Ops)
=============================================================================
