-------------------------- MODULE RoundTripService --------------------------
(***************************************************************************)
(* What one connection generation promises its callers                     *)
(* (api.CorrelatedRoundTripper): a call is rejected or opened, an open     *)
(* call is settled once, at most Capacity calls are open, and closing      *)
(* settles every open call at once and opens none again.  A call returns   *)
(* the outcome it was settled with.                                        *)
(***************************************************************************)
EXTENDS Naturals, FiniteSets

CONSTANTS Ops, Outcomes, Rejections, NoOutcome, ClosedOutcome, Capacity

VARIABLES status,   \* "idle", "open", "settled" or "returned"
          outcome,  \* the outcome of a call that has one
          closed

svars == <<status, outcome, closed>>

Open == {o \in Ops : status[o] = "open"}

Init == /\ status = [o \in Ops |-> "idle"]
        /\ outcome = [o \in Ops |-> NoOutcome]
        /\ closed = FALSE

Reject(o) == /\ status[o] = "idle"
             /\ status' = [status EXCEPT ![o] = "returned"]
             /\ \E x \in Rejections : outcome' = [outcome EXCEPT ![o] = x]
             /\ UNCHANGED closed

Admit(o) == /\ status[o] = "idle"
            /\ ~closed
            /\ Cardinality(Open) < Capacity
            /\ status' = [status EXCEPT ![o] = "open"]
            /\ UNCHANGED <<outcome, closed>>

Settle(o) == /\ status[o] = "open"
             /\ status' = [status EXCEPT ![o] = "settled"]
             /\ \E x \in Outcomes : outcome' = [outcome EXCEPT ![o] = x]
             /\ UNCHANGED closed

Return(o) == /\ status[o] = "settled"
             /\ status' = [status EXCEPT ![o] = "returned"]
             /\ UNCHANGED <<outcome, closed>>

Shutdown == /\ ~closed
            /\ closed' = TRUE
            /\ status' = [o \in Ops |-> IF o \in Open THEN "settled" ELSE status[o]]
            /\ outcome' = [o \in Ops |-> IF o \in Open THEN ClosedOutcome
                                                       ELSE outcome[o]]

Next == \/ \E o \in Ops : Reject(o) \/ Admit(o) \/ Settle(o) \/ Return(o)
        \/ Shutdown

Spec == Init /\ [][Next]_svars
=============================================================================
