------------------------ MODULE RoundTripRefinement ------------------------
(* RoundTrip implements RoundTripService: a call is open while it is       *)
(* pending, and is settled by the step that removes it from the table,     *)
(* long before its outcome has travelled through the channel.              *)
EXTENDS RoundTrip

Status(o) == CASE pc[o] = "done" -> "returned"
               [] pc[o] # "done" /\ Pending(o) -> "open"
               [] pc[o] # "done" /\ ~Pending(o) /\ Registered(o) -> "settled"
               [] OTHER -> "idle"

(* Where the outcome of a settled call is.                                 *)
OutcomeOf(o) ==
    CASE Status(o) = "returned" -> ret[o]
      [] Status(o) = "settled" /\ pc[o] = "selfSend" -> ret[o]
      [] Status(o) = "settled" /\ pc[o] # "selfSend" /\ result[o] # NoOutcome -> result[o]
      [] Status(o) = "settled" /\ Telling(o) # {} -> Failure("closed")
      [] Status(o) = "settled" /\ Delivering(o) # {} ->
            reader[CHOOSE r \in Readers : r \in Delivering(o)].outcome
      [] OTHER -> NoOutcome

Service == INSTANCE RoundTripService WITH
    status        <- [o \in Ops |-> Status(o)],
    outcome       <- [o \in Ops |-> OutcomeOf(o)],
    closed        <- roundTripsClosed,
    Rejections    <- {Failure(t) : t \in {"ctx", "invalid", "closed", "capacity",
                                          "exhausted", "inFlight", "retired"}},
    ClosedOutcome <- Failure("closed")

(* Every behaviour of the sender is one of the service: each call is       *)
(* settled at one instant, by one actor, and returns exactly that outcome; *)
(* Close settles all pending calls at one instant although it tells them   *)
(* one by one, while cancellations and answers race with it.               *)
ImplementsService == Service!Spec
=============================================================================
