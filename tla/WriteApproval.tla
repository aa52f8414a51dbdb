--------------------------- MODULE WriteApproval ---------------------------
(***************************************************************************)
(* Write approval of one local server feature (spine/feature_local.go): an *)
(* incoming write waits for the votes of the application's callbacks while *)
(* a timer runs.  Actors: the SHIP readers that deliver writes, one        *)
(* goroutine per write and callback, one per fired timer, and the removal  *)
(* of the remote device.                                                   *)
(*                                                                         *)
(* Both tables are maps of maps, by SKI and then by the message counter of *)
(* the peer: different connections of one SKI share their entries.         *)
(***************************************************************************)
EXTENDS Integers, FiniteSets

CONSTANTS
    Skis,
    MsgCounters,    \* message counters of the peers
    MaxGeneration,  \* bound of the exploration: connections of one SKI
    Writes,         \* the writes that may arrive
    Callbacks,      \* the application's approval callbacks
    Early,          \* those registered before any connection
    NoWrite

Generations == 1..MaxGeneration
WriteType == [ski : Skis, generation : Generations, msgCounter : MsgCounters]

ASSUME WritesAssumption == Writes \subseteq WriteType /\ NoWrite \notin Writes
ASSUME GenerationAssumption == MaxGeneration \in Nat \ {0}
ASSUME CallbacksAssumption == IsFiniteSet(Callbacks) /\ Early \subseteq Callbacks

Keys == Skis \X MsgCounters
Key(w) == <<w.ski, w.msgCounter>>

VARIABLES
    registered,             \* writeApprovalCallbacks
    pendingWriteApprovals,  \* key -> the write whose timer is stored
    writeApprovalReceived,  \* key -> votes counted, 0 for no entry
    generation,             \* the current connection of each SKI
    handler,                \* where the reader is with each write
    asked,                  \* write -> callbacks started for it
    timer,                  \* write -> its timer
    vote,                   \* write -> callback -> its call of ApproveOrDenyWrite
    executed,               \* write -> callbacks whose vote executed it
    refused                 \* writes an error was sent for, and by whom

tables == <<pendingWriteApprovals, writeApprovalReceived>>
outcomes == <<executed, refused>>
vars == <<registered, tables, generation, handler, asked, timer, vote, outcomes>>

Timer == "timer"
VotePlaces == {"none", "called", "tally", "settle", "late", "counted", "done"}
VoteStates == [pc : VotePlaces, approve : BOOLEAN,
               count : 0..Cardinality(Callbacks), timer : Writes \cup {NoWrite}]
NoVote == [pc |-> "none", approve |-> FALSE, count |-> 0, timer |-> NoWrite]

TypeOK ==
    /\ registered \subseteq Callbacks
    /\ pendingWriteApprovals \in [Keys -> Writes \cup {NoWrite}]
    /\ writeApprovalReceived \in [Keys -> 0..(Cardinality(Callbacks) - 1)]
    /\ generation \in [Skis -> 1..MaxGeneration]
    /\ handler \in [Writes -> {"new", "insert", "dispatch", "done"}]
    /\ asked \in [Writes -> SUBSET Callbacks]
    /\ timer \in [Writes -> {"none", "running", "fired", "expired", "stopped"}]
    /\ vote \in [Writes -> [Callbacks -> VoteStates]]
    /\ executed \in [Writes -> SUBSET Callbacks]
    /\ refused \in [Writes -> SUBSET (Callbacks \cup {Timer})]

Init ==
    /\ registered = Early
    /\ pendingWriteApprovals = [k \in Keys |-> NoWrite]
    /\ writeApprovalReceived = [k \in Keys |-> 0]
    /\ generation = [s \in Skis |-> 1]
    /\ handler = [w \in Writes |-> "new"]
    /\ asked = [w \in Writes |-> {}]
    /\ timer = [w \in Writes |-> "none"]
    /\ vote = [w \in Writes |-> [c \in Callbacks |-> NoVote]]
    /\ executed = [w \in Writes |-> {}]
    /\ refused = [w \in Writes |-> {}]

-----------------------------------------------------------------------------
AddWriteApprovalCallback(c) ==
    /\ c \notin registered
    /\ registered' = registered \cup {c}
    /\ UNCHANGED <<tables, generation, handler, asked, timer, vote, outcomes>>

(* A write of the current connection reaches HandleMessage; the reader of a *)
(* connection handles one write after the other.  With a callback          *)
(* registered addPendingApproval starts the timer first.  Without one the  *)
(* write is executed at once and none of the tables is concerned.          *)
addPendingApproval(w) ==
    /\ handler[w] = "new"
    /\ generation[w.ski] = w.generation
    /\ \A v \in Writes : /\ v.ski = w.ski
                         /\ v.generation = w.generation
                         => handler[v] \in {"new", "done"}
    /\ registered # {}
    /\ handler' = [handler EXCEPT ![w] = "insert"]
    /\ timer' = [timer EXCEPT ![w] = "running"]
    /\ UNCHANGED <<registered, tables, generation, asked, vote, outcomes>>

(* The end of addPendingApproval stores the timer, which may have fired.   *)
storePendingApproval(w) ==
    /\ handler[w] = "insert"
    /\ handler' = [handler EXCEPT ![w] = "dispatch"]
    /\ pendingWriteApprovals' = [pendingWriteApprovals EXCEPT ![Key(w)] = w]
    /\ UNCHANGED <<registered, writeApprovalReceived, generation, asked, timer,
                   vote, outcomes>>

processWriteApprovalCallbacks(w) ==
    /\ handler[w] = "dispatch"
    /\ handler' = [handler EXCEPT ![w] = "done"]
    /\ asked' = [asked EXCEPT ![w] = registered]
    /\ vote' = [vote EXCEPT ![w] = [c \in Callbacks |->
                  IF c \in registered THEN [NoVote EXCEPT !.pc = "called"] ELSE NoVote]]
    /\ UNCHANGED <<registered, tables, generation, timer, outcomes>>

-----------------------------------------------------------------------------
(* The timer fires; its goroutine has yet to get the mutex, and Stop comes *)
(* too late.                                                               *)
fireTimer(w) ==
    /\ timer[w] = "running"
    /\ timer' = [timer EXCEPT ![w] = "fired"]
    /\ UNCHANGED <<registered, tables, generation, handler, asked, vote, outcomes>>

(* Faulty: nobody is told of the timeout.                                  *)
ExpireSilently(w) ==
    /\ timer[w] = "fired"
    /\ timer' = [timer EXCEPT ![w] = "expired"]
    /\ pendingWriteApprovals' = [pendingWriteApprovals EXCEPT ![Key(w)] = NoWrite]
    /\ UNCHANGED <<registered, writeApprovalReceived, generation, handler, asked,
                   vote, outcomes>>

(* The timer's goroutine removes what is pending under the key, then sends *)
(* the error.                                                              *)
expire(w) ==
    /\ timer[w] = "fired"
    /\ timer' = [timer EXCEPT ![w] = "expired"]
    /\ pendingWriteApprovals' = [pendingWriteApprovals EXCEPT ![Key(w)] = NoWrite]
    /\ refused' = [refused EXCEPT ![w] = @ \cup {Timer}]
    /\ UNCHANGED <<registered, writeApprovalReceived, generation, handler, asked,
                   vote, executed>>

-----------------------------------------------------------------------------
(* ApproveOrDenyWrite of callback c for write w, in three critical         *)
(* sections: the look at the pending timer, the tally and the settlement.  *)
ApproveOrDenyWrite(w, c) ==
    /\ vote[w][c].pc = "called"
    /\ \E approve \in BOOLEAN :
          \/ /\ pendingWriteApprovals[Key(w)] = NoWrite
             /\ vote' = [vote EXCEPT ![w][c] = [NoVote EXCEPT !.pc = "late",
                                                              !.approve = approve]]
          \/ /\ pendingWriteApprovals[Key(w)] # NoWrite
             /\ vote' = [vote EXCEPT ![w][c] =
                           [pc |-> "tally", approve |-> approve,
                            count |-> Cardinality(registered),
                            timer |-> pendingWriteApprovals[Key(w)]]]
    /\ UNCHANGED <<registered, tables, generation, handler, asked, timer, outcomes>>

(* muxWriteReceived is held from the tally to the settlement.              *)
muxWriteReceivedFree == \A w \in Writes, c \in Callbacks : vote[w][c].pc # "settle"

(* What the tally makes of the counts: the first vote of a key drops the   *)
(* counts of every other key of its SKI.                                   *)
Counted(k) ==
    [j \in Keys |-> CASE j = k -> writeApprovalReceived[k] + 1
                      [] j # k /\ j[1] = k[1] /\ writeApprovalReceived[k] = 0 -> 0
                      [] OTHER -> writeApprovalReceived[j]]

(* Faulty: the counts of a settled write stay.                             *)
ForgetNothing(counts, k) == counts

Forget(counts, k) == [counts EXCEPT ![k] = 0]
StopTimer(w) == timer' = [timer EXCEPT ![w] = IF @ = "running" THEN "stopped" ELSE @]
VoteGoes(w, c, place) == vote' = [vote EXCEPT ![w][c].pc = place]

(* Faulty: one approval less than there are callbacks is enough.           *)
TallyOneShort(w, c) ==
    /\ vote[w][c].pc = "tally"
    /\ muxWriteReceivedFree
    /\ LET counts == Counted(Key(w))
       IN \/ /\ vote[w][c].approve /\ vote[w][c].count > 1
             /\ counts[Key(w)] + 1 < vote[w][c].count
             /\ writeApprovalReceived' = counts
             /\ VoteGoes(w, c, "counted")
             /\ UNCHANGED timer
          \/ /\ vote[w][c].approve /\ vote[w][c].count > 1
                => counts[Key(w)] + 1 >= vote[w][c].count
             /\ writeApprovalReceived' = Forget(writeApprovalReceived, Key(w))
             /\ StopTimer(vote[w][c].timer)
             /\ VoteGoes(w, c, "settle")
    /\ UNCHANGED <<registered, pendingWriteApprovals, generation, handler, asked, outcomes>>

(* With one callback, or for a denial, nothing is counted.  Otherwise the  *)
(* approval counts, and ends the call unless it is the last one needed.    *)
tally(w, c) ==
    /\ vote[w][c].pc = "tally"
    /\ muxWriteReceivedFree
    /\ LET counts == Counted(Key(w))
       IN \/ /\ vote[w][c].approve /\ vote[w][c].count > 1
             /\ counts[Key(w)] < vote[w][c].count
             /\ writeApprovalReceived' = counts
             /\ VoteGoes(w, c, "counted")
             /\ UNCHANGED timer
          \/ /\ vote[w][c].approve /\ vote[w][c].count > 1
                => counts[Key(w)] >= vote[w][c].count
             /\ writeApprovalReceived' =
                   IF vote[w][c].approve /\ vote[w][c].count > 1
                   THEN Forget(counts, Key(w))
                   ELSE Forget(writeApprovalReceived, Key(w))
             /\ StopTimer(vote[w][c].timer)
             /\ VoteGoes(w, c, "settle")
    /\ UNCHANGED <<registered, pendingWriteApprovals, generation, handler, asked, outcomes>>

(* The write of the message is executed, or refused by the vote; executing *)
(* it may fail, which sends an error too.                                  *)
settle(w, c) ==
    /\ vote[w][c].pc = "settle"
    /\ pendingWriteApprovals' = [pendingWriteApprovals EXCEPT ![Key(w)] = NoWrite]
    /\ VoteGoes(w, c, "done")
    /\ \/ /\ vote[w][c].approve
          /\ executed' = [executed EXCEPT ![w] = @ \cup {c}]
          /\ UNCHANGED refused
       \/ /\ refused' = [refused EXCEPT ![w] = @ \cup {c}]
          /\ UNCHANGED executed
    /\ UNCHANGED <<registered, writeApprovalReceived, generation, handler, asked, timer>>

-----------------------------------------------------------------------------
(* The remote device is removed: its caches go, its timers stay.  The next *)
(* connection of the SKI may count its messages from 1 again.              *)
CleanWriteApprovalCaches(s) ==
    /\ generation[s] < MaxGeneration
    /\ generation' = [generation EXCEPT ![s] = @ + 1]
    /\ pendingWriteApprovals' =
          [k \in Keys |-> IF k[1] = s THEN NoWrite ELSE pendingWriteApprovals[k]]
    /\ writeApprovalReceived' =
          [k \in Keys |-> IF k[1] = s THEN 0 ELSE writeApprovalReceived[k]]
    /\ UNCHANGED <<registered, handler, asked, timer, vote, outcomes>>

(* A step of a goroutine that is under way on behalf of a write.           *)
WriteStep(w) == \/ storePendingApproval(w)
                \/ processWriteApprovalCallbacks(w)
                \/ fireTimer(w)
                \/ expire(w)
                \/ \E c \in Callbacks : tally(w, c) \/ settle(w, c)

Next == \/ \E c \in Callbacks : AddWriteApprovalCallback(c)
        \/ \E s \in Skis : CleanWriteApprovalCaches(s)
        \/ \E w \in Writes : \/ addPendingApproval(w)
                             \/ WriteStep(w)
                             \/ \E c \in Callbacks : ApproveOrDenyWrite(w, c)

(* While a goroutine is under way or a timer armed, one of them goes on.   *)
(* No callback has to vote.                                                *)
Fairness == WF_vars(\E w \in Writes : WriteStep(w))

Spec == Init /\ [][Next]_vars
FairSpec == Spec /\ Fairness

-----------------------------------------------------------------------------
(* To approve a write all callbacks that were asked must approve it, also  *)
(* when callbacks are added, votes overlap and connections come and go.    *)
ApprovedByAll ==
    \A w \in Writes : executed[w] # {} =>
        \A c \in asked[w] : /\ vote[w][c].pc \in {"counted", "settle", "done"}
                            /\ vote[w][c].approve

(* Every write that waited for approval is executed or refused in the end, *)
(* whether the callbacks vote or not and whether its device stays.         *)
EveryWriteSettled ==
    \A w \in Writes : handler[w] # "new" ~> executed[w] \cup refused[w] # {}

(* An approval is merely counted only while an approval is missing: when   *)
(* every callback asked has approved, the last of them settles the write.  *)
FullApprovalSettles ==
    \A w \in Writes : asked[w] # {} =>
        \E c \in asked[w] : vote[w][c].pc # "counted"
=============================================================================
