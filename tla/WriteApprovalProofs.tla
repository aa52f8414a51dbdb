------------------------ MODULE WriteApprovalProofs ------------------------
(***************************************************************************)
(* Theorems about WriteApproval for any number of writes, callbacks and    *)
(* connections.                                                            *)
(***************************************************************************)
EXTENDS WriteApproval, FiniteSetTheorems, TLAPS

(* A peer does not use a message counter again, also not on its next       *)
(* connection: the tables do not know the connection of an entry.          *)
DistinctKeys == \A v, w \in Writes : Key(v) = Key(w) => v = w

(* The callbacks asked for a write, and what their votes hold.             *)
AskedInv ==
    \A w \in Writes :
        /\ asked[w] \subseteq registered
        /\ handler[w] # "done" => asked[w] = {}
        /\ \A c \in Callbacks :
              /\ vote[w][c].pc # "none" <=> c \in asked[w]
              /\ vote[w][c].pc = "counted" => vote[w][c].approve
              /\ vote[w][c].pc = "tally" => Cardinality(asked[w]) <= vote[w][c].count

(* No more approvals are in the table than callbacks have given.           *)
CountedVotes(w) == {c \in Callbacks : vote[w][c].pc = "counted"}
CountInv == \A w \in Writes :
                writeApprovalReceived[Key(w)] <= Cardinality(CountedVotes(w))

(* An approving vote settles a write after all others have approved it.    *)
Unanimous(w) == \A c \in asked[w] : /\ vote[w][c].pc \in {"counted", "settle", "done"}
                                    /\ vote[w][c].approve
UnanimousInv ==
    \A w \in Writes :
        /\ executed[w] # {} => handler[w] = "done" /\ Unanimous(w)
        /\ \A c \in Callbacks : vote[w][c].pc = "settle" /\ vote[w][c].approve
                                => Unanimous(w)

VoteInv == AskedInv /\ CountInv /\ UnanimousInv

-----------------------------------------------------------------------------
USE DEF tables, outcomes

LEMMA Cardinal ==
    /\ Cardinality(Callbacks) \in Nat
    /\ \A S : S \subseteq Callbacks => /\ IsFiniteSet(S)
                                     /\ Cardinality(S) \in 0..Cardinality(Callbacks)
BY CallbacksAssumption, FS_CardinalityType, FS_Subset

LEMMA KeyType == \A w \in Writes : /\ Key(w) \in Keys
                                  /\ Key(w)[1] = w.ski /\ w.ski \in Skis
BY WritesAssumption DEF WriteType, Key, Keys

LEMMA VoteFields ==
    ASSUME NEW r \in VoteStates, NEW p \in VotePlaces
    PROVE  LET s == [r EXCEPT !.pc = p]
           IN  /\ s \in VoteStates /\ s.pc = p /\ s.approve = r.approve
               /\ r.count \in 0..Cardinality(Callbacks) /\ r.approve \in BOOLEAN
BY DEF VoteStates

LEMMA NoVoteFields ==
    /\ NoVote \in VoteStates /\ NoVote.pc = "none"
    /\ \A p \in VotePlaces, b \in BOOLEAN :
          LET s == [NoVote EXCEPT !.pc = p, !.approve = b]
          IN  s \in VoteStates /\ s.pc = p /\ s.approve = b
    /\ \A p \in VotePlaces : LET s == [NoVote EXCEPT !.pc = p]
                             IN  s \in VoteStates /\ s.pc = p
<1>1. 0 \in 0..Cardinality(Callbacks)
  BY Cardinal
<1> QED
  BY <1>1 DEF NoVote, VoteStates, VotePlaces

(* One vote becomes r.                                                     *)
Voted(w, c, r) ==
    /\ vote' \in [Writes -> [Callbacks -> VoteStates]]
    /\ vote'[w][c] = r
    /\ \A v \in Writes, d \in Callbacks : v # w \/ d # c => vote'[v][d] = vote[v][d]

LEMMA VoteMoves ==
    ASSUME vote \in [Writes -> [Callbacks -> VoteStates]],
           NEW w \in Writes, NEW c \in Callbacks, NEW r \in VoteStates,
           vote' = [vote EXCEPT ![w][c] = r]
    PROVE  Voted(w, c, r)
BY DEF Voted

LEMMA GoesMoves ==
    ASSUME vote \in [Writes -> [Callbacks -> VoteStates]],
           NEW w \in Writes, NEW c \in Callbacks, NEW p \in VotePlaces,
           VoteGoes(w, c, p)
    PROVE  /\ Voted(w, c, [vote[w][c] EXCEPT !.pc = p])
           /\ vote'[w][c].pc = p
           /\ vote'[w][c].approve = vote[w][c].approve
<1>1. vote' = [vote EXCEPT ![w][c] = [vote[w][c] EXCEPT !.pc = p]]
  BY DEF VoteGoes
<1> DEFINE r == [vote[w][c] EXCEPT !.pc = p]
<1>2. r \in VoteStates /\ r.pc = p /\ r.approve = vote[w][c].approve
  BY VoteFields
<1> HIDE DEF r
<1>3. Voted(w, c, r)
  BY <1>1, <1>2, VoteMoves DEF r
<1> QED
  BY <1>2, <1>3 DEF r, Voted

(* The ways of a tally: the approval is counted, or the write is settled.  *)
Counts(w, c) ==
    /\ vote[w][c].approve /\ vote[w][c].count > 1
    /\ Counted(Key(w))[Key(w)] < vote[w][c].count
    /\ writeApprovalReceived' = Counted(Key(w))
    /\ VoteGoes(w, c, "counted")
    /\ UNCHANGED timer
Settles(w, c) ==
    /\ vote[w][c].approve /\ vote[w][c].count > 1
           => Counted(Key(w))[Key(w)] >= vote[w][c].count
    /\ writeApprovalReceived' =
           IF vote[w][c].approve /\ vote[w][c].count > 1
           THEN Forget(Counted(Key(w)), Key(w))
           ELSE Forget(writeApprovalReceived, Key(w))
    /\ StopTimer(vote[w][c].timer)
    /\ VoteGoes(w, c, "settle")

LEMMA TallySteps ==
    ASSUME NEW w \in Writes, NEW c \in Callbacks, tally(w, c)
    PROVE  /\ Counts(w, c) \/ Settles(w, c)
           /\ vote[w][c].pc = "tally"
           /\ UNCHANGED <<registered, pendingWriteApprovals, generation, handler,
                          asked, outcomes>>
BY DEF tally, Counts, Settles

Received == [Keys -> 0..(Cardinality(Callbacks) - 1)]

(* The count of a key grows by one; no other count grows.                  *)
LEMMA CountedValues ==
    ASSUME writeApprovalReceived \in Received, NEW k \in Keys
    PROVE  /\ Counted(k) \in [Keys -> Nat]
           /\ Counted(k)[k] = writeApprovalReceived[k] + 1
           /\ \A j \in Keys \ {k} : /\ Counted(k)[j] <= writeApprovalReceived[j]
                                   /\ Counted(k)[j] \in 0..(Cardinality(Callbacks) - 1)
<1>1. \A j \in Keys : writeApprovalReceived[j] \in 0..(Cardinality(Callbacks) - 1)
  BY DEF Received
<1>2. Cardinality(Callbacks) \in Nat
  BY Cardinal
<1>3. \A j \in Keys : 0 <= writeApprovalReceived[j] /\ writeApprovalReceived[j] \in Nat
                       /\ 0 \in 0..(Cardinality(Callbacks) - 1)
  BY <1>1, <1>2
<1> QED
  BY <1>1, <1>3 DEF Counted

LEMMA TallyReceived ==
    ASSUME TypeOK, NEW w \in Writes, NEW c \in Callbacks, tally(w, c)
    PROVE  /\ writeApprovalReceived' \in Received
           /\ \A j \in Keys \ {Key(w)} : writeApprovalReceived'[j] <= writeApprovalReceived[j]
           /\ Counts(w, c) => writeApprovalReceived'[Key(w)] = writeApprovalReceived[Key(w)] + 1
           /\ Settles(w, c) => writeApprovalReceived'[Key(w)] = 0
<1>1. writeApprovalReceived \in Received /\ Key(w) \in Keys
  BY KeyType DEF TypeOK, Received
<1>2. /\ Counted(Key(w)) \in [Keys -> Nat]
      /\ Counted(Key(w))[Key(w)] = writeApprovalReceived[Key(w)] + 1
      /\ \A j \in Keys \ {Key(w)} :
            /\ Counted(Key(w))[j] <= writeApprovalReceived[j]
            /\ Counted(Key(w))[j] \in 0..(Cardinality(Callbacks) - 1)
  BY <1>1, CountedValues
<1>3. vote[w][c].count \in 0..Cardinality(Callbacks) /\ Cardinality(Callbacks) \in Nat
  BY Cardinal DEF TypeOK, VoteStates
<1>4. writeApprovalReceived[Key(w)] \in 0..(Cardinality(Callbacks) - 1)
      /\ 0 \in 0..(Cardinality(Callbacks) - 1)
  BY <1>1, <1>3 DEF Received
<1>5. CASE Counts(w, c)
  <2>1. writeApprovalReceived' = Counted(Key(w))
        /\ Counted(Key(w))[Key(w)] < vote[w][c].count
    BY <1>5 DEF Counts
  <2>2. \A j \in Keys : writeApprovalReceived'[j] \in 0..(Cardinality(Callbacks) - 1)
    BY <1>2, <1>3, <1>4, <2>1
  <2>3. ~Settles(w, c)
    BY <1>2, <1>3, <1>4, <1>5 DEF Counts, Settles
  <2> QED
    BY <1>2, <2>1, <2>2, <2>3 DEF Received
<1>6. CASE Settles(w, c)
  <2>1. PICK counts \in {Counted(Key(w)), writeApprovalReceived} :
           writeApprovalReceived' = [counts EXCEPT ![Key(w)] = 0]
    BY <1>6 DEF Settles, Forget
  <2>2. /\ counts \in [Keys -> Nat]
        /\ \A j \in Keys \ {Key(w)} :
              /\ counts[j] <= writeApprovalReceived[j]
              /\ counts[j] \in 0..(Cardinality(Callbacks) - 1)
    BY <1>1, <1>2, <1>3, <2>1 DEF Received
  <2>3. ~Counts(w, c)
    BY <1>2, <1>3, <1>4, <1>6 DEF Counts, Settles
  <2> QED
    BY <1>1, <1>4, <2>1, <2>2, <2>3 DEF Received
<1> QED
  BY <1>5, <1>6, TallySteps

-----------------------------------------------------------------------------
LEMMA TypeStep == TypeOK /\ [Next]_vars => TypeOK'
<1> SUFFICES ASSUME TypeOK, [Next]_vars PROVE TypeOK'
  OBVIOUS
<1>1. ASSUME NEW c \in Callbacks, AddWriteApprovalCallback(c) PROVE TypeOK'
  BY <1>1 DEF AddWriteApprovalCallback, TypeOK
<1>2. ASSUME NEW s \in Skis, CleanWriteApprovalCaches(s) PROVE TypeOK'
  <2>1. generation' \in [Skis -> 1..MaxGeneration]
    BY <1>2, GenerationAssumption DEF CleanWriteApprovalCaches, TypeOK
  <2>2. pendingWriteApprovals' \in [Keys -> Writes \cup {NoWrite}]
    BY <1>2 DEF CleanWriteApprovalCaches, TypeOK
  <2>3. writeApprovalReceived' \in [Keys -> 0..(Cardinality(Callbacks) - 1)]
    <3>1. \A k \in Keys : writeApprovalReceived[k] \in 0..(Cardinality(Callbacks) - 1)
      BY DEF TypeOK
    <3>2. \A k \in Keys : 0 \in 0..(Cardinality(Callbacks) - 1)
      BY <3>1, Cardinal
    <3> QED
      BY <1>2, <3>1, <3>2 DEF CleanWriteApprovalCaches
  <2> QED
    BY <1>2, <2>1, <2>2, <2>3 DEF CleanWriteApprovalCaches, TypeOK
<1>3. ASSUME NEW w \in Writes, addPendingApproval(w) PROVE TypeOK'
  BY <1>3 DEF addPendingApproval, TypeOK
<1>4. ASSUME NEW w \in Writes, storePendingApproval(w) PROVE TypeOK'
  BY <1>4, KeyType DEF storePendingApproval, TypeOK
<1>5. ASSUME NEW w \in Writes, processWriteApprovalCallbacks(w) PROVE TypeOK'
  <2>1. [NoVote EXCEPT !.pc = "called"] \in VoteStates /\ NoVote \in VoteStates
    BY NoVoteFields DEF VotePlaces
  <2>2. [c \in Callbacks |-> IF c \in registered THEN [NoVote EXCEPT !.pc = "called"]
                             ELSE NoVote] \in [Callbacks -> VoteStates]
    BY <2>1
  <2>3. vote' \in [Writes -> [Callbacks -> VoteStates]]
    BY <1>5, <2>2 DEF processWriteApprovalCallbacks, TypeOK
  <2> QED
    BY <1>5, <2>3 DEF processWriteApprovalCallbacks, TypeOK
<1>6. ASSUME NEW w \in Writes, fireTimer(w) PROVE TypeOK'
  BY <1>6 DEF fireTimer, TypeOK
<1>7. ASSUME NEW w \in Writes, expire(w) PROVE TypeOK'
  BY <1>7 DEF expire, TypeOK
<1>8. ASSUME NEW w \in Writes, NEW c \in Callbacks, ApproveOrDenyWrite(w, c)
      PROVE  TypeOK'
  <2>1. vote' \in [Writes -> [Callbacks -> VoteStates]]
    <3>1. PICK approve \in BOOLEAN :
             \/ vote' = [vote EXCEPT ![w][c] = [NoVote EXCEPT !.pc = "late",
                                                              !.approve = approve]]
             \/ vote' = [vote EXCEPT ![w][c] =
                           [pc |-> "tally", approve |-> approve,
                            count |-> Cardinality(registered),
                            timer |-> pendingWriteApprovals[Key(w)]]]
      BY <1>8 DEF ApproveOrDenyWrite
    <3>2. [NoVote EXCEPT !.pc = "late", !.approve = approve] \in VoteStates
      BY NoVoteFields DEF VotePlaces
    <3>3. [pc |-> "tally", approve |-> approve, count |-> Cardinality(registered),
           timer |-> pendingWriteApprovals[Key(w)]] \in VoteStates
      BY Cardinal, KeyType DEF TypeOK, VoteStates, VotePlaces
    <3> QED
      BY <3>1, <3>2, <3>3, VoteMoves DEF TypeOK, Voted
  <2> QED
    BY <1>8, <2>1 DEF ApproveOrDenyWrite, TypeOK
<1>9. ASSUME NEW w \in Writes, NEW c \in Callbacks, tally(w, c) PROVE TypeOK'
  <2>1. vote' \in [Writes -> [Callbacks -> VoteStates]]
    BY <1>9, TallySteps, GoesMoves DEF TypeOK, Voted, Counts, Settles, VotePlaces
  <2>2. timer' \in [Writes -> {"none", "running", "fired", "expired", "stopped"}]
    BY <1>9, TallySteps DEF TypeOK, Counts, Settles, StopTimer
  <2> QED
    BY <1>9, <2>1, <2>2, TallySteps, TallyReceived DEF TypeOK, Received
<1>10. ASSUME NEW w \in Writes, NEW c \in Callbacks, settle(w, c) PROVE TypeOK'
  <2>1. vote' \in [Writes -> [Callbacks -> VoteStates]]
    BY <1>10, GoesMoves DEF TypeOK, Voted, settle, VotePlaces
  <2>2. executed' \in [Writes -> SUBSET Callbacks]
    <3>1. executed[w] \cup {c} \in SUBSET Callbacks
      BY DEF TypeOK
    <3>2. executed' = executed \/ executed' = [executed EXCEPT ![w] = executed[w] \cup {c}]
      BY <1>10 DEF settle
    <3> QED
      BY <3>1, <3>2 DEF TypeOK
  <2>3. refused' \in [Writes -> SUBSET (Callbacks \cup {Timer})]
    <3>1. refused[w] \cup {c} \in SUBSET (Callbacks \cup {Timer})
      BY DEF TypeOK
    <3>2. refused' = refused \/ refused' = [refused EXCEPT ![w] = refused[w] \cup {c}]
      BY <1>10 DEF settle
    <3> QED
      BY <3>1, <3>2 DEF TypeOK
  <2> QED
    BY <1>10, <2>1, <2>2, <2>3, KeyType DEF settle, TypeOK
<1>11. CASE UNCHANGED vars
  BY <1>11 DEF vars, TypeOK
<1> QED
  BY <1>1, <1>2, <1>3, <1>4, <1>5, <1>6, <1>7, <1>8, <1>9, <1>10, <1>11
  DEF Next, WriteStep

LEMMA InitType ==
    ASSUME Callbacks # {}
    PROVE  Init => TypeOK
<1>1. 0 \in 0..(Cardinality(Callbacks) - 1)
  BY Cardinal, CallbacksAssumption, FS_EmptySet
<1>2. NoVote \in VoteStates
  BY NoVoteFields
<1> QED
  BY <1>1, <1>2, CallbacksAssumption, GenerationAssumption DEF Init, TypeOK

(* With at least one callback the tables, the timers and the votes keep    *)
(* their types: in particular no count reaches the number of callbacks.    *)
THEOREM TypeCorrect ==
    ASSUME Callbacks # {}
    PROVE  Spec => []TypeOK
<1>1. Init => TypeOK
  BY InitType
<1>2. TypeOK /\ [Next]_vars => TypeOK'
  BY TypeStep
<1> QED
  BY <1>1, <1>2, PTL DEF Spec

-----------------------------------------------------------------------------
(* The parts of the invariant for one write.                               *)
AskedPart(w) ==
    /\ asked[w] \subseteq registered
    /\ handler[w] # "done" => asked[w] = {}
    /\ \A c \in Callbacks :
          /\ vote[w][c].pc # "none" <=> c \in asked[w]
          /\ vote[w][c].pc = "counted" => vote[w][c].approve
          /\ vote[w][c].pc = "tally" => Cardinality(asked[w]) <= vote[w][c].count
CountPart(w) == writeApprovalReceived[Key(w)] <= Cardinality(CountedVotes(w))
UnanimousPart(w) ==
    /\ executed[w] # {} => handler[w] = "done" /\ Unanimous(w)
    /\ \A c \in Callbacks : vote[w][c].pc = "settle" /\ vote[w][c].approve
                            => Unanimous(w)
VotePart(w) == AskedPart(w) /\ CountPart(w) /\ UnanimousPart(w)

LEMMA Parts == VoteInv <=> \A w \in Writes : VotePart(w)
BY DEF VoteInv, AskedInv, CountInv, UnanimousInv, VotePart, AskedPart, CountPart,
   UnanimousPart

(* The votes of a write that does not move.                                *)
LEMMA Kept ==
    ASSUME TypeOK, TypeOK', NEW w \in Writes, VotePart(w),
           \A c \in Callbacks : vote'[w][c] = vote[w][c],
           asked'[w] = asked[w], registered \subseteq registered',
           handler[w] = "done" \/ handler'[w] = handler[w] \/ asked[w] = {},
           handler[w] = "done" => handler'[w] = "done",
           executed'[w] = executed[w],
           writeApprovalReceived'[Key(w)] <= writeApprovalReceived[Key(w)]
    PROVE  VotePart(w)'
<1>1. AskedPart(w)'
  BY DEF VotePart, AskedPart
<1>2. CountPart(w)'
  <2>1. CountedVotes(w)' = CountedVotes(w)
    BY DEF CountedVotes
  <2>2. /\ writeApprovalReceived[Key(w)] \in Int /\ writeApprovalReceived'[Key(w)] \in Int
        /\ Cardinality(CountedVotes(w)) \in Int
    BY KeyType, Cardinal DEF TypeOK, CountedVotes
  <2> QED
    BY <2>1, <2>2 DEF VotePart, CountPart
<1>3. UnanimousPart(w)'
  <2>1. asked[w] \subseteq Callbacks
    BY DEF TypeOK
  <2>2. Unanimous(w)' <=> Unanimous(w)
    BY <2>1 DEF Unanimous
  <2> QED
    BY <2>2 DEF VotePart, UnanimousPart
<1> QED
  BY <1>1, <1>2, <1>3 DEF VotePart

(* The last approval: with the one in hand the table has as many as there  *)
(* are callbacks asked, and so the others are all counted.                 *)
LEMMA LastApproval ==
    ASSUME TypeOK, NEW w \in Writes, VotePart(w), NEW c \in Callbacks,
           tally(w, c), Settles(w, c), vote[w][c].approve
    PROVE  \A d \in asked[w] \ {c} : d \in CountedVotes(w)
<1> DEFINE others == asked[w] \ {c}
<1>1. c \in asked[w] /\ asked[w] \subseteq Callbacks /\ vote[w][c].pc = "tally"
  BY TallySteps DEF VotePart, AskedPart, TypeOK
<1>2. IsFiniteSet(asked[w]) /\ IsFiniteSet(others)
      /\ Cardinality(others) = Cardinality(asked[w]) - 1
      /\ Cardinality(asked[w]) \in Nat
  BY <1>1, Cardinal, FS_RemoveElement
<1>3. CountedVotes(w) \subseteq others
  BY <1>1 DEF CountedVotes, VotePart, AskedPart
<1>4. /\ vote[w][c].count \in 0..Cardinality(Callbacks) /\ Cardinality(Callbacks) \in Nat
      /\ Cardinality(asked[w]) <= vote[w][c].count
  BY <1>1, Cardinal DEF TypeOK, VoteStates, VotePart, AskedPart
<1>5. CASE vote[w][c].count > 1
  <2>1. Counted(Key(w))[Key(w)] = writeApprovalReceived[Key(w)] + 1
        /\ writeApprovalReceived[Key(w)] \in Int
    BY KeyType, CountedValues DEF TypeOK, Received
  <2>2. writeApprovalReceived[Key(w)] + 1 >= vote[w][c].count
    BY <1>5, <2>1 DEF Settles
  <2>3. Cardinality(CountedVotes(w)) \in Nat
        /\ writeApprovalReceived[Key(w)] <= Cardinality(CountedVotes(w))
    BY Cardinal DEF CountedVotes, VotePart, CountPart
  <2>4. Cardinality(CountedVotes(w)) <= Cardinality(others)
    BY <1>2, <1>3, FS_Subset
  <2>5. Cardinality(CountedVotes(w)) = Cardinality(others)
    BY <1>2, <1>4, <2>1, <2>2, <2>3, <2>4
  <2>6. CountedVotes(w) = others
    BY <1>2, <1>3, <2>5, FS_Subset
  <2> QED
    BY <2>6
<1>6. CASE ~(vote[w][c].count > 1)
  <2>1. Cardinality(others) <= 0 /\ Cardinality(others) \in Nat
    BY <1>2, <1>4, <1>6, FS_CardinalityType
  <2>2. others = {}
    BY <1>2, <2>1, FS_EmptySet
  <2> QED
    BY <2>2
<1> QED
  BY <1>5, <1>6

LEMMA VoteStep ==
    ASSUME DistinctKeys, TypeOK, VoteInv, [Next]_vars
    PROVE  VoteInv'
<1>t. TypeOK'
  BY TypeStep
<1>p. \A w \in Writes : VotePart(w)
  BY Parts
<1>q. ASSUME \A w \in Writes : VotePart(w)' PROVE VoteInv'
  BY <1>q DEF VoteInv, AskedInv, CountInv, UnanimousInv, VotePart, AskedPart,
     CountPart, UnanimousPart
<1>o. vote \in [Writes -> [Callbacks -> VoteStates]]
  BY DEF TypeOK
<1>r. \A w \in Writes : writeApprovalReceived[Key(w)] \in Nat
  BY KeyType, Cardinal DEF TypeOK
<1>1. ASSUME UNCHANGED <<vote, asked, executed>>, registered \subseteq registered',
             \A w \in Writes :
                /\ handler[w] = "done" \/ handler'[w] = handler[w] \/ asked[w] = {}
                /\ handler[w] = "done" => handler'[w] = "done"
                /\ writeApprovalReceived'[Key(w)] <= writeApprovalReceived[Key(w)]
      PROVE  VoteInv'
  BY <1>1, <1>t, <1>p, <1>q, Kept
<1>2. ASSUME NEW s \in Skis, CleanWriteApprovalCaches(s) PROVE VoteInv'
  <2>1. \A w \in Writes : writeApprovalReceived'[Key(w)] \in {0, writeApprovalReceived[Key(w)]}
    BY <1>2, KeyType DEF CleanWriteApprovalCaches
  <2>2. \A w \in Writes : writeApprovalReceived'[Key(w)] <= writeApprovalReceived[Key(w)]
    BY <2>1, <1>r
  <2> QED
    BY <1>2, <2>2, <1>1 DEF CleanWriteApprovalCaches
<1>3. ASSUME NEW w \in Writes, addPendingApproval(w) \/ storePendingApproval(w)
      PROVE  VoteInv'
  <2>1. asked[w] = {} /\ handler[w] # "done"
    BY <1>3, <1>p DEF addPendingApproval, storePendingApproval, VotePart, AskedPart
  <2>2. \A v \in Writes \ {w} : handler'[v] = handler[v]
    BY <1>3 DEF addPendingApproval, storePendingApproval, TypeOK
  <2> QED
    BY <1>3, <2>1, <2>2, <1>1, <1>r DEF addPendingApproval, storePendingApproval
<1>4. ASSUME NEW w \in Writes, processWriteApprovalCallbacks(w) PROVE VoteInv'
  <2>1. \A c \in Callbacks : vote'[w][c].pc = IF c \in registered THEN "called" ELSE "none"
    BY <1>4, NoVoteFields DEF processWriteApprovalCallbacks, TypeOK, VotePlaces
  <2>2. /\ asked'[w] = registered /\ handler'[w] = "done" /\ registered \subseteq Callbacks
        /\ UNCHANGED <<registered, writeApprovalReceived, executed>>
    BY <1>4 DEF processWriteApprovalCallbacks, TypeOK
  <2>3. asked[w] = {} /\ handler[w] # "done"
    BY <1>4, <1>p DEF processWriteApprovalCallbacks, VotePart, AskedPart
  <2>4. CountedVotes(w) = {} /\ CountedVotes(w)' = {}
    BY <2>1, <2>3, <1>p DEF CountedVotes, VotePart, AskedPart
  <2>5. executed[w] = {}
    BY <2>3, <1>p DEF VotePart, UnanimousPart
  <2>6. AskedPart(w)'
    BY <2>1, <2>2 DEF AskedPart
  <2>7. CountPart(w)'
    BY <2>2, <2>4, <1>p DEF VotePart, CountPart
  <2>8. UnanimousPart(w)'
    BY <2>1, <2>2, <2>5 DEF UnanimousPart
  <2>9. ASSUME NEW v \in Writes \ {w} PROVE VotePart(v)'
    <3>1. vote'[v] = vote[v] /\ asked'[v] = asked[v] /\ handler'[v] = handler[v]
      BY <1>4 DEF processWriteApprovalCallbacks, TypeOK
    <3> QED
      BY <2>2, <3>1, <1>t, <1>p, <1>r, Kept
  <2> QED
    BY <2>6, <2>7, <2>8, <2>9, <1>q DEF VotePart
<1>v. ASSUME NEW w \in Writes, NEW c \in Callbacks, NEW r, Voted(w, c, r),
             UNCHANGED <<asked, handler, registered>>,
             \A v \in Writes \ {w} :
                /\ executed'[v] = executed[v]
                /\ writeApprovalReceived'[Key(v)] <= writeApprovalReceived[Key(v)],
             VotePart(w)'
      PROVE  VoteInv'
  <2>1. ASSUME NEW v \in Writes \ {w} PROVE VotePart(v)'
    <3>1. \A d \in Callbacks : vote'[v][d] = vote[v][d]
      BY <1>v DEF Voted
    <3> QED
      BY <1>v, <3>1, <1>t, <1>p, Kept
  <2> QED
    BY <2>1, <1>v, <1>q
<1>5. ASSUME NEW w \in Writes, NEW c \in Callbacks, ApproveOrDenyWrite(w, c)
      PROVE  VoteInv'
  <2>1. PICK approve \in BOOLEAN :
           \/ vote' = [vote EXCEPT ![w][c] = [NoVote EXCEPT !.pc = "late",
                                                            !.approve = approve]]
           \/ vote' = [vote EXCEPT ![w][c] =
                         [pc |-> "tally", approve |-> approve,
                          count |-> Cardinality(registered),
                          timer |-> pendingWriteApprovals[Key(w)]]]
    BY <1>5 DEF ApproveOrDenyWrite
  <2>2. vote[w][c].pc = "called" /\ c \in asked[w]
        /\ UNCHANGED <<registered, tables, handler, asked, executed>>
    BY <1>5, <1>p DEF ApproveOrDenyWrite, VotePart, AskedPart
  <2>3. PICK r \in VoteStates : /\ Voted(w, c, r) /\ r.pc \in {"late", "tally"}
                                /\ r.pc = "tally" => r.count = Cardinality(registered)
    <3>1. [NoVote EXCEPT !.pc = "late", !.approve = approve] \in VoteStates
          /\ [NoVote EXCEPT !.pc = "late", !.approve = approve].pc = "late"
      BY NoVoteFields DEF VotePlaces
    <3>2. [pc |-> "tally", approve |-> approve, count |-> Cardinality(registered),
           timer |-> pendingWriteApprovals[Key(w)]] \in VoteStates
      BY Cardinal, KeyType DEF TypeOK, VoteStates, VotePlaces
    <3> QED
      BY <2>1, <3>1, <3>2, VoteMoves DEF TypeOK
  <2>4. vote'[w][c] = r /\ \A d \in Callbacks \ {c} : vote'[w][d] = vote[w][d]
    BY <2>3 DEF Voted
  <2>5. AskedPart(w)'
    <3>1. Cardinality(asked[w]) <= Cardinality(registered)
      <4>1. asked[w] \subseteq registered /\ IsFiniteSet(registered)
        BY <1>p, Cardinal DEF VotePart, AskedPart, TypeOK
      <4> QED
        BY <4>1, FS_Subset
    <3> QED
      BY <2>2, <2>3, <2>4, <3>1, <1>p DEF VotePart, AskedPart
  <2>6. CountPart(w)'
    <3>1. CountedVotes(w)' = CountedVotes(w)
      BY <2>2, <2>3, <2>4 DEF CountedVotes
    <3> QED
      BY <2>2, <3>1, <1>p DEF VotePart, CountPart
  <2>7. UnanimousPart(w)'
    <3>1. ~Unanimous(w)
      BY <2>2 DEF Unanimous
    <3> QED
      BY <2>2, <2>3, <2>4, <3>1, <1>p DEF VotePart, UnanimousPart
  <2> QED
    BY <2>2, <2>3, <2>5, <2>6, <2>7, <1>v, <1>r DEF VotePart
<1>6. ASSUME NEW w \in Writes, NEW c \in Callbacks, tally(w, c) PROVE VoteInv'
  <2>1. /\ vote[w][c].pc = "tally" /\ c \in asked[w] /\ asked[w] \subseteq Callbacks
        /\ UNCHANGED <<registered, handler, asked, executed>>
    BY <1>6, TallySteps, <1>p DEF VotePart, AskedPart, TypeOK
  <2>2. ~Unanimous(w)
    BY <2>1 DEF Unanimous
  <2>3. \A v \in Writes \ {w} :
           writeApprovalReceived'[Key(v)] <= writeApprovalReceived[Key(v)]
    BY <1>6, KeyType, TallyReceived DEF DistinctKeys
  <2>4. CASE Counts(w, c)
    <3>1. vote[w][c].approve /\ VoteGoes(w, c, "counted") /\ "counted" \in VotePlaces
      BY <2>4 DEF Counts, VotePlaces
    <3>2. PICK r : /\ Voted(w, c, r) /\ vote'[w][c].pc = "counted"
                   /\ vote'[w][c].approve = vote[w][c].approve
      <4>1. Voted(w, c, [vote[w][c] EXCEPT !.pc = "counted"])
            /\ vote'[w][c].pc = "counted" /\ vote'[w][c].approve = vote[w][c].approve
        BY <3>1, <1>o, GoesMoves
      <4> QED
        BY <4>1
    <3>3. \A d \in Callbacks \ {c} : vote'[w][d] = vote[w][d]
      BY <3>2 DEF Voted
    <3>4. AskedPart(w)'
      <4>1. AskedPart(w)
        BY <1>p DEF VotePart
      <4>2. ASSUME NEW d \in Callbacks
            PROVE  /\ vote'[w][d].pc # "none" <=> d \in asked'[w]
                   /\ vote'[w][d].pc = "counted" => vote'[w][d].approve
                   /\ vote'[w][d].pc = "tally" => Cardinality(asked'[w]) <= vote'[w][d].count
        BY <2>1, <3>1, <3>2, <3>3, <4>1 DEF AskedPart
      <4>3. asked'[w] \subseteq registered' /\ (handler'[w] # "done" => asked'[w] = {})
        BY <2>1, <4>1 DEF AskedPart
      <4> QED
        BY <4>2, <4>3 DEF AskedPart
    <3>5. CountPart(w)'
      <4>1. CountedVotes(w)' = CountedVotes(w) \cup {c} /\ c \notin CountedVotes(w)
        BY <2>1, <3>2, <3>3 DEF CountedVotes
      <4>2. IsFiniteSet(CountedVotes(w)) /\ Cardinality(CountedVotes(w)) \in Nat
        BY Cardinal DEF CountedVotes
      <4>3. Cardinality(CountedVotes(w)') = Cardinality(CountedVotes(w)) + 1
        BY <4>1, <4>2, FS_AddElement
      <4>4. writeApprovalReceived'[Key(w)] = writeApprovalReceived[Key(w)] + 1
        BY <1>6, <2>4, TallyReceived
      <4>5. writeApprovalReceived[Key(w)] <= Cardinality(CountedVotes(w))
        BY <1>p DEF VotePart, CountPart
      <4> QED
        BY <4>2, <4>3, <4>4, <4>5, <1>r DEF CountPart
    <3>6. UnanimousPart(w)'
      BY <2>1, <2>2, <3>2, <3>3, <1>p DEF VotePart, UnanimousPart
    <3> QED
      BY <2>1, <2>3, <3>2, <3>4, <3>5, <3>6, <1>v DEF VotePart
  <2>5. CASE Settles(w, c)
    <3>1. VoteGoes(w, c, "settle") /\ "settle" \in VotePlaces
      BY <2>5 DEF Settles, VotePlaces
    <3>2. PICK r : /\ Voted(w, c, r) /\ vote'[w][c].pc = "settle"
                   /\ vote'[w][c].approve = vote[w][c].approve
      <4>1. Voted(w, c, [vote[w][c] EXCEPT !.pc = "settle"])
            /\ vote'[w][c].pc = "settle" /\ vote'[w][c].approve = vote[w][c].approve
        BY <3>1, <1>o, GoesMoves
      <4> QED
        BY <4>1
    <3>3. \A d \in Callbacks \ {c} : vote'[w][d] = vote[w][d]
      BY <3>2 DEF Voted
    <3>4. AskedPart(w)'
      BY <2>1, <3>2, <3>3, <1>p DEF VotePart, AskedPart
    <3>5. CountPart(w)'
      <4>1. Cardinality(CountedVotes(w)') \in Nat
        BY Cardinal DEF CountedVotes
      <4>2. writeApprovalReceived'[Key(w)] = 0
        BY <1>6, <2>5, TallyReceived
      <4> QED
        BY <4>1, <4>2 DEF CountPart
    <3>6. vote[w][c].approve => Unanimous(w)'
      <4>1. vote[w][c].approve => \A d \in asked[w] \ {c} : /\ vote[w][d].pc = "counted"
                                                         /\ vote[w][d].approve
        BY <1>6, <2>1, <2>5, <1>p, LastApproval DEF CountedVotes, VotePart, AskedPart
      <4> QED
        BY <2>1, <3>2, <3>3, <4>1 DEF Unanimous
    <3>7. \A d \in Callbacks \ {c} : ~(vote[w][d].pc = "settle" /\ vote[w][d].approve)
      BY <2>2, <1>p DEF VotePart, UnanimousPart
    <3>8. UnanimousPart(w)'
      BY <2>1, <2>2, <3>2, <3>3, <3>6, <3>7, <1>p DEF VotePart, UnanimousPart
    <3> QED
      BY <2>1, <2>3, <3>2, <3>4, <3>5, <3>8, <1>v DEF VotePart
  <2> QED
    BY <1>6, <2>4, <2>5, TallySteps
<1>7. ASSUME NEW w \in Writes, NEW c \in Callbacks, settle(w, c) PROVE VoteInv'
  <2>1. /\ vote[w][c].pc = "settle" /\ VoteGoes(w, c, "done") /\ "done" \in VotePlaces
        /\ UNCHANGED <<registered, writeApprovalReceived, handler, asked>>
    BY <1>7 DEF settle, VotePlaces
  <2>2. PICK r : /\ Voted(w, c, r) /\ vote'[w][c].pc = "done"
                 /\ vote'[w][c].approve = vote[w][c].approve
    BY <2>1, <1>o, GoesMoves
  <2>3. \A d \in Callbacks \ {c} : vote'[w][d] = vote[w][d]
    BY <2>2 DEF Voted
  <2>4. /\ asked[w] \subseteq Callbacks
        /\ \A v \in Writes \ {w} : executed'[v] = executed[v]
        /\ executed'[w] # {} => executed[w] # {} \/ vote[w][c].approve
    BY <1>7 DEF settle, TypeOK
  <2>5. AskedPart(w)'
    BY <2>1, <2>2, <2>3, <1>p DEF VotePart, AskedPart
  <2>6. CountPart(w)'
    <3>1. CountedVotes(w)' = CountedVotes(w)
      BY <2>1, <2>2, <2>3 DEF CountedVotes
    <3> QED
      BY <2>1, <3>1, <1>p DEF VotePart, CountPart
  <2>7. UnanimousPart(w)'
    <3>1. Unanimous(w) => Unanimous(w)'
      BY <2>1, <2>2, <2>3, <2>4 DEF Unanimous
    <3>2. vote[w][c].approve => Unanimous(w)
      BY <2>1, <1>p DEF VotePart, UnanimousPart
    <3>3. handler[w] = "done"
      BY <2>1, <1>p DEF VotePart, AskedPart
    <3> QED
      BY <2>1, <2>2, <2>3, <2>4, <3>1, <3>2, <3>3, <1>p DEF VotePart, UnanimousPart
  <2> QED
    BY <2>1, <2>2, <2>4, <2>5, <2>6, <2>7, <1>v, <1>r DEF VotePart
<1>8. ASSUME \/ \E c \in Callbacks : AddWriteApprovalCallback(c)
             \/ \E w \in Writes : fireTimer(w) \/ expire(w)
             \/ UNCHANGED vars
      PROVE  VoteInv'
  BY <1>8, <1>1, <1>r DEF AddWriteApprovalCallback, fireTimer, expire, vars
<1> QED
  BY <1>2, <1>3, <1>4, <1>5, <1>6, <1>7, <1>8 DEF Next, WriteStep

LEMMA InitVote ==
    ASSUME Init, TypeOK
    PROVE  VoteInv
<1>1. \A w \in Writes : /\ asked[w] = {} /\ executed[w] = {}
                        /\ writeApprovalReceived[Key(w)] = 0
                        /\ \A c \in Callbacks : vote[w][c].pc = "none"
  BY KeyType, NoVoteFields DEF Init
<1>2. \A w \in Writes : Cardinality(CountedVotes(w)) \in Nat
  BY Cardinal DEF CountedVotes
<1> QED
  BY <1>1, <1>2 DEF VoteInv, AskedInv, CountInv, UnanimousInv

(* A write is executed only after every callback that was asked for it has *)
(* approved it, if no message counter is used for two writes.              *)
THEOREM ApprovalCorrect ==
    ASSUME Callbacks # {}, DistinctKeys
    PROVE  Spec => []ApprovedByAll
<1>1. Init => TypeOK /\ VoteInv
  BY InitType, InitVote
<1>2. TypeOK /\ VoteInv /\ [Next]_vars => (TypeOK /\ VoteInv)'
  BY TypeStep, VoteStep
<1>3. VoteInv => ApprovedByAll
  BY DEF VoteInv, UnanimousInv, Unanimous, ApprovedByAll
<1> QED
  BY <1>1, <1>2, <1>3, PTL DEF Spec
=============================================================================
