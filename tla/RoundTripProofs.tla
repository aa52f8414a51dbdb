-------------------------- MODULE RoundTripProofs --------------------------
(***************************************************************************)
(* Theorems about RoundTrip for any number of calls, readers, closers and  *)
(* ordinary sends and any limits: its types, the mutex and the keys, one   *)
(* holder of each outcome, then the evidence of a hand-off, the limit of   *)
(* the pending table and what a call returns as a response, and last that  *)
(* it implements RoundTripService.                                         *)
(***************************************************************************)
EXTENDS RoundTripRefinement, FiniteSetTheorems, TLAPS

(* The mutex is held exactly while a registration is between its check of  *)
(* the flags and its allocation, and the generation is open meanwhile.     *)
MutexInv ==
    /\ \A o \in Ops : pc[o] = "allocate" <=> roundTripMux = o
    /\ roundTripMux # NoOp => ~roundTripsClosed
    /\ \A k \in Counters : roundTripsClosed => pendingRoundTrips[k] = NoOp

(* A pending operation is filed under its own key; keys belong to calls    *)
(* that got past registration; a key is pending or covered.                *)
KeyInv ==
    /\ \A k \in Counters : pendingRoundTrips[k] # NoOp =>
          k # 0 /\ key[pendingRoundTrips[k]] = k
    /\ \A o \in Ops : pc[o] \in {"idle", "register", "allocate"} => ~Registered(o)
    /\ \A o \in Ops : pc[o] \in InProgress => Registered(o)
    /\ PendingOrRetired
    /\ KeysUnique

(* What is about to be sent on a channel is an outcome, to an operation.   *)
OutcomeInv ==
    /\ \A r \in Readers : reader[r].pc \in {"settle", "deliver"} =>
          reader[r].outcome # NoOutcome
    /\ \A r \in Readers : reader[r].pc = "deliver" => reader[r].op \in Ops
    /\ \A o \in Ops : pc[o] \in {"failed", "selfSend"} => ret[o] # NoOutcome

(* OneHolder, holder by holder.                                            *)
IsPending(o)    == pendingRoundTrips[key[o]] = o
IsDelivering(r, o) == reader[r].pc = "deliver" /\ reader[r].op = o
HolderOf(o) ==
      /\ IsPending(o) => /\ pc[o] \in InProgress \ {"selfSend", "drain"}
                         /\ result[o] = NoOutcome
                         /\ \A r \in Readers : ~IsDelivering(r, o)
                         /\ \A c \in Closers : o \notin retired[c]
      /\ \A r \in Readers : IsDelivering(r, o) =>
            /\ Registered(o)
            /\ pc[o] # "selfSend"
            /\ result[o] = NoOutcome
            /\ \A q \in Readers : IsDelivering(q, o) => q = r
            /\ \A c \in Closers : o \notin retired[c]
      /\ \A c \in Closers : o \in retired[c] =>
            /\ Registered(o)
            /\ pc[o] # "selfSend"
            /\ result[o] = NoOutcome
            /\ \A d \in Closers : o \in retired[d] => d = c
      /\ result[o] # NoOutcome => Registered(o) /\ pc[o] # "selfSend"
      /\ pc[o] \in InProgress =>
            \/ IsPending(o)
            \/ \E r \in Readers : IsDelivering(r, o)
            \/ \E c \in Closers : o \in retired[c]
            \/ pc[o] = "selfSend"
            \/ result[o] # NoOutcome
HolderInv == \A o \in Ops : HolderOf(o)

IInv == TypeOK /\ MutexInv /\ KeyInv /\ OutcomeInv /\ HolderInv

-----------------------------------------------------------------------------
USE DEF registry, flags, counter, call, KeepAllButReader, Unlocked

(* Sets of counters are finite, so they can be counted.                    *)
LEMMA CountersFinite ==
    ASSUME NEW S \in SUBSET Counters
    PROVE  IsFiniteSet(S) /\ Cardinality(S) \in Nat
<1>1. IsFiniteSet(Counters)
  BY LimitsAssumption, FS_Interval DEF Counters
<1> QED
  BY <1>1, FS_Subset, FS_CardinalityType

(* Retiring keys keeps the watermark a counter and the tombstones bounded, *)
(* and covers the keys and all that was covered.                           *)
LEMMA RetireType ==
    ASSUME TypeOK, NEW keys \in SUBSET Counters, retireCorrelatedKeysLocked(keys)
    PROVE  /\ retiredHighWatermark' \in Counters
           /\ tombstones' \in 0..TombstoneCapacity
           /\ retiredHighWatermark <= retiredHighWatermark'
           /\ \A k \in keys : k <= retiredHighWatermark'
<1>1. Cardinality(keys) \in Nat
  BY CountersFinite
<1>2. tombstones' \in 0..TombstoneCapacity
  BY <1>1, LimitsAssumption DEF TypeOK, retireCorrelatedKeysLocked, Count
<1> QED
  BY <1>2 DEF TypeOK, retireCorrelatedKeysLocked

LEMMA FinishType ==
    ASSUME TypeOK, NEW k \in Counters, finishPending(k)
    PROVE  /\ pendingRoundTrips' \in [Counters -> Ops \cup {NoOp}]
           /\ retiredHighWatermark' \in Counters
           /\ tombstones' \in 0..TombstoneCapacity
           /\ retiredHighWatermark <= retiredHighWatermark'
           /\ k <= retiredHighWatermark'
<1>1. retireCorrelatedKeysLocked({k}) /\ {k} \in SUBSET Counters
  BY DEF finishPending
<1>2. pendingRoundTrips' \in [Counters -> Ops \cup {NoOp}]
  BY DEF finishPending, TypeOK
<1> QED
  BY <1>1, <1>2, RetireType

LEMMA OutcomeTypes ==
    /\ NoMessage \in Messages
    /\ \A t \in Tags : Failure(t) \in Outcomes
    /\ NoOutcome \in Outcomes
    /\ IdleReader \in ReaderStates
    /\ \A t \in Tags, m \in Messages : Answer(t, m) \in Outcomes
    /\ \A m \in Messages, req \in RequestType, err \in BOOLEAN :
          classifyCorrelatedResponse(m, req, err) \in Outcomes
<1>1. NoMessage \in Messages
  BY LimitsAssumption DEF NoMessage, Messages, Counters, Kinds
<1>2. \A t \in Tags, m \in Messages : Answer(t, m) \in Outcomes
  BY DEF Answer, Outcomes
<1>3. \A t \in Tags : Failure(t) \in Outcomes
  BY <1>1 DEF Failure, Outcomes
<1>4. NoOutcome \in Outcomes
  BY <1>3 DEF NoOutcome, Tags
<1>5. IdleReader \in ReaderStates
  BY <1>1, <1>4 DEF IdleReader, ReaderStates, ReaderPlaces
<1>6. ASSUME NEW m \in Messages, NEW req \in RequestType, NEW err \in BOOLEAN
      PROVE  classifyCorrelatedResponse(m, req, err) \in Outcomes
  BY <1>2, <1>3, <1>4 DEF classifyCorrelatedResponse, Tags
<1> QED
  BY <1>1, <1>2, <1>3, <1>4, <1>5, <1>6

(* The records a reader's steps produce.                                   *)
LEMMA ReaderPc ==
    ASSUME NEW s \in ReaderStates, NEW p \in ReaderPlaces
    PROVE  [s EXCEPT !.pc = p] \in ReaderStates
BY DEF ReaderStates

LEMMA ReaderMsg ==
    ASSUME NEW s \in ReaderStates, NEW p \in ReaderPlaces, NEW m \in Messages
    PROVE  [s EXCEPT !.pc = p, !.msg = m] \in ReaderStates
BY DEF ReaderStates

LEMMA ReaderErr ==
    ASSUME NEW s \in ReaderStates, NEW p \in ReaderPlaces, NEW e \in BOOLEAN
    PROVE  [s EXCEPT !.pc = p, !.processErr = e] \in ReaderStates
BY DEF ReaderStates

LEMMA ReaderOutcome ==
    ASSUME NEW s \in ReaderStates, NEW p \in ReaderPlaces, NEW x \in Outcomes
    PROVE  /\ [s EXCEPT !.pc = p, !.outcome = x] \in ReaderStates
           /\ [s EXCEPT !.pc = p, !.outcome = x, !.processErr = FALSE] \in ReaderStates
BY DEF ReaderStates

LEMMA ReaderOp ==
    ASSUME NEW s \in ReaderStates, NEW p \in ReaderPlaces, NEW o \in Ops
    PROVE  [s EXCEPT !.pc = p, !.op = o] \in ReaderStates
BY DEF ReaderStates

LEMMA ReaderType ==
    ASSUME TypeOK, NEW r \in Readers, NEW s \in ReaderStates, ReaderGoes(r, s)
    PROVE  reader' \in [Readers -> ReaderStates]
BY DEF TypeOK, ReaderGoes

LEMMA TypeOKInit == Init => TypeOK
<1> SUFFICES ASSUME Init PROVE TypeOK
  OBVIOUS
<1>1. msgNum \in Counters /\ retiredHighWatermark \in Counters /\ tombstones \in 0..TombstoneCapacity
  BY LimitsAssumption DEF Init, Counters
<1> QED
  BY <1>1, OutcomeTypes, RequestsAssumption, LimitsAssumption
     DEF Init, TypeOK, Places, Counters, IdleSender

(* Every step keeps the types.                                             *)
LEMMA TypeOKStep == TypeOK /\ [Next]_vars => TypeOK'
<1> SUFFICES ASSUME TypeOK, [Next]_vars PROVE TypeOK'
  OBVIOUS
<1> USE LimitsAssumption
<1>p. /\ "prepare" \in ReaderPlaces /\ "malformed" \in ReaderPlaces
      /\ "process" \in ReaderPlaces /\ "complete" \in ReaderPlaces
      /\ "settle" \in ReaderPlaces /\ "deliver" \in ReaderPlaces
  BY DEF ReaderPlaces
<1>i. IdleReader \in ReaderStates
  BY OutcomeTypes
<1>r. \A r \in Readers : reader[r] \in ReaderStates /\ reader[r].msg \in Messages
                        /\ reader[r].processErr \in BOOLEAN /\ reader[r].msg.ref \in Counters
  BY DEF TypeOK, ReaderStates, Messages
<1>f. \A t \in Tags : Failure(t) \in Outcomes
  BY OutcomeTypes
<1>1. ASSUME NEW o \in Ops, RoundTripStart(o) PROVE TypeOK'
  BY <1>1, <1>f DEF RoundTripStart, TypeOK, Goto, Return, Places, Tags
<1>2. ASSUME NEW o \in Ops, registerCorrelatedRoundTrip(o) PROVE TypeOK'
  <2>1. /\ "done" \in Places /\ "allocate" \in Places
        /\ Failure("closed") \in Outcomes /\ Failure("capacity") \in Outcomes
        /\ Failure("exhausted") \in Outcomes
    BY <1>f DEF Places, Tags
  <2>2. roundTripMux' \in Ops \cup {NoOp} /\ roundTripExhausted' \in BOOLEAN
    BY <1>2 DEF registerCorrelatedRoundTrip, TypeOK
  <2>3. pc' \in [Ops -> Places] /\ ret' \in [Ops -> Outcomes]
    <3>1. pc \in [Ops -> Places] /\ ret \in [Ops -> Outcomes]
      BY DEF TypeOK
    <3> QED
      BY <1>2, <2>1, <3>1 DEF registerCorrelatedRoundTrip, Goto, Return
  <2> QED
    BY <1>2, <2>2, <2>3 DEF registerCorrelatedRoundTrip, TypeOK
<1>3. ASSUME NEW o \in Ops, allocateKey(o) PROVE TypeOK'
  <2>1. /\ "done" \in Places /\ "admit" \in Places
        /\ Failure("exhausted") \in Outcomes /\ Failure("inFlight") \in Outcomes
        /\ Failure("retired") \in Outcomes
    BY <1>f DEF Places, Tags
  <2>2. msgNum < MaxCounter => msgNum + 1 \in Counters
    BY DEF TypeOK, Counters
  <2>3. pc' \in [Ops -> Places] /\ ret' \in [Ops -> Outcomes]
    <3>1. pc \in [Ops -> Places] /\ ret \in [Ops -> Outcomes]
      BY DEF TypeOK
    <3> QED
      BY <1>3, <2>1, <3>1 DEF allocateKey, Goto, Return
  <2>4. msgNum' \in Counters /\ roundTripExhausted' \in BOOLEAN
    BY <1>3, <2>2 DEF allocateKey, TypeOK
  <2>5. key' \in [Ops -> Counters]
    BY <1>3, <2>2 DEF allocateKey, TypeOK
  <2>6. pendingRoundTrips' \in [Counters -> Ops \cup {NoOp}]
    BY <1>3, <2>2 DEF allocateKey, TypeOK
  <2> QED
    BY <1>3, <2>3, <2>4, <2>5, <2>6 DEF allocateKey, TypeOK
<1>4. ASSUME NEW o \in Ops, admitSpineSend(o) PROVE TypeOK'
  BY <1>4, <1>f DEF admitSpineSend, TypeOK, Goto, Return, Places, Tags,
     SendFails
<1>5. ASSUME NEW o \in Ops, encodeFails(o) PROVE TypeOK'
  BY <1>5, <1>f DEF encodeFails, TypeOK, Goto, Return, Places, Tags, SendFails
<1>6. ASSUME NEW o \in Ops, admitCorrelatedTransportHandoff(o) PROVE TypeOK'
  BY <1>6, <1>f DEF admitCorrelatedTransportHandoff, TypeOK, Goto, Return,
     Places, Tags, SendFails
<1>7. ASSUME NEW o \in Ops, writeShipMessage(o) PROVE TypeOK'
  BY <1>7 DEF writeShipMessage, TypeOK, Goto, Return, Places, Tags
<1>8. ASSUME NEW o \in Ops, finishSpineSend(o) PROVE TypeOK'
  BY <1>8, <1>f DEF finishSpineSend, TypeOK, Goto, Return, Places, Tags,
     SendFails
<1>9. ASSUME NEW o \in Ops, contextDone(o) PROVE TypeOK'
  BY <1>9, <1>f DEF contextDone, TypeOK, Goto, Return, Places, Tags, SendFails
<1>10. ASSUME NEW o \in Ops, abandon(o) PROVE TypeOK'
  BY <1>10, FinishType DEF abandon, TypeOK, Goto, Return, Places, Tags
<1>11. ASSUME NEW o \in Ops, sendToSelf(o) PROVE TypeOK'
  BY <1>11 DEF sendToSelf, TypeOK, Goto, Return, Places, Tags, Send
<1>12. ASSUME NEW o \in Ops, receiveOutcome(o) PROVE TypeOK'
  BY <1>12, OutcomeTypes DEF receiveOutcome, TypeOK, Goto, Return, Places, Tags
<1>13. ASSUME NEW o \in Ops, cancelContext(o) PROVE TypeOK'
  BY <1>13 DEF cancelContext, TypeOK
<1>14. ASSUME NEW c \in Closers, Close(c) PROVE TypeOK'
  BY <1>14, RetireType DEF Close, TypeOK, PendingKeys, PendingOps
<1>15. ASSUME NEW c \in Closers, tellRetired(c) PROVE TypeOK'
  BY <1>15, <1>f DEF tellRetired, TypeOK, Send, Tags
<1>16. ASSUME NEW s \in Senders, loadMsgNum(s) PROVE TypeOK'
  BY <1>16 DEF loadMsgNum, TypeOK
<1>17. ASSUME NEW s \in Senders, swapMsgNum(s) PROVE TypeOK'
  BY <1>17 DEF swapMsgNum, TypeOK, Counters
<1>18. ASSUME NEW r \in Readers, admitIncomingSpineMessage(r) PROVE TypeOK'
  <2>1. \E s \in ReaderStates : ReaderGoes(r, s)
    BY <1>18, <1>p, <1>i, <1>r, ReaderMsg, IncomingAssumption DEF
       admitIncomingSpineMessage
  <2>2. reader' \in [Readers -> ReaderStates]
    BY <2>1, ReaderType
  <2> QED
    BY <1>18, <2>2 DEF admitIncomingSpineMessage, TypeOK
<1>19. ASSUME NEW r \in Readers, prepareCorrelatedResponse(r) PROVE TypeOK'
  <2>1. \E s \in ReaderStates : ReaderGoes(r, s)
    BY <1>19, <1>p, <1>i, <1>r, ReaderPc DEF prepareCorrelatedResponse
  <2>2. reader' \in [Readers -> ReaderStates]
    BY <2>1, ReaderType
  <2> QED
    BY <1>19, <2>2 DEF prepareCorrelatedResponse, TypeOK
<1>20. ASSUME NEW r \in Readers, ProcessCmd(r) PROVE TypeOK'
  <2>1. \E s \in ReaderStates : ReaderGoes(r, s)
    BY <1>20, <1>p, <1>i, <1>r, ReaderErr DEF ProcessCmd
  <2>2. reader' \in [Readers -> ReaderStates]
    BY <2>1, ReaderType
  <2> QED
    BY <1>20, <2>2 DEF ProcessCmd, TypeOK
<1>21. ASSUME NEW r \in Readers, completeCorrelatedResponse(r) PROVE TypeOK'
  <2> DEFINE m == reader[r].msg
             op == pendingRoundTrips[m.ref]
             outcome == classifyCorrelatedResponse(m, request[op], reader[r].processErr)
  <2>1. op # NoOp => outcome \in Outcomes
    BY <1>r, OutcomeTypes DEF TypeOK
  <2>2. \/ ReaderGoes(r, IdleReader)
        \/ /\ outcome \in Outcomes
           /\ ReaderGoes(r, [reader[r] EXCEPT !.pc = "settle", !.outcome = outcome,
                                              !.processErr = FALSE])
    BY <1>21, <2>1 DEF completeCorrelatedResponse, ReaderReturns
  <2> HIDE DEF outcome
  <2>3. reader' \in [Readers -> ReaderStates]
    BY <2>2, <1>p, <1>i, <1>r, ReaderOutcome, ReaderType
  <2> QED
    BY <1>21, <2>3 DEF completeCorrelatedResponse, TypeOK
<1>22. ASSUME NEW r \in Readers, completeMalformedCorrelatedResponse(r) PROVE TypeOK'
  <2>1. Failure("protocol") \in Outcomes
    BY <1>f DEF Tags
  <2>2. \/ ReaderGoes(r, IdleReader)
        \/ ReaderGoes(r, [reader[r] EXCEPT !.pc = "settle", !.outcome = Failure("protocol")])
    BY <1>22 DEF completeMalformedCorrelatedResponse, ReaderReturns
  <2>3. reader' \in [Readers -> ReaderStates]
    BY <2>1, <2>2, <1>p, <1>i, <1>r, ReaderOutcome, ReaderType
  <2> QED
    BY <1>22, <2>3 DEF completeMalformedCorrelatedResponse, TypeOK
<1>23. ASSUME NEW r \in Readers, settle(r) PROVE TypeOK'
  <2>1. CASE UNCHANGED registry /\ ReaderReturns(r)
    <3>1. reader' \in [Readers -> ReaderStates]
      BY <2>1, <1>i, ReaderType DEF ReaderReturns
    <3> QED
      BY <1>23, <2>1, <3>1 DEF settle, TypeOK
  <2>2. CASE \E op \in Ops : /\ finishPending(reader[r].msg.ref)
                             /\ ReaderGoes(r, [reader[r] EXCEPT !.pc = "deliver", !.op = op])
    <3>1. reader' \in [Readers -> ReaderStates]
      BY <2>2, <1>p, <1>r, ReaderOp, ReaderType
    <3> QED
      BY <1>23, <2>2, <3>1, <1>r, FinishType DEF settle, TypeOK
  <2>3. pendingRoundTrips[reader[r].msg.ref] \in Ops \cup {NoOp}
    BY <1>r DEF TypeOK
  <2> QED
    BY <1>23, <2>1, <2>2, <2>3 DEF settle
<1>24. ASSUME NEW r \in Readers, deliver(r) PROVE TypeOK'
  <2>1. reader' \in [Readers -> ReaderStates]
    BY <1>24, <1>i, ReaderType DEF deliver, ReaderReturns
  <2>2. reader[r].outcome \in Outcomes
    BY <1>r DEF ReaderStates
  <2> QED
    BY <1>24, <2>1, <2>2 DEF deliver, Send, TypeOK
<1>25. CASE UNCHANGED vars
  BY <1>25 DEF TypeOK, vars
<1> QED
  BY <1>1, <1>2, <1>3, <1>4, <1>5, <1>6, <1>7, <1>8, <1>9, <1>10, <1>11, <1>12,
     <1>13, <1>14, <1>15, <1>16, <1>17, <1>18, <1>19, <1>20, <1>21, <1>22,
     <1>23, <1>24, <1>25 DEF Next, CallStep, ReaderStep
(* In every reachable state the variables have their types.                *)
THEOREM TypeCorrect == Spec => []TypeOK
<1> QED
  BY TypeOKInit, TypeOKStep, PTL DEF Spec

-----------------------------------------------------------------------------
LEMMA InvInit == Init => MutexInv /\ KeyInv /\ OutcomeInv /\ HolderInv
<1> SUFFICES ASSUME Init PROVE MutexInv /\ KeyInv /\ OutcomeInv /\ HolderInv
  OBVIOUS
<1> USE NamesAssumption
<1>k. 0 \in Counters
  BY LimitsAssumption DEF Counters
<1>1. MutexInv
  BY <1>k DEF Init, MutexInv
<1>2. KeyInv
  BY <1>k DEF Init, KeyInv, PendingOrRetired, KeysUnique, Registered, InProgress
<1>3. OutcomeInv
  BY DEF Init, OutcomeInv, IdleReader
<1>4. HolderInv
  BY <1>k DEF Init, HolderInv, HolderOf, IsPending, IsDelivering, Registered,
     InProgress, IdleReader
<1> QED
  BY <1>1, <1>2, <1>3, <1>4

(* Every step keeps the mutex discipline.                                  *)
LEMMA MutexStep ==
    ASSUME TypeOK, MutexInv, [Next]_vars
    PROVE  MutexInv'
<1> USE NamesAssumption
<1>t. /\ pc \in [Ops -> Places]
      /\ pendingRoundTrips \in [Counters -> Ops \cup {NoOp}]
  BY DEF TypeOK
<1>1. ASSUME NEW o \in Ops, RoundTripStart(o) PROVE MutexInv'
  BY <1>1, <1>t DEF RoundTripStart, Goto, Return, MutexInv
<1>2. ASSUME NEW o \in Ops, registerCorrelatedRoundTrip(o) PROVE MutexInv'
  BY <1>2, <1>t DEF registerCorrelatedRoundTrip, Goto, Return, MutexInv
<1>3. ASSUME NEW o \in Ops, allocateKey(o) PROVE MutexInv'
  BY <1>3, <1>t DEF allocateKey, Goto, Return, MutexInv
<1>4. ASSUME NEW o \in Ops, admitSpineSend(o) PROVE MutexInv'
  BY <1>4, <1>t DEF admitSpineSend, Goto, SendFails, MutexInv
<1>5. ASSUME NEW o \in Ops, encodeFails(o) PROVE MutexInv'
  BY <1>5, <1>t DEF encodeFails, Goto, SendFails, MutexInv
<1>6. ASSUME NEW o \in Ops, admitCorrelatedTransportHandoff(o) PROVE MutexInv'
  BY <1>6, <1>t DEF admitCorrelatedTransportHandoff, Goto, SendFails, MutexInv
<1>7. ASSUME NEW o \in Ops, writeShipMessage(o) PROVE MutexInv'
  BY <1>7, <1>t DEF writeShipMessage, Goto, MutexInv
<1>8. ASSUME NEW o \in Ops, finishSpineSend(o) PROVE MutexInv'
  BY <1>8, <1>t DEF finishSpineSend, Goto, SendFails, MutexInv
<1>9. ASSUME NEW o \in Ops, contextDone(o) PROVE MutexInv'
  BY <1>9, <1>t DEF contextDone, Goto, SendFails, MutexInv
<1>10. ASSUME NEW o \in Ops, abandon(o) PROVE MutexInv'
  BY <1>10, <1>t DEF abandon, Goto, finishPending, MutexInv
<1>11. ASSUME NEW o \in Ops, sendToSelf(o) PROVE MutexInv'
  BY <1>11, <1>t DEF sendToSelf, Goto, Send, MutexInv
<1>12. ASSUME NEW o \in Ops, receiveOutcome(o) PROVE MutexInv'
  BY <1>12, <1>t DEF receiveOutcome, Goto, Return, MutexInv
<1>13. ASSUME NEW o \in Ops, cancelContext(o) PROVE MutexInv'
  BY <1>13, <1>t DEF cancelContext, MutexInv
<1>14. ASSUME NEW c \in Closers, Close(c) PROVE MutexInv'
  BY <1>14, <1>t DEF Close, PendingKeys, PendingOps, MutexInv
<1>15. ASSUME NEW c \in Closers, tellRetired(c) PROVE MutexInv'
  BY <1>15, <1>t DEF tellRetired, Send, MutexInv
<1>16. ASSUME NEW s \in Senders, loadMsgNum(s) PROVE MutexInv'
  BY <1>16, <1>t DEF loadMsgNum, MutexInv
<1>17. ASSUME NEW s \in Senders, swapMsgNum(s) PROVE MutexInv'
  BY <1>17, <1>t DEF swapMsgNum, MutexInv
<1>18. ASSUME NEW r \in Readers, admitIncomingSpineMessage(r) PROVE MutexInv'
  BY <1>18, <1>t DEF admitIncomingSpineMessage, ReaderReturns, ReaderGoes,
     MutexInv
<1>19. ASSUME NEW r \in Readers, prepareCorrelatedResponse(r) PROVE MutexInv'
  BY <1>19, <1>t DEF prepareCorrelatedResponse, ReaderReturns, ReaderGoes,
     MutexInv
<1>20. ASSUME NEW r \in Readers, ProcessCmd(r) PROVE MutexInv'
  BY <1>20, <1>t DEF ProcessCmd, ReaderReturns, ReaderGoes, MutexInv
<1>21. ASSUME NEW r \in Readers, completeCorrelatedResponse(r) PROVE MutexInv'
  BY <1>21, <1>t DEF completeCorrelatedResponse, ReaderReturns, ReaderGoes,
     MutexInv
<1>22. ASSUME NEW r \in Readers, completeMalformedCorrelatedResponse(r) PROVE MutexInv'
  BY <1>22, <1>t DEF completeMalformedCorrelatedResponse, ReaderReturns,
     ReaderGoes, MutexInv
<1>23. ASSUME NEW r \in Readers, settle(r) PROVE MutexInv'
  BY <1>23, <1>t DEF settle, finishPending, ReaderReturns, ReaderGoes, MutexInv
<1>24. ASSUME NEW r \in Readers, deliver(r) PROVE MutexInv'
  BY <1>24, <1>t DEF deliver, Send, ReaderReturns, ReaderGoes, MutexInv
<1>25. CASE UNCHANGED vars
  BY <1>25 DEF vars, MutexInv
<1> QED
  BY <1>1, <1>2, <1>3, <1>4, <1>5, <1>6, <1>7, <1>8, <1>9, <1>10, <1>11, <1>12,
     <1>13, <1>14, <1>15, <1>16, <1>17, <1>18, <1>19, <1>20, <1>21, <1>22,
     <1>23, <1>24, <1>25 DEF Next, CallStep, ReaderStep

(* Every step keeps the keys in order: this is where the watermark and the *)
(* look at the pending table make up for a counter that wrapped.           *)
LEMMA KeyStep ==
    ASSUME TypeOK, KeyInv, [Next]_vars
    PROVE  KeyInv'
<1> USE NamesAssumption
<1>t. /\ pc \in [Ops -> Places]
      /\ pendingRoundTrips \in [Counters -> Ops \cup {NoOp}]
      /\ key \in [Ops -> Counters]
      /\ retiredHighWatermark \in Counters
      /\ Counters \in SUBSET Nat
  BY DEF TypeOK, Counters
<1>1. ASSUME NEW o \in Ops, RoundTripStart(o) PROVE KeyInv'
  BY <1>1, <1>t DEF RoundTripStart, Goto, Return, KeyInv, PendingOrRetired,
     KeysUnique, Registered, InProgress
<1>2. ASSUME NEW o \in Ops, registerCorrelatedRoundTrip(o) PROVE KeyInv'
  BY <1>2, <1>t DEF registerCorrelatedRoundTrip, Goto, Return, KeyInv,
     PendingOrRetired, KeysUnique, Registered, InProgress
<1>3. ASSUME NEW o \in Ops, allocateKey(o) PROVE KeyInv'
  <2>1. CASE pc'[o] = "done" /\ UNCHANGED <<pendingRoundTrips, key>>
    BY <1>3, <2>1, <1>t DEF allocateKey, Goto, Return, KeyInv, PendingOrRetired,
       KeysUnique, Registered, InProgress
  <2>2. CASE /\ msgNum < MaxCounter
             /\ pendingRoundTrips[msgNum + 1] = NoOp
             /\ msgNum + 1 > retiredHighWatermark
             /\ pendingRoundTrips' = [pendingRoundTrips EXCEPT ![msgNum + 1] = o]
             /\ key' = [key EXCEPT ![o] = msgNum + 1]
             /\ Goto(o, "admit")
    <3>1. msgNum + 1 \in Counters /\ msgNum + 1 # 0
      BY <2>2, LimitsAssumption DEF TypeOK, Counters
    <3>2. ~Registered(o)
      BY <1>3 DEF allocateKey, KeyInv
    <3>3. ASSUME NEW p \in Ops, key[p] = msgNum + 1 PROVE FALSE
      <4>1. pendingRoundTrips[key[p]] = p \/ key[p] <= retiredHighWatermark
        BY <3>1, <3>3 DEF KeyInv, PendingOrRetired, Registered
      <4>2. msgNum \in Nat
        BY <1>t DEF TypeOK
      <4> QED
        BY <2>2, <3>3, <4>1, <4>2, <1>t
    <3> QED
      BY <1>3, <2>2, <3>1, <3>2, <3>3, <1>t DEF allocateKey, Goto, KeyInv,
         PendingOrRetired, KeysUnique, Registered, InProgress
  <2> QED
    BY <1>3, <2>1, <2>2, <1>t DEF allocateKey, Goto, Return
<1>4. ASSUME NEW o \in Ops, admitSpineSend(o) PROVE KeyInv'
  BY <1>4, <1>t DEF admitSpineSend, Goto, SendFails, KeyInv, PendingOrRetired,
     KeysUnique, Registered, InProgress
<1>5. ASSUME NEW o \in Ops, encodeFails(o) PROVE KeyInv'
  BY <1>5, <1>t DEF encodeFails, Goto, SendFails, KeyInv, PendingOrRetired,
     KeysUnique, Registered, InProgress
<1>6. ASSUME NEW o \in Ops, admitCorrelatedTransportHandoff(o) PROVE KeyInv'
  BY <1>6, <1>t DEF admitCorrelatedTransportHandoff, Goto, SendFails, KeyInv,
     PendingOrRetired, KeysUnique, Registered, InProgress
<1>7. ASSUME NEW o \in Ops, writeShipMessage(o) PROVE KeyInv'
  BY <1>7, <1>t DEF writeShipMessage, Goto, KeyInv, PendingOrRetired,
     KeysUnique, Registered, InProgress
<1>8. ASSUME NEW o \in Ops, finishSpineSend(o) PROVE KeyInv'
  BY <1>8, <1>t DEF finishSpineSend, Goto, SendFails, KeyInv, PendingOrRetired,
     KeysUnique, Registered, InProgress
<1>9. ASSUME NEW o \in Ops, contextDone(o) PROVE KeyInv'
  BY <1>9, <1>t DEF contextDone, Goto, SendFails, KeyInv, PendingOrRetired,
     KeysUnique, Registered, InProgress
<1>10. ASSUME NEW o \in Ops, abandon(o) PROVE KeyInv'
  <2>1. key[o] \in Counters
    BY <1>t
  <2>2. CASE finishPending(key[o])
    <3>1. /\ retiredHighWatermark' \in Counters
          /\ retiredHighWatermark <= retiredHighWatermark'
          /\ key[o] <= retiredHighWatermark'
      BY <2>1, <2>2, FinishType
    <3>2. /\ pendingRoundTrips' = [pendingRoundTrips EXCEPT ![key[o]] = NoOp]
          /\ key' = key
          /\ pc[o] = "failed"
          /\ pc' = [pc EXCEPT ![o] = "selfSend"] \/ pc' = [pc EXCEPT ![o] = "drain"]
      BY <1>10, <2>2 DEF abandon, Goto, finishPending
    <3>3. ASSUME NEW p \in Ops, key[p] # 0
          PROVE  pendingRoundTrips'[key[p]] = p \/ key[p] <= retiredHighWatermark'
      <4>1. pendingRoundTrips[key[p]] = p \/ key[p] <= retiredHighWatermark
        BY <3>3 DEF KeyInv, PendingOrRetired, Registered
      <4>2. /\ key[p] \in Nat /\ retiredHighWatermark \in Nat
            /\ retiredHighWatermark' \in Nat /\ key[p] \in Counters
        BY <3>1, <1>t
      <4> QED
        BY <2>1, <3>1, <3>2, <4>1, <4>2, <1>t
    <3> QED
      BY <2>1, <3>2, <3>3, <1>t DEF KeyInv, PendingOrRetired, KeysUnique,
         Registered, InProgress
  <2>3. CASE UNCHANGED registry
    BY <1>10, <2>3, <1>t DEF abandon, Goto, KeyInv, PendingOrRetired,
       KeysUnique, Registered, InProgress
  <2> QED
    BY <1>10, <2>2, <2>3 DEF abandon
<1>11. ASSUME NEW o \in Ops, sendToSelf(o) PROVE KeyInv'
  BY <1>11, <1>t DEF sendToSelf, Goto, Send, KeyInv, PendingOrRetired,
     KeysUnique, Registered, InProgress
<1>12. ASSUME NEW o \in Ops, receiveOutcome(o) PROVE KeyInv'
  BY <1>12, <1>t DEF receiveOutcome, Goto, Return, KeyInv, PendingOrRetired,
     KeysUnique, Registered, InProgress
<1>13. ASSUME NEW o \in Ops, cancelContext(o) PROVE KeyInv'
  BY <1>13, <1>t DEF cancelContext, KeyInv, PendingOrRetired, KeysUnique,
     Registered, InProgress
<1>14. ASSUME NEW c \in Closers, Close(c) PROVE KeyInv'
  <2>1. PendingKeys \in SUBSET Counters
    BY DEF PendingKeys
  <2>2. /\ retiredHighWatermark' \in Counters
        /\ retiredHighWatermark <= retiredHighWatermark'
        /\ \A k \in PendingKeys : k <= retiredHighWatermark'
    BY <1>14, <2>1, RetireType DEF Close
  <2>3. \A k \in Counters : pendingRoundTrips'[k] = NoOp
    BY <1>14 DEF Close
  <2>4. ASSUME NEW p \in Ops, Registered(p) PROVE key[p] <= retiredHighWatermark'
    <3>1. key[p] \in PendingKeys \/ key[p] <= retiredHighWatermark
      BY <2>4, <1>t DEF KeyInv, PendingOrRetired, PendingKeys
    <3>2. /\ key[p] \in Nat /\ retiredHighWatermark \in Nat
          /\ retiredHighWatermark' \in Nat
      BY <2>2, <1>t
    <3> QED
      BY <2>2, <3>1, <3>2
  <2> QED
    BY <1>14, <2>3, <2>4, <1>t DEF Close, KeyInv, PendingOrRetired, KeysUnique,
       Registered, InProgress
<1>15. ASSUME NEW c \in Closers, tellRetired(c) PROVE KeyInv'
  BY <1>15, <1>t DEF tellRetired, Send, KeyInv, PendingOrRetired, KeysUnique,
     Registered, InProgress
<1>16. ASSUME NEW s \in Senders, loadMsgNum(s) PROVE KeyInv'
  BY <1>16, <1>t DEF loadMsgNum, KeyInv, PendingOrRetired, KeysUnique,
     Registered, InProgress
<1>17. ASSUME NEW s \in Senders, swapMsgNum(s) PROVE KeyInv'
  BY <1>17, <1>t DEF swapMsgNum, KeyInv, PendingOrRetired, KeysUnique,
     Registered, InProgress
<1>18. ASSUME NEW r \in Readers, admitIncomingSpineMessage(r) PROVE KeyInv'
  BY <1>18, <1>t DEF admitIncomingSpineMessage, ReaderReturns, ReaderGoes,
     KeyInv, PendingOrRetired, KeysUnique, Registered, InProgress
<1>19. ASSUME NEW r \in Readers, prepareCorrelatedResponse(r) PROVE KeyInv'
  BY <1>19, <1>t DEF prepareCorrelatedResponse, ReaderReturns, ReaderGoes,
     KeyInv, PendingOrRetired, KeysUnique, Registered, InProgress
<1>20. ASSUME NEW r \in Readers, ProcessCmd(r) PROVE KeyInv'
  BY <1>20, <1>t DEF ProcessCmd, ReaderReturns, ReaderGoes, KeyInv,
     PendingOrRetired, KeysUnique, Registered, InProgress
<1>21. ASSUME NEW r \in Readers, completeCorrelatedResponse(r) PROVE KeyInv'
  BY <1>21, <1>t DEF completeCorrelatedResponse, ReaderReturns, ReaderGoes,
     KeyInv, PendingOrRetired, KeysUnique, Registered, InProgress
<1>22. ASSUME NEW r \in Readers, completeMalformedCorrelatedResponse(r) PROVE KeyInv'
  BY <1>22, <1>t DEF completeMalformedCorrelatedResponse, ReaderReturns,
     ReaderGoes, KeyInv, PendingOrRetired, KeysUnique, Registered, InProgress
<1>23. ASSUME NEW r \in Readers, settle(r) PROVE KeyInv'
  <2>1. reader[r].msg.ref \in Counters
    BY DEF TypeOK, ReaderStates, Messages
  <2>2. CASE finishPending(reader[r].msg.ref)
    <3>1. /\ retiredHighWatermark' \in Counters
          /\ retiredHighWatermark <= retiredHighWatermark'
          /\ reader[r].msg.ref <= retiredHighWatermark'
      BY <2>1, <2>2, FinishType
    <3> QED
      BY <1>23, <2>1, <2>2, <3>1, <1>t DEF settle, finishPending, KeyInv,
         PendingOrRetired, KeysUnique, Registered, InProgress
  <2>3. CASE UNCHANGED registry
    BY <1>23, <2>3, <1>t DEF settle, KeyInv, PendingOrRetired, KeysUnique,
       Registered, InProgress
  <2> QED
    BY <1>23, <2>2, <2>3 DEF settle
<1>24. ASSUME NEW r \in Readers, deliver(r) PROVE KeyInv'
  BY <1>24, <1>t DEF deliver, Send, ReaderReturns, ReaderGoes, KeyInv,
     PendingOrRetired, KeysUnique, Registered, InProgress
<1>25. CASE UNCHANGED vars
  BY <1>25 DEF vars, KeyInv, PendingOrRetired, KeysUnique, Registered,
     InProgress
<1> QED
  BY <1>1, <1>2, <1>3, <1>4, <1>5, <1>6, <1>7, <1>8, <1>9, <1>10, <1>11, <1>12,
     <1>13, <1>14, <1>15, <1>16, <1>17, <1>18, <1>19, <1>20, <1>21, <1>22,
     <1>23, <1>24, <1>25 DEF Next, CallStep, ReaderStep

(* What becomes of the readers when one of them goes to a new state.       *)
LEMMA ReaderAt ==
    ASSUME reader \in [Readers -> ReaderStates], NEW r \in Readers, NEW s,
           ReaderGoes(r, s)
    PROVE  reader'[r] = s /\ \A q \in Readers \ {r} : reader'[q] = reader[q]
BY DEF ReaderGoes

(* What each step of a reader does to its record.                          *)
LEMMA ReaderMoves ==
    ASSUME TypeOK, NEW r \in Readers,
           admitIncomingSpineMessage(r) \/ ReaderStep(r)
    PROVE  /\ \A q \in Readers \ {r} : reader'[q] = reader[q]
           /\ \/ reader'[r].pc \in {"idle", "prepare", "malformed", "process", "complete"}
              \/ /\ reader[r].pc \in {"complete", "malformed"}
                 /\ reader'[r].pc = "settle"
                 /\ reader'[r].outcome # NoOutcome
              \/ /\ reader[r].pc = "settle"
                 /\ reader'[r].pc = "deliver"
                 /\ reader'[r].outcome = reader[r].outcome
                 /\ reader'[r].op \in Ops
                 /\ reader'[r].op = pendingRoundTrips[reader[r].msg.ref]
                 /\ finishPending(reader[r].msg.ref)
<1> USE NamesAssumption
<1>t. reader \in [Readers -> ReaderStates] /\ reader[r] \in ReaderStates
  BY DEF TypeOK
<1> DEFINE Elsewhere == {"idle", "prepare", "malformed", "process", "complete"}
<1>e. ASSUME NEW s, ReaderGoes(r, s), s.pc \in Elsewhere
      PROVE  /\ \A q \in Readers \ {r} : reader'[q] = reader[q]
             /\ reader'[r].pc \in Elsewhere
  BY <1>t, <1>e, ReaderAt
<1>i. ReaderGoes(r, IdleReader) =>
        /\ \A q \in Readers \ {r} : reader'[q] = reader[q]
        /\ reader'[r].pc \in Elsewhere
  <2>1. IdleReader.pc \in Elsewhere
    BY DEF IdleReader
  <2> QED
    BY <2>1, <1>e
<1>1. CASE admitIncomingSpineMessage(r)
  <2>1. PICK m \in Incoming, p \in {"malformed", "prepare"} :
           ReaderGoes(r, [IdleReader EXCEPT !.pc = p, !.msg = m])
    BY <1>1 DEF admitIncomingSpineMessage
  <2>2. [IdleReader EXCEPT !.pc = p, !.msg = m].pc \in Elsewhere
    BY <2>1, <1>t DEF IdleReader
  <2> QED
    BY <2>1, <2>2, <1>e
<1>2. CASE prepareCorrelatedResponse(r)
  <2>1. PICK p \in {"malformed", "process"} : ReaderGoes(r, [reader[r] EXCEPT !.pc = p])
    BY <1>2 DEF prepareCorrelatedResponse
  <2>2. [reader[r] EXCEPT !.pc = p].pc \in Elsewhere
    BY <2>1, <1>t DEF ReaderStates
  <2> QED
    BY <2>1, <2>2, <1>e
<1>3. CASE ProcessCmd(r)
  <2>1. PICK x : ReaderGoes(r, [reader[r] EXCEPT !.pc = "complete", !.processErr = x])
    BY <1>3 DEF ProcessCmd
  <2>2. [reader[r] EXCEPT !.pc = "complete", !.processErr = x].pc \in Elsewhere
    BY <2>1, <1>t DEF ReaderStates
  <2> QED
    BY <2>1, <2>2, <1>e
<1>4. CASE completeCorrelatedResponse(r)
  <2>1. \/ ReaderGoes(r, IdleReader)
        \/ \E x : /\ x # NoOutcome
                 /\ ReaderGoes(r, [reader[r] EXCEPT !.pc = "settle", !.outcome = x,
                                                    !.processErr = FALSE])
    BY <1>4 DEF completeCorrelatedResponse, ReaderReturns
  <2>2. reader[r].pc = "complete"
    BY <1>4 DEF completeCorrelatedResponse
  <2>3. ASSUME NEW x, x # NoOutcome,
               ReaderGoes(r, [reader[r] EXCEPT !.pc = "settle", !.outcome = x,
                                               !.processErr = FALSE])
        PROVE  /\ \A q \in Readers \ {r} : reader'[q] = reader[q]
               /\ reader'[r].pc = "settle"
               /\ reader'[r].outcome # NoOutcome
    <3> DEFINE s == [reader[r] EXCEPT !.pc = "settle", !.outcome = x,
                                      !.processErr = FALSE]
    <3>1. s.pc = "settle" /\ s.outcome = x
      BY <1>t DEF ReaderStates
    <3>2. reader'[r] = s /\ \A q \in Readers \ {r} : reader'[q] = reader[q]
      BY <2>3, <1>t, ReaderAt
    <3> QED
      BY <2>3, <3>1, <3>2
  <2> QED
    BY <2>1, <2>2, <2>3, <1>i
<1>5. CASE completeMalformedCorrelatedResponse(r)
  <2>1. Failure("protocol") # NoOutcome
    BY DEF Failure, NoOutcome
  <2>2. \/ ReaderGoes(r, IdleReader)
        \/ ReaderGoes(r, [reader[r] EXCEPT !.pc = "settle", !.outcome = Failure("protocol")])
    BY <1>5 DEF completeMalformedCorrelatedResponse, ReaderReturns
  <2>3. reader[r].pc = "malformed"
    BY <1>5 DEF completeMalformedCorrelatedResponse
  <2>4. ASSUME ReaderGoes(r, [reader[r] EXCEPT !.pc = "settle",
                                               !.outcome = Failure("protocol")])
        PROVE  /\ \A q \in Readers \ {r} : reader'[q] = reader[q]
               /\ reader'[r].pc = "settle"
               /\ reader'[r].outcome # NoOutcome
    <3> DEFINE x == Failure("protocol")
               s == [reader[r] EXCEPT !.pc = "settle", !.outcome = x]
    <3> HIDE DEF x
    <3>1. s.pc = "settle" /\ s.outcome = x
      BY <1>t DEF ReaderStates
    <3>2. reader'[r] = s /\ \A q \in Readers \ {r} : reader'[q] = reader[q]
      BY <2>4, <1>t, ReaderAt DEF x
    <3>3. x # NoOutcome
      BY <2>1 DEF x
    <3> QED
      BY <3>1, <3>2, <3>3
  <2> QED
    BY <2>2, <2>3, <2>4, <1>i
<1>6. CASE settle(r)
  <2>1. reader[r].msg.ref \in Counters
    BY <1>t DEF ReaderStates, Messages
  <2>2. pendingRoundTrips[reader[r].msg.ref] \in Ops \cup {NoOp}
    BY <2>1 DEF TypeOK
  <2> DEFINE op == pendingRoundTrips[reader[r].msg.ref]
  <2>3. reader[r].pc = "settle"
    BY <1>6 DEF settle
  <2>4. CASE ReaderGoes(r, IdleReader)
    BY <2>4, <1>i
  <2>5. CASE /\ op # NoOp
             /\ finishPending(reader[r].msg.ref)
             /\ ReaderGoes(r, [reader[r] EXCEPT !.pc = "deliver", !.op = op])
    <3> DEFINE s == [reader[r] EXCEPT !.pc = "deliver", !.op = op]
    <3> HIDE DEF op
    <3>1. s.pc = "deliver" /\ s.op = op /\ s.outcome = reader[r].outcome
      BY <1>t DEF ReaderStates
    <3>2. reader'[r] = s /\ \A q \in Readers \ {r} : reader'[q] = reader[q]
      BY <2>5, <1>t, ReaderAt DEF op
    <3>3. op \in Ops /\ finishPending(reader[r].msg.ref)
      BY <2>2, <2>5 DEF op
    <3> QED
      BY <2>3, <3>1, <3>2, <3>3 DEF op
  <2> QED
    BY <1>6, <2>4, <2>5 DEF settle, ReaderReturns
<1>7. CASE deliver(r)
  BY <1>7, <1>i DEF deliver, ReaderReturns
<1> QED
  BY <1>1, <1>2, <1>3, <1>4, <1>5, <1>6, <1>7 DEF ReaderStep

(* Every step that is about to send has an outcome to send.                *)
LEMMA OutcomeStep ==
    ASSUME TypeOK, OutcomeInv, [Next]_vars
    PROVE  OutcomeInv'
<1> USE NamesAssumption
<1>t. /\ pc \in [Ops -> Places]
      /\ ret \in [Ops -> Outcomes]
  BY DEF TypeOK
<1>f. \A t \in Tags \ {"none"} : Failure(t) # NoOutcome
  BY DEF Failure, NoOutcome, Tags
<1>r. ASSUME NEW r \in Readers, admitIncomingSpineMessage(r) \/ ReaderStep(r),
             UNCHANGED <<pc, ret>>
      PROVE  OutcomeInv'
  BY <1>r, ReaderMoves DEF OutcomeInv
<1>1. ASSUME NEW o \in Ops, RoundTripStart(o) PROVE OutcomeInv'
  BY <1>1, <1>t, <1>f DEF RoundTripStart, Goto, Return, OutcomeInv, Tags
<1>2. ASSUME NEW o \in Ops, registerCorrelatedRoundTrip(o) PROVE OutcomeInv'
  BY <1>2, <1>t, <1>f DEF registerCorrelatedRoundTrip, Goto, Return, OutcomeInv,
     Tags
<1>3. ASSUME NEW o \in Ops, allocateKey(o) PROVE OutcomeInv'
  BY <1>3, <1>t, <1>f DEF allocateKey, Goto, Return, OutcomeInv, Tags
<1>4. ASSUME NEW o \in Ops, admitSpineSend(o) PROVE OutcomeInv'
  BY <1>4, <1>t, <1>f DEF admitSpineSend, Goto, SendFails, OutcomeInv, Tags
<1>5. ASSUME NEW o \in Ops, encodeFails(o) PROVE OutcomeInv'
  BY <1>5, <1>t, <1>f DEF encodeFails, Goto, SendFails, OutcomeInv, Tags
<1>6. ASSUME NEW o \in Ops, admitCorrelatedTransportHandoff(o) PROVE OutcomeInv'
  BY <1>6, <1>t, <1>f DEF admitCorrelatedTransportHandoff, Goto, SendFails,
     OutcomeInv, Tags
<1>7. ASSUME NEW o \in Ops, writeShipMessage(o) PROVE OutcomeInv'
  BY <1>7, <1>t, <1>f DEF writeShipMessage, Goto, OutcomeInv, Tags
<1>8. ASSUME NEW o \in Ops, finishSpineSend(o) PROVE OutcomeInv'
  BY <1>8, <1>t, <1>f DEF finishSpineSend, Goto, SendFails, OutcomeInv, Tags
<1>9. ASSUME NEW o \in Ops, contextDone(o) PROVE OutcomeInv'
  BY <1>9, <1>t, <1>f DEF contextDone, Goto, SendFails, OutcomeInv, Tags
<1>10. ASSUME NEW o \in Ops, abandon(o) PROVE OutcomeInv'
  BY <1>10, <1>t, <1>f DEF abandon, Goto, finishPending, OutcomeInv, Tags
<1>11. ASSUME NEW o \in Ops, sendToSelf(o) PROVE OutcomeInv'
  BY <1>11, <1>t, <1>f DEF sendToSelf, Goto, Send, OutcomeInv, Tags
<1>12. ASSUME NEW o \in Ops, receiveOutcome(o) PROVE OutcomeInv'
  BY <1>12, <1>t, <1>f DEF receiveOutcome, Goto, Return, OutcomeInv, Tags
<1>13. ASSUME NEW o \in Ops, cancelContext(o) PROVE OutcomeInv'
  BY <1>13, <1>t, <1>f DEF cancelContext, OutcomeInv, Tags
<1>14. ASSUME NEW c \in Closers, Close(c) PROVE OutcomeInv'
  BY <1>14, <1>t, <1>f DEF Close, PendingKeys, PendingOps, OutcomeInv, Tags
<1>15. ASSUME NEW c \in Closers, tellRetired(c) PROVE OutcomeInv'
  BY <1>15, <1>t, <1>f DEF tellRetired, Send, OutcomeInv, Tags
<1>16. ASSUME NEW s \in Senders, loadMsgNum(s) PROVE OutcomeInv'
  BY <1>16, <1>t, <1>f DEF loadMsgNum, OutcomeInv, Tags
<1>17. ASSUME NEW s \in Senders, swapMsgNum(s) PROVE OutcomeInv'
  BY <1>17, <1>t, <1>f DEF swapMsgNum, OutcomeInv, Tags
<1>18. ASSUME NEW r \in Readers, admitIncomingSpineMessage(r) PROVE OutcomeInv'
  BY <1>18, <1>r DEF admitIncomingSpineMessage, ReaderStep
<1>19. ASSUME NEW r \in Readers, prepareCorrelatedResponse(r) PROVE OutcomeInv'
  BY <1>19, <1>r DEF prepareCorrelatedResponse, ReaderStep
<1>20. ASSUME NEW r \in Readers, ProcessCmd(r) PROVE OutcomeInv'
  BY <1>20, <1>r DEF ProcessCmd, ReaderStep
<1>21. ASSUME NEW r \in Readers, completeCorrelatedResponse(r) PROVE OutcomeInv'
  BY <1>21, <1>r DEF completeCorrelatedResponse, ReaderStep
<1>22. ASSUME NEW r \in Readers, completeMalformedCorrelatedResponse(r) PROVE OutcomeInv'
  BY <1>22, <1>r DEF completeMalformedCorrelatedResponse, ReaderStep
<1>23. ASSUME NEW r \in Readers, settle(r) PROVE OutcomeInv'
  BY <1>23, <1>r DEF settle, ReaderStep
<1>24. ASSUME NEW r \in Readers, deliver(r) PROVE OutcomeInv'
  BY <1>24, <1>r DEF deliver, ReaderStep
<1>25. CASE UNCHANGED vars
  BY <1>25 DEF vars, OutcomeInv, Tags
<1> QED
  BY <1>1, <1>2, <1>3, <1>4, <1>5, <1>6, <1>7, <1>8, <1>9, <1>10, <1>11, <1>12,
     <1>13, <1>14, <1>15, <1>16, <1>17, <1>18, <1>19, <1>20, <1>21, <1>22,
     <1>23, <1>24, <1>25 DEF Next, CallStep, ReaderStep

(* An operation found in the table is pending under its own key, and no    *)
(* other operation has that key.                                           *)
LEMMA FoundIsPending ==
    ASSUME TypeOK, KeyInv, NEW k \in Counters, pendingRoundTrips[k] # NoOp
    PROVE  /\ pendingRoundTrips[k] \in Ops
           /\ key[pendingRoundTrips[k]] = k
           /\ IsPending(pendingRoundTrips[k])
           /\ \A p \in Ops : key[p] = k => p = pendingRoundTrips[k]
<1>1. pendingRoundTrips[k] \in Ops
  BY DEF TypeOK
<1>2. key[pendingRoundTrips[k]] = k /\ k # 0
  BY DEF KeyInv
<1> QED
  BY <1>1, <1>2 DEF IsPending, KeyInv, KeysUnique, Registered

(* What a step says of one operation, in terms of its holders.             *)
SameReaders(o) == \A r \in Readers : IsDelivering(r, o)' <=> IsDelivering(r, o)
SameClosers(o) == \A c \in Closers : o \in retired'[c] <=> o \in retired[c]
SameHolders(o) == /\ IsPending(o)' <=> IsPending(o)
                  /\ SameReaders(o)
                  /\ SameClosers(o)
                  /\ result'[o] = result[o]
                  /\ key'[o] = key[o]
SamePlace(o) == /\ pc'[o] = "selfSend" <=> pc[o] = "selfSend"
                /\ pc'[o] = "drain" => pc[o] = "drain"
                /\ pc'[o] \in InProgress <=> pc[o] \in InProgress

LEMMA HolderFrame ==
    ASSUME NEW o \in Ops, HolderOf(o), SameHolders(o), SamePlace(o)
    PROVE  HolderOf(o)'
BY DEF HolderOf, SameHolders, SameReaders, SameClosers, SamePlace, Registered,
   InProgress

(* Every step hands the outcome of an operation from one holder to the     *)
(* next: none is lost and none is doubled.                                 *)
LEMMA HolderStep ==
    ASSUME TypeOK, KeyInv, OutcomeInv, HolderInv, [Next]_vars
    PROVE  HolderInv'
<1> USE NamesAssumption
<1>t. /\ pc \in [Ops -> Places]
      /\ pendingRoundTrips \in [Counters -> Ops \cup {NoOp}]
      /\ key \in [Ops -> Counters]
      /\ result \in [Ops -> Outcomes]
      /\ reader \in [Readers -> ReaderStates]
      /\ retired \in [Closers -> SUBSET Ops]
  BY DEF TypeOK
<1>h. \A o \in Ops : HolderOf(o)
  BY DEF HolderInv
<1> DEFINE Sending == InProgress \ {"selfSend", "drain"}
<1>m. ASSUME NEW o \in Ops, NEW place, pc' = [pc EXCEPT ![o] = place],
             UNCHANGED <<pendingRoundTrips, key, result, reader, retired>>,
             \/ pc[o] \in Sending /\ place \in Sending
             \/ pc[o] \notin InProgress /\ place \notin InProgress
      PROVE  HolderInv'
  <2>1. \A p \in Ops : SameHolders(p)
    BY <1>m DEF SameHolders, SameReaders, SameClosers, IsPending, IsDelivering
  <2>2. \A p \in Ops : SamePlace(p)
    BY <1>m, <1>t DEF SamePlace, InProgress
  <2> QED
    BY <2>1, <2>2, <1>h, HolderFrame DEF HolderInv
<1>u. UNCHANGED <<pc, pendingRoundTrips, key, result, reader, retired>> => HolderInv'
  BY DEF HolderInv, HolderOf, IsPending, IsDelivering, Registered, InProgress
<1>n. ASSUME NEW r \in Readers, reader[r].pc # "deliver", reader'[r].pc # "deliver",
             \A q \in Readers \ {r} : reader'[q] = reader[q],
             UNCHANGED <<pc, key, result, retired, pendingRoundTrips>>
      PROVE  HolderInv'
  <2>1. \A p \in Ops : SameReaders(p)
    BY <1>n DEF SameReaders, IsDelivering
  <2>2. \A p \in Ops : SameHolders(p) /\ SamePlace(p)
    BY <1>n, <2>1 DEF SameHolders, SameClosers, SamePlace, IsPending
  <2> QED
    BY <2>2, <1>h, HolderFrame DEF HolderInv
<1>r. ASSUME NEW r \in Readers, admitIncomingSpineMessage(r) \/ ReaderStep(r),
             reader[r].pc \notin {"settle", "deliver"},
             UNCHANGED <<pc, key, result, retired, pendingRoundTrips>>
      PROVE  HolderInv'
  <2>1. /\ reader'[r].pc # "deliver"
        /\ \A q \in Readers \ {r} : reader'[q] = reader[q]
    BY <1>r, ReaderMoves
  <2> QED
    BY <1>r, <2>1, <1>n
<1>1. ASSUME NEW o \in Ops, RoundTripStart(o) PROVE HolderInv'
  <2>1. UNCHANGED <<pendingRoundTrips, key, result, reader, retired>>
    BY <1>1 DEF RoundTripStart
  <2>2. PICK place : /\ pc' = [pc EXCEPT ![o] = place]
                     /\ \/ pc[o] \in Sending /\ place \in Sending
                        \/ pc[o] \notin InProgress /\ place \notin InProgress
    BY <1>1 DEF RoundTripStart, Goto, Return, InProgress
  <2> QED
    BY <2>1, <2>2, <1>m
<1>2. ASSUME NEW o \in Ops, registerCorrelatedRoundTrip(o) PROVE HolderInv'
  <2>1. UNCHANGED <<pendingRoundTrips, key, result, reader, retired>>
    BY <1>2 DEF registerCorrelatedRoundTrip
  <2>2. PICK place : /\ pc' = [pc EXCEPT ![o] = place]
                     /\ \/ pc[o] \in Sending /\ place \in Sending
                        \/ pc[o] \notin InProgress /\ place \notin InProgress
    BY <1>2 DEF registerCorrelatedRoundTrip, Goto, Return, InProgress
  <2> QED
    BY <2>1, <2>2, <1>m
<1>3. ASSUME NEW o \in Ops, allocateKey(o) PROVE HolderInv'
  <2>0. pc[o] = "allocate" /\ ~Registered(o) /\ UNCHANGED <<result, reader, retired>>
    BY <1>3 DEF allocateKey, KeyInv
  <2>1. CASE pc' = [pc EXCEPT ![o] = "done"] /\ UNCHANGED <<pendingRoundTrips, key>>
    BY <2>0, <2>1, <1>m DEF InProgress
  <2>2. CASE /\ msgNum < MaxCounter
             /\ pendingRoundTrips[msgNum + 1] = NoOp
             /\ pendingRoundTrips' = [pendingRoundTrips EXCEPT ![msgNum + 1] = o]
             /\ key' = [key EXCEPT ![o] = msgNum + 1]
             /\ pc' = [pc EXCEPT ![o] = "admit"]
    <3>1. msgNum + 1 \in Counters /\ msgNum + 1 # 0
      BY <2>2, LimitsAssumption DEF TypeOK, Counters
    <3>2. HolderOf(o)'
      <4>1. IsPending(o)' /\ key'[o] # 0 /\ pc'[o] = "admit"
        BY <2>2, <3>1, <1>t DEF IsPending
      <4>2. /\ result'[o] = NoOutcome
            /\ \A r \in Readers : ~IsDelivering(r, o)'
            /\ \A c \in Closers : o \notin retired'[c]
        BY <2>0, <1>h DEF HolderOf, IsDelivering
      <4> QED
        BY <4>1, <4>2 DEF HolderOf, InProgress, Registered
    <3>3. ASSUME NEW p \in Ops \ {o} PROVE HolderOf(p)'
      <4>1. SameHolders(p)
        BY <2>0, <2>2, <3>1, <1>t DEF SameHolders, SameReaders, SameClosers,
           IsPending, IsDelivering
      <4>2. SamePlace(p)
        BY <2>2, <1>t DEF SamePlace
      <4> QED
        BY <4>1, <4>2, <1>h, HolderFrame
    <3> QED
      BY <3>2, <3>3 DEF HolderInv
  <2> QED
    BY <1>3, <2>1, <2>2 DEF allocateKey, Goto, Return
<1>4. ASSUME NEW o \in Ops, admitSpineSend(o) PROVE HolderInv'
  <2>1. UNCHANGED <<pendingRoundTrips, key, result, reader, retired>>
    BY <1>4 DEF admitSpineSend
  <2>2. PICK place : /\ pc' = [pc EXCEPT ![o] = place]
                     /\ \/ pc[o] \in Sending /\ place \in Sending
                        \/ pc[o] \notin InProgress /\ place \notin InProgress
    BY <1>4 DEF admitSpineSend, Goto, SendFails, InProgress
  <2> QED
    BY <2>1, <2>2, <1>m
<1>5. ASSUME NEW o \in Ops, encodeFails(o) PROVE HolderInv'
  <2>1. UNCHANGED <<pendingRoundTrips, key, result, reader, retired>>
    BY <1>5 DEF encodeFails
  <2>2. pc[o] \in Sending /\ "failed" \in Sending
    BY <1>5 DEF encodeFails, InProgress
  <2>3. pc' = [pc EXCEPT ![o] = "failed"]
    BY <1>5 DEF encodeFails, Goto, SendFails
  <2> QED
    BY <2>1, <2>2, <2>3, <1>m
<1>6. ASSUME NEW o \in Ops, admitCorrelatedTransportHandoff(o) PROVE HolderInv'
  <2>1. UNCHANGED <<pendingRoundTrips, key, result, reader, retired>>
    BY <1>6 DEF admitCorrelatedTransportHandoff
  <2>2. PICK place : /\ pc' = [pc EXCEPT ![o] = place]
                     /\ \/ pc[o] \in Sending /\ place \in Sending
                        \/ pc[o] \notin InProgress /\ place \notin InProgress
    BY <1>6 DEF admitCorrelatedTransportHandoff, Goto, SendFails, InProgress
  <2> QED
    BY <2>1, <2>2, <1>m
<1>7. ASSUME NEW o \in Ops, writeShipMessage(o) PROVE HolderInv'
  <2>1. UNCHANGED <<pendingRoundTrips, key, result, reader, retired>>
    BY <1>7 DEF writeShipMessage
  <2>2. pc[o] \in Sending /\ "finish" \in Sending
    BY <1>7 DEF writeShipMessage, InProgress
  <2>3. pc' = [pc EXCEPT ![o] = "finish"]
    BY <1>7 DEF writeShipMessage, Goto
  <2> QED
    BY <2>1, <2>2, <2>3, <1>m
<1>8. ASSUME NEW o \in Ops, finishSpineSend(o) PROVE HolderInv'
  <2>1. UNCHANGED <<pendingRoundTrips, key, result, reader, retired>>
    BY <1>8 DEF finishSpineSend
  <2>2. PICK place : /\ pc' = [pc EXCEPT ![o] = place]
                     /\ \/ pc[o] \in Sending /\ place \in Sending
                        \/ pc[o] \notin InProgress /\ place \notin InProgress
    BY <1>8 DEF finishSpineSend, Goto, SendFails, InProgress
  <2> QED
    BY <2>1, <2>2, <1>m
<1>9. ASSUME NEW o \in Ops, contextDone(o) PROVE HolderInv'
  <2>1. UNCHANGED <<pendingRoundTrips, key, result, reader, retired>>
    BY <1>9 DEF contextDone
  <2>2. pc[o] \in Sending /\ "failed" \in Sending
    BY <1>9 DEF contextDone, InProgress
  <2>3. pc' = [pc EXCEPT ![o] = "failed"]
    BY <1>9 DEF contextDone, Goto, SendFails
  <2> QED
    BY <2>1, <2>2, <2>3, <1>m
<1>10. ASSUME NEW o \in Ops, abandon(o) PROVE HolderInv'
  <2>1. pc[o] = "failed" /\ Registered(o) /\ UNCHANGED <<key, result, reader, retired>>
    BY <1>10 DEF abandon, KeyInv, InProgress
  <2>2. CASE /\ pendingRoundTrips[key[o]] # NoOp
             /\ pendingRoundTrips' = [pendingRoundTrips EXCEPT ![key[o]] = NoOp]
             /\ pc' = [pc EXCEPT ![o] = "selfSend"]
    <3>1. IsPending(o) /\ \A p \in Ops : key[p] = key[o] => p = o
      BY <2>1, <2>2, <1>t, FoundIsPending DEF KeyInv, KeysUnique
    <3>2. HolderOf(o)'
      <4>1. ~IsPending(o)' /\ pc'[o] = "selfSend"
        BY <2>1, <2>2, <1>t DEF IsPending
      <4>2. /\ result'[o] = NoOutcome
            /\ \A r \in Readers : ~IsDelivering(r, o)'
            /\ \A c \in Closers : o \notin retired'[c]
        BY <2>1, <3>1, <1>h DEF HolderOf, IsDelivering
      <4> QED
        BY <4>1, <4>2 DEF HolderOf, InProgress
    <3>3. ASSUME NEW p \in Ops \ {o} PROVE HolderOf(p)'
      <4>1. SameHolders(p)
        BY <2>1, <2>2, <3>1, <1>t DEF SameHolders, SameReaders, SameClosers,
           IsPending, IsDelivering
      <4>2. SamePlace(p)
        BY <2>2, <1>t DEF SamePlace
      <4> QED
        BY <4>1, <4>2, <1>h, HolderFrame
    <3> QED
      BY <3>2, <3>3 DEF HolderInv
  <2>3. CASE /\ pendingRoundTrips[key[o]] = NoOp
             /\ UNCHANGED pendingRoundTrips
             /\ pc' = [pc EXCEPT ![o] = "drain"]
    <3>1. \A p \in Ops : SameHolders(p)
      BY <2>1, <2>3 DEF SameHolders, SameReaders, SameClosers, IsPending,
         IsDelivering
    <3>2. HolderOf(o)'
      <4>1. ~IsPending(o) /\ pc'[o] = "drain"
        BY <2>3, <1>t DEF IsPending
      <4> QED
        BY <2>1, <3>1, <4>1, <1>h DEF HolderOf, SameHolders, SameReaders,
           SameClosers, InProgress,
           Registered
    <3>3. ASSUME NEW p \in Ops \ {o} PROVE HolderOf(p)'
      <4>1. SamePlace(p)
        BY <2>3, <1>t DEF SamePlace
      <4> QED
        BY <3>1, <4>1, <1>h, HolderFrame
    <3> QED
      BY <3>2, <3>3 DEF HolderInv
  <2> QED
    BY <1>10, <2>2, <2>3 DEF abandon, finishPending, Goto
<1>11. ASSUME NEW o \in Ops, sendToSelf(o) PROVE HolderInv'
  <2>1. UNCHANGED <<pendingRoundTrips, key, reader, retired>>
    BY <1>11 DEF sendToSelf
  <2>2. pc' = [pc EXCEPT ![o] = "done"]
    BY <1>11 DEF sendToSelf, Goto
  <2>3. result' = [result EXCEPT ![o] = ret[o]]
    BY <1>11 DEF sendToSelf, Send
  <2>4. ASSUME NEW p \in Ops \ {o} PROVE HolderOf(p)'
    <3>1. SameHolders(p)
      BY <2>1, <2>3, <1>t DEF SameHolders, SameReaders, SameClosers, IsPending,
         IsDelivering
    <3>2. SamePlace(p)
      BY <2>2, <1>t DEF SamePlace
    <3> QED
      BY <3>1, <3>2, <1>h, HolderFrame
  <2>5. HolderOf(o)'
    <3>1. /\ pc'[o] = "done"
          /\ IsPending(o)' <=> IsPending(o)
          /\ SameReaders(o) /\ SameClosers(o)
          /\ key'[o] = key[o]
      BY <2>1, <2>2, <1>t DEF IsPending, SameReaders, SameClosers, IsDelivering
    <3> QED
      BY <1>11, <2>3, <3>1, <1>h, <1>t DEF sendToSelf, HolderOf, SameReaders,
         SameClosers, Registered, InProgress, KeyInv
  <2> QED
    BY <2>4, <2>5 DEF HolderInv
<1>12. ASSUME NEW o \in Ops, receiveOutcome(o) PROVE HolderInv'
  <2>1. UNCHANGED <<pendingRoundTrips, key, reader, retired>>
    BY <1>12 DEF receiveOutcome
  <2>2. pc' = [pc EXCEPT ![o] = "done"]
    BY <1>12 DEF receiveOutcome, Goto, Return
  <2>3. result[o] # NoOutcome /\ result' = [result EXCEPT ![o] = NoOutcome]
    BY <1>12 DEF receiveOutcome
  <2>4. ASSUME NEW p \in Ops \ {o} PROVE HolderOf(p)'
    <3>1. SameHolders(p)
      BY <2>1, <2>3, <1>t DEF SameHolders, SameReaders, SameClosers, IsPending,
         IsDelivering
    <3>2. SamePlace(p)
      BY <2>2, <1>t DEF SamePlace
    <3> QED
      BY <3>1, <3>2, <1>h, HolderFrame
  <2>5. HolderOf(o)'
    <3>1. /\ pc'[o] = "done"
          /\ IsPending(o)' <=> IsPending(o)
          /\ SameReaders(o) /\ SameClosers(o)
          /\ key'[o] = key[o]
      BY <2>1, <2>2, <1>t DEF IsPending, SameReaders, SameClosers, IsDelivering
    <3> QED
      BY <1>12, <2>3, <3>1, <1>h, <1>t DEF receiveOutcome, HolderOf,
         SameReaders, SameClosers, Registered, InProgress, KeyInv
  <2> QED
    BY <2>4, <2>5 DEF HolderInv
<1>13. ASSUME NEW o \in Ops, cancelContext(o) PROVE HolderInv'
  <2>1. UNCHANGED <<pc, pendingRoundTrips, key, result, reader, retired>>
    BY <1>13 DEF cancelContext
  <2> QED
    BY <2>1, <1>u
<1>14. ASSUME NEW c \in Closers, Close(c) PROVE HolderInv'
  <2>1. /\ UNCHANGED <<pc, key, result, reader>>
        /\ retired[c] = {}
        /\ retired' = [retired EXCEPT ![c] = PendingOps]
    BY <1>14 DEF Close
  <2>2. \A p \in Ops : ~IsPending(p)'
    BY <1>14, <1>t DEF Close, IsPending
  <2>3. ASSUME NEW p \in Ops PROVE p \in PendingOps <=> IsPending(p)
    <3>1. IsPending(p) => p \in PendingOps
      BY <1>t DEF PendingOps, PendingKeys, IsPending
    <3>2. ASSUME p \in PendingOps PROVE IsPending(p)
      <4>1. PICK k \in Counters : pendingRoundTrips[k] # NoOp /\ p = pendingRoundTrips[k]
        BY <3>2 DEF PendingOps, PendingKeys
      <4> QED
        BY <4>1, FoundIsPending
    <3> QED
      BY <3>1, <3>2
  <2>4. ASSUME NEW p \in Ops PROVE HolderOf(p)'
    <3>1. /\ SameReaders(p) /\ pc'[p] = pc[p] /\ result'[p] = result[p] /\ key'[p] = key[p]
          /\ \A d \in Closers \ {c} : p \in retired'[d] <=> p \in retired[d]
          /\ p \in retired'[c] <=> IsPending(p)
      BY <2>1, <2>3, <1>t DEF SameReaders, IsDelivering
    <3>2. IsPending(p) => Registered(p)
      BY <1>h DEF HolderOf, KeyInv
    <3> QED
      BY <2>1, <2>2, <3>1, <3>2, <1>h DEF HolderOf, SameReaders, Registered,
         InProgress
  <2> QED
    BY <2>4 DEF HolderInv
<1>15. ASSUME NEW c \in Closers, tellRetired(c) PROVE HolderInv'
  <2>1. PICK o \in retired[c] : /\ Send(o, Failure("closed"))
                               /\ retired' = [retired EXCEPT ![c] = @ \ {o}]
    BY <1>15 DEF tellRetired
  <2>2. UNCHANGED <<pc, key, pendingRoundTrips, reader>>
    BY <1>15 DEF tellRetired
  <2>3. o \in Ops /\ Failure("closed") # NoOutcome
    BY <2>1, <1>t DEF Failure, NoOutcome
  <2>4. HolderOf(o)'
    <3>1. /\ IsPending(o)' <=> IsPending(o)
          /\ SameReaders(o) /\ pc'[o] = pc[o] /\ key'[o] = key[o]
          /\ result'[o] # NoOutcome
          /\ \A d \in Closers : o \notin retired'[d]
      BY <2>1, <2>2, <2>3, <1>t, <1>h DEF Send, SameReaders, IsPending,
         IsDelivering, HolderOf
    <3> QED
      BY <2>1, <2>3, <3>1, <1>h DEF HolderOf, SameReaders, Registered,
         InProgress
  <2>5. ASSUME NEW p \in Ops \ {o} PROVE HolderOf(p)'
    <3>1. SameHolders(p)
      BY <2>1, <2>2, <1>t DEF Send, SameHolders, SameReaders, SameClosers,
         IsPending, IsDelivering
    <3>2. SamePlace(p)
      BY <2>2 DEF SamePlace
    <3> QED
      BY <3>1, <3>2, <1>h, HolderFrame
  <2> QED
    BY <2>4, <2>5 DEF HolderInv
<1>16. ASSUME NEW s \in Senders, loadMsgNum(s) PROVE HolderInv'
  <2>1. UNCHANGED <<pc, pendingRoundTrips, key, result, reader, retired>>
    BY <1>16 DEF loadMsgNum
  <2> QED
    BY <2>1, <1>u
<1>17. ASSUME NEW s \in Senders, swapMsgNum(s) PROVE HolderInv'
  <2>1. UNCHANGED <<pc, pendingRoundTrips, key, result, reader, retired>>
    BY <1>17 DEF swapMsgNum
  <2> QED
    BY <2>1, <1>u
<1>18. ASSUME NEW r \in Readers, admitIncomingSpineMessage(r) PROVE HolderInv'
  <2>1. /\ reader[r].pc \notin {"settle", "deliver"}
        /\ UNCHANGED <<pc, key, result, retired, pendingRoundTrips>>
    BY <1>18 DEF admitIncomingSpineMessage
  <2> QED
    BY <1>18, <2>1, <1>r DEF ReaderStep
<1>19. ASSUME NEW r \in Readers, prepareCorrelatedResponse(r) PROVE HolderInv'
  <2>1. /\ reader[r].pc \notin {"settle", "deliver"}
        /\ UNCHANGED <<pc, key, result, retired, pendingRoundTrips>>
    BY <1>19 DEF prepareCorrelatedResponse
  <2> QED
    BY <1>19, <2>1, <1>r DEF ReaderStep
<1>20. ASSUME NEW r \in Readers, ProcessCmd(r) PROVE HolderInv'
  <2>1. /\ reader[r].pc \notin {"settle", "deliver"}
        /\ UNCHANGED <<pc, key, result, retired, pendingRoundTrips>>
    BY <1>20 DEF ProcessCmd
  <2> QED
    BY <1>20, <2>1, <1>r DEF ReaderStep
<1>21. ASSUME NEW r \in Readers, completeCorrelatedResponse(r) PROVE HolderInv'
  <2>1. /\ reader[r].pc \notin {"settle", "deliver"}
        /\ UNCHANGED <<pc, key, result, retired, pendingRoundTrips>>
    BY <1>21 DEF completeCorrelatedResponse
  <2> QED
    BY <1>21, <2>1, <1>r DEF ReaderStep
<1>22. ASSUME NEW r \in Readers, completeMalformedCorrelatedResponse(r) PROVE HolderInv'
  <2>1. /\ reader[r].pc \notin {"settle", "deliver"}
        /\ UNCHANGED <<pc, key, result, retired, pendingRoundTrips>>
    BY <1>22 DEF completeMalformedCorrelatedResponse
  <2> QED
    BY <1>22, <2>1, <1>r DEF ReaderStep
<1>23. ASSUME NEW r \in Readers, settle(r) PROVE HolderInv'
  <2>1. reader[r].pc = "settle" /\ UNCHANGED <<pc, key, result, retired>>
    BY <1>23 DEF settle
  <2>2. \A q \in Readers \ {r} : reader'[q] = reader[q]
    BY <1>23, ReaderMoves DEF ReaderStep
  <2>3. CASE UNCHANGED registry /\ reader'[r].pc = "idle"
    BY <2>1, <2>2, <2>3, <1>n
  <2>4. CASE /\ pendingRoundTrips[reader[r].msg.ref] # NoOp
             /\ finishPending(reader[r].msg.ref)
             /\ reader'[r].pc = "deliver"
             /\ reader'[r].op = pendingRoundTrips[reader[r].msg.ref]
    <3>1. PICK k \in Counters : k = reader[r].msg.ref
      BY <1>t DEF ReaderStates, Messages
    <3>2. PICK op \in Ops : /\ op = pendingRoundTrips[k]
                           /\ key[op] = k /\ IsPending(op)
                           /\ \A p \in Ops : key[p] = k => p = op
      BY <2>4, <3>1, FoundIsPending
    <3>3. /\ pendingRoundTrips' = [pendingRoundTrips EXCEPT ![k] = NoOp]
          /\ reader'[r].pc = "deliver" /\ reader'[r].op = op
      BY <2>4, <3>1, <3>2 DEF finishPending
    <3>4. HolderOf(op)'
      <4>1. /\ ~IsPending(op)'
            /\ pc'[op] = pc[op] /\ result'[op] = result[op] /\ key'[op] = key[op]
            /\ SameClosers(op)
            /\ IsDelivering(r, op)'
            /\ \A q \in Readers \ {r} : IsDelivering(q, op)' <=> IsDelivering(q, op)
        BY <2>1, <2>2, <3>1, <3>2, <3>3, <1>t DEF IsPending, IsDelivering,
           SameClosers
      <4>2. key[op] # 0
        BY <3>2, <1>h DEF HolderOf, KeyInv, Registered
      <4> QED
        BY <3>2, <4>1, <4>2, <1>h DEF HolderOf, SameClosers, Registered,
           InProgress
    <3>5. ASSUME NEW p \in Ops \ {op} PROVE HolderOf(p)'
      <4>1. IsPending(p)' <=> IsPending(p)
        BY <2>1, <3>1, <3>2, <3>3, <1>t DEF IsPending
      <4>2. SameReaders(p)
        BY <2>1, <2>2, <3>3 DEF SameReaders, IsDelivering
      <4>3. SameHolders(p) /\ SamePlace(p)
        BY <2>1, <4>1, <4>2 DEF SameHolders, SameClosers, SamePlace
      <4> QED
        BY <4>3, <1>h, HolderFrame
    <3> QED
      BY <3>4, <3>5 DEF HolderInv
  <2> QED
    <3>1. CASE ReaderReturns(r) /\ UNCHANGED registry
      <4>1. reader'[r].pc = "idle"
        BY <3>1, <1>t, ReaderAt DEF ReaderReturns, IdleReader
      <4> QED
        BY <2>3, <3>1, <4>1
    <3>2. ASSUME pendingRoundTrips[reader[r].msg.ref] # NoOp,
                 ReaderGoes(r, [reader[r] EXCEPT !.pc = "deliver",
                                                 !.op = pendingRoundTrips[reader[r].msg.ref]])
          PROVE  /\ reader'[r].pc = "deliver"
                 /\ reader'[r].op = pendingRoundTrips[reader[r].msg.ref]
      <4> DEFINE x == pendingRoundTrips[reader[r].msg.ref]
      <4> HIDE DEF x
      <4>1. /\ [reader[r] EXCEPT !.pc = "deliver", !.op = x].pc = "deliver"
            /\ [reader[r] EXCEPT !.pc = "deliver", !.op = x].op = x
        BY <1>t DEF ReaderStates
      <4>2. reader'[r] = [reader[r] EXCEPT !.pc = "deliver", !.op = x]
        BY <3>2, <1>t, ReaderAt DEF x
      <4>3. reader'[r].pc = "deliver" /\ reader'[r].op = x
        BY <4>1, <4>2
      <4> QED
        BY <4>3 DEF x
    <3> QED
      BY <1>23, <3>1, <3>2, <2>4 DEF settle
<1>24. ASSUME NEW r \in Readers, deliver(r) PROVE HolderInv'
  <2>1. reader[r].pc = "deliver" /\ UNCHANGED <<pc, key, pendingRoundTrips, retired>>
    BY <1>24 DEF deliver
  <2>2. PICK op \in Ops : op = reader[r].op /\ reader[r].outcome # NoOutcome
    BY <2>1 DEF OutcomeInv
  <2>3. result[op] = NoOutcome /\ result' = [result EXCEPT ![op] = reader[r].outcome]
    BY <1>24, <2>2 DEF deliver, Send
  <2>4. reader'[r] = IdleReader /\ \A q \in Readers \ {r} : reader'[q] = reader[q]
    BY <1>24, <1>t, ReaderAt DEF deliver, ReaderReturns
  <2>5. IsDelivering(r, op) /\ \A p \in Ops : ~IsDelivering(r, p)'
    BY <2>1, <2>2, <2>4 DEF IsDelivering, IdleReader
  <2>6. \A p \in Ops \ {op} : ~IsDelivering(r, p)
    BY <2>2 DEF IsDelivering
  <2>7. HolderOf(op)'
    <3>1. /\ IsPending(op)' <=> IsPending(op)
          /\ SameClosers(op) /\ pc'[op] = pc[op] /\ key'[op] = key[op]
          /\ result'[op] # NoOutcome
      BY <2>1, <2>2, <2>3, <1>t DEF SameClosers, IsPending
    <3>2. \A q \in Readers : ~IsDelivering(q, op)'
      BY <2>2, <2>4, <2>5, <1>h DEF HolderOf, IsDelivering
    <3> QED
      BY <2>2, <2>5, <3>1, <3>2, <1>h DEF HolderOf, SameClosers, Registered,
         InProgress
  <2>8. ASSUME NEW p \in Ops \ {op} PROVE HolderOf(p)'
    <3>1. SameReaders(p)
      BY <2>4, <2>5, <2>6 DEF SameReaders, IsDelivering
    <3>2. SameHolders(p) /\ SamePlace(p)
      BY <2>1, <2>2, <2>3, <3>1, <1>t DEF SameHolders, SameClosers, SamePlace,
         IsPending
    <3> QED
      BY <3>2, <1>h, HolderFrame
  <2> QED
    BY <2>7, <2>8 DEF HolderInv
<1>25. CASE UNCHANGED vars
  BY <1>25, <1>u DEF vars
<1> QED
  BY <1>1, <1>2, <1>3, <1>4, <1>5, <1>6, <1>7, <1>8, <1>9, <1>10, <1>11, <1>12,
     <1>13, <1>14, <1>15, <1>16, <1>17, <1>18, <1>19, <1>20, <1>21, <1>22,
     <1>23, <1>24, <1>25 DEF Next, CallStep, ReaderStep

-----------------------------------------------------------------------------
(* The inductive invariant holds in every reachable state.                 *)
THEOREM InvCorrect == Spec => []IInv
<1>1. Init => IInv
  BY TypeOKInit, InvInit DEF IInv
<1>2. IInv /\ [Next]_vars => IInv'
  BY TypeOKStep, MutexStep, KeyStep, OutcomeStep, HolderStep DEF IInv
<1> QED
  BY <1>1, <1>2, PTL DEF Spec

(* No two round trips share a key, and no key is handed out twice, whatever*)
(* the ordinary sends do to the counter.                                   *)
THEOREM KeysUniqueCorrect == Spec => [](KeysUnique /\ PendingOrRetired)
<1>1. IInv => KeysUnique /\ PendingOrRetired
  BY DEF IInv, KeyInv
<1> QED
  BY <1>1, InvCorrect, PTL

(* A closed generation has nothing pending.                                *)
THEOREM NothingPendingCorrect == Spec => []NothingPendingAfterClose
<1>1. IInv => NothingPendingAfterClose
  BY DEF IInv, MutexInv, NothingPendingAfterClose, PendingKeys
<1> QED
  BY <1>1, InvCorrect, PTL

LEMMA OneHolderOf ==
    ASSUME TypeOK, KeyInv, HolderInv, NEW o \in Ops
    PROVE  /\ \A g, h \in Holders(o) : g = h
           /\ pc[o] \in InProgress => Holders(o) # {}
<1> USE NamesAssumption
<1>h. HolderOf(o)
  BY DEF HolderInv
<1>1. ASSUME NEW g \in Holders(o)
      PROVE  \/ g = <<"pending", key[o]>> /\ IsPending(o)
             \/ \E r \in Readers : g = <<"reader", r>> /\ IsDelivering(r, o)
             \/ \E c \in Closers : g = <<"closer", c>> /\ o \in retired[c]
             \/ g = <<"self", o>> /\ pc[o] = "selfSend"
             \/ g = <<"channel", o>> /\ result[o] # NoOutcome
  <2>1. \A k \in Counters : pendingRoundTrips[k] = o => k = key[o] /\ IsPending(o)
    BY DEF KeyInv, IsPending
  <2> QED
    BY <1>1, <2>1 DEF Holders, Delivering, Telling, IsDelivering
<1>2. \A g, h \in Holders(o) : g = h
  BY <1>1, <1>h DEF HolderOf, InProgress
<1>3. ASSUME pc[o] \in InProgress PROVE Holders(o) # {}
  <2>1. CASE IsPending(o)
    <3>1. key[o] \in Counters
      BY DEF TypeOK
    <3> QED
      BY <2>1, <3>1 DEF IsPending, Holders
  <2>2. CASE \E r \in Readers : IsDelivering(r, o)
    BY <2>2 DEF IsDelivering, Delivering, Holders
  <2>3. CASE \E c \in Closers : o \in retired[c]
    BY <2>3 DEF Telling, Holders
  <2>4. CASE pc[o] = "selfSend"
    BY <2>4 DEF Holders
  <2>5. CASE result[o] # NoOutcome
    BY <2>5 DEF Holders
  <2> QED
    BY <1>3, <1>h, <2>1, <2>2, <2>3, <2>4, <2>5 DEF HolderOf
<1> QED
  BY <1>2, <1>3

(* The outcome of a round trip is never lost and never doubled.            *)
THEOREM OneHolderCorrect == Spec => []OneHolder
<1>1. IInv => OneHolder
  BY OneHolderOf DEF IInv, OneHolder
<1> QED
  BY <1>1, InvCorrect, PTL

-----------------------------------------------------------------------------
(* The evidence, the limit and the responses.                              *)

(* A datagram is handed to the writer only after that was recorded.        *)
HandoffInv ==
    \A o \in Ops : pc[o] = "write" \/ o \in wire => disposition[o] = "possible"

(* A registration that holds the mutex has room for its entry.             *)
RoomInv == /\ CapacityBound
           /\ roundTripMux # NoOp => Cardinality(PendingKeys) < Capacity

(* A response on its way to an operation answers its request.              *)
Right(o, x) ==
    x.tag = "response" =>
        /\ Registered(o)
        /\ x.msg.ref = key[o]
        /\ x.msg.from = request[o].dest
        /\ x.msg.kind = IF request[o].classifier = "read" THEN "reply" ELSE "ok"
RightCall(o) == Right(o, ret[o]) /\ Right(o, result[o])
RightReader(s) ==
    /\ s.pc = "settle" /\ s.outcome.tag = "response" =>
          \E o \in Ops : Registered(o) /\ key[o] = s.msg.ref /\ Right(o, s.outcome)
    /\ s.pc = "deliver" => Right(s.op, s.outcome)
RightInv == /\ \A o \in Ops : RightCall(o)
            /\ \A r \in Readers : RightReader(reader[r])

-----------------------------------------------------------------------------
(* A key that was handed out is pending under its own call or covered by   *)
(* the watermark, so that registration never hands it out again.           *)
THEOREM PendingOrRetiredCorrect == Spec => []PendingOrRetired
<1>1. IInv => PendingOrRetired
  BY DEF IInv, KeyInv
<1> QED
  BY <1>1, InvCorrect, PTL

-----------------------------------------------------------------------------

LEMMA HandoffStep ==
    ASSUME TypeOK, HandoffInv, [Next]_vars
    PROVE  HandoffInv'
<1>t. pc \in [Ops -> Places] /\ disposition \in [Ops -> {"none", "possible"}]
  BY DEF TypeOK
<1>1. ASSUME UNCHANGED <<wire, disposition>>,
             \A o \in Ops : pc'[o] = "write" => pc[o] = "write"
      PROVE  HandoffInv'
  BY <1>1 DEF HandoffInv
<1>2. ASSUME NEW o \in Ops, admitCorrelatedTransportHandoff(o) PROVE HandoffInv'
  BY <1>2, <1>t DEF admitCorrelatedTransportHandoff, SendFails, Goto, HandoffInv
<1>3. ASSUME NEW o \in Ops, writeShipMessage(o) PROVE HandoffInv'
  BY <1>3, <1>t DEF writeShipMessage, Goto, HandoffInv
<1>4. ASSUME NEW o \in Ops,
             \/ RoundTripStart(o) \/ registerCorrelatedRoundTrip(o)
             \/ allocateKey(o) \/ admitSpineSend(o) \/ encodeFails(o)
             \/ finishSpineSend(o) \/ contextDone(o) \/ abandon(o)
             \/ sendToSelf(o) \/ receiveOutcome(o) \/ cancelContext(o)
      PROVE  HandoffInv'
  <2>1. UNCHANGED <<wire, disposition>>
    BY <1>4 DEF RoundTripStart, registerCorrelatedRoundTrip, allocateKey,
       admitSpineSend, encodeFails, finishSpineSend, contextDone, abandon,
       sendToSelf, receiveOutcome, cancelContext
  <2>2. \A p \in Ops : pc'[p] = "write" => pc[p] = "write"
    BY <1>4, <1>t DEF RoundTripStart, registerCorrelatedRoundTrip, allocateKey,
       admitSpineSend, encodeFails, finishSpineSend, contextDone, abandon,
       sendToSelf, receiveOutcome, cancelContext, Goto, Return, SendFails
  <2> QED
    BY <2>1, <2>2, <1>1
<1>5. ASSUME \/ \E c \in Closers : Close(c) \/ tellRetired(c)
             \/ \E s \in Senders : loadMsgNum(s) \/ swapMsgNum(s)
             \/ \E r \in Readers : admitIncomingSpineMessage(r) \/ ReaderStep(r)
             \/ UNCHANGED vars
      PROVE  HandoffInv'
  <2>1. UNCHANGED <<wire, disposition, pc>>
    BY <1>5 DEF Close, tellRetired, loadMsgNum, swapMsgNum, ReaderStep, vars,
       admitIncomingSpineMessage, prepareCorrelatedResponse, ProcessCmd,
       completeCorrelatedResponse, completeMalformedCorrelatedResponse, settle,
       deliver
  <2> QED
    BY <2>1, <1>1
<1> QED
  BY <1>2, <1>3, <1>4, <1>5 DEF Next, CallStep

(* A failed call that reports NoTransportHandoff left nothing on the wire. *)
THEOREM DispositionCorrect == Spec => []DispositionIsEvidence
<1>1. Init => HandoffInv
  BY DEF Init, HandoffInv
<1>2. HandoffInv => DispositionIsEvidence
  BY DEF HandoffInv, DispositionIsEvidence
<1> QED
  BY <1>1, <1>2, HandoffStep, TypeCorrect, PTL DEF Spec

-----------------------------------------------------------------------------
(* A step adds the one entry that its registration has room for, or none.  *)
LEMMA RoomStep ==
    ASSUME TypeOK, MutexInv, RoomInv, [Next]_vars
    PROVE  RoomInv'
<1> USE NamesAssumption
<1>t. /\ pendingRoundTrips \in [Counters -> Ops \cup {NoOp}]
      /\ PendingKeys \in SUBSET Counters
      /\ Cardinality(PendingKeys) \in Nat /\ IsFiniteSet(PendingKeys)
  BY CountersFinite DEF TypeOK, PendingKeys
<1>1. ASSUME PendingKeys' \subseteq PendingKeys, roundTripMux' \in {NoOp, roundTripMux}
      PROVE  RoomInv'
  <2>1. Cardinality(PendingKeys') <= Cardinality(PendingKeys)
        /\ Cardinality(PendingKeys') \in Nat
    BY <1>1, <1>t, FS_Subset, FS_CardinalityType
  <2> QED
    BY <1>1, <1>t, <2>1, LimitsAssumption DEF RoomInv, CapacityBound
<1>2. ASSUME UNCHANGED <<pendingRoundTrips, roundTripMux>>
      PROVE  RoomInv'
  BY <1>2, <1>1 DEF PendingKeys
<1>3. ASSUME NEW o \in Ops, registerCorrelatedRoundTrip(o) PROVE RoomInv'
  <2>1. PendingKeys' = PendingKeys
    BY <1>3 DEF registerCorrelatedRoundTrip, PendingKeys
  <2>2. roundTripMux' = roundTripMux \/ Cardinality(PendingKeys) < Capacity
    BY <1>3 DEF registerCorrelatedRoundTrip
  <2> QED
    BY <1>t, <2>1, <2>2 DEF RoomInv, CapacityBound
<1>4. ASSUME NEW o \in Ops, allocateKey(o) PROVE RoomInv'
  <2>1. roundTripMux' = NoOp
    BY <1>4 DEF allocateKey
  <2>2. CASE UNCHANGED pendingRoundTrips
    BY <2>1, <2>2, <1>1 DEF PendingKeys
  <2>3. CASE /\ msgNum < MaxCounter
             /\ pendingRoundTrips' = [pendingRoundTrips EXCEPT ![msgNum + 1] = o]
    <3>1. PendingKeys' \subseteq PendingKeys \cup {msgNum + 1}
      BY <2>3, <1>t DEF PendingKeys
    <3>2. Cardinality(PendingKeys) < Capacity
      BY <1>4 DEF allocateKey, MutexInv, RoomInv
    <3>3. /\ IsFiniteSet(PendingKeys \cup {msgNum + 1})
          /\ Cardinality(PendingKeys \cup {msgNum + 1}) <= Capacity
          /\ Cardinality(PendingKeys \cup {msgNum + 1}) \in Nat
      <4>1. /\ IsFiniteSet(PendingKeys \cup {msgNum + 1})
            /\ Cardinality(PendingKeys \cup {msgNum + 1})
                 \in {Cardinality(PendingKeys), Cardinality(PendingKeys) + 1}
        BY <1>t, FS_AddElement
      <4> QED
        BY <1>t, <3>2, <4>1, LimitsAssumption
    <3>4. /\ Cardinality(PendingKeys') <= Cardinality(PendingKeys \cup {msgNum + 1})
          /\ Cardinality(PendingKeys') \in Nat
      BY <3>1, <3>3, FS_Subset, FS_CardinalityType
    <3> QED
      BY <2>1, <3>3, <3>4, LimitsAssumption DEF RoomInv, CapacityBound
  <2> QED
    BY <1>4, <2>2, <2>3 DEF allocateKey
<1>5. ASSUME NEW k \in Counters, finishPending(k), UNCHANGED roundTripMux
      PROVE  RoomInv'
  <2>1. PendingKeys' \subseteq PendingKeys
    BY <1>5, <1>t DEF finishPending, PendingKeys
  <2> QED
    BY <1>5, <2>1, <1>1
<1>6. ASSUME NEW o \in Ops, abandon(o) PROVE RoomInv'
  <2>1. UNCHANGED roundTripMux /\ key[o] \in Counters
    BY <1>6 DEF abandon, TypeOK
  <2> QED
    BY <1>6, <2>1, <1>2, <1>5 DEF abandon
<1>7. ASSUME NEW r \in Readers, settle(r) PROVE RoomInv'
  <2>1. UNCHANGED roundTripMux /\ reader[r].msg.ref \in Counters
    BY <1>7 DEF settle, TypeOK, ReaderStates, Messages
  <2> QED
    BY <1>7, <2>1, <1>2, <1>5 DEF settle
<1>8. ASSUME NEW c \in Closers, Close(c) PROVE RoomInv'
  <2>1. PendingKeys' = {} /\ UNCHANGED roundTripMux
    BY <1>8 DEF Close, PendingKeys
  <2> QED
    BY <2>1, <1>1
<1>9. ASSUME NEW o \in Ops,
             \/ RoundTripStart(o) \/ admitSpineSend(o) \/ encodeFails(o)
             \/ admitCorrelatedTransportHandoff(o) \/ writeShipMessage(o)
             \/ finishSpineSend(o) \/ contextDone(o) \/ sendToSelf(o)
             \/ receiveOutcome(o) \/ cancelContext(o)
      PROVE  RoomInv'
  BY <1>9, <1>2 DEF RoundTripStart, admitSpineSend, encodeFails,
     admitCorrelatedTransportHandoff, writeShipMessage, finishSpineSend,
     contextDone, sendToSelf, receiveOutcome, cancelContext
<1>10. ASSUME \/ \E c \in Closers : tellRetired(c)
              \/ \E s \in Senders : loadMsgNum(s) \/ swapMsgNum(s)
              \/ \E r \in Readers : \/ admitIncomingSpineMessage(r)
                                    \/ prepareCorrelatedResponse(r)
                                    \/ ProcessCmd(r)
                                    \/ completeCorrelatedResponse(r)
                                    \/ completeMalformedCorrelatedResponse(r)
                                    \/ deliver(r)
              \/ UNCHANGED vars
       PROVE  RoomInv'
  BY <1>10, <1>2 DEF tellRetired, loadMsgNum, swapMsgNum, vars,
     admitIncomingSpineMessage, prepareCorrelatedResponse, ProcessCmd,
     completeCorrelatedResponse, completeMalformedCorrelatedResponse, deliver
<1> QED
  BY <1>3, <1>4, <1>6, <1>7, <1>8, <1>9, <1>10 DEF Next, CallStep, ReaderStep

(* The pending table stays within its limit, although the registration     *)
(* that found room inserts its entry in a later step.                      *)
THEOREM CapacityCorrect == Spec => []CapacityBound
<1>1. Init => RoomInv
  <2>1. Init => PendingKeys = {} /\ roundTripMux = NoOp
    BY DEF Init, PendingKeys
  <2> QED
    BY <2>1, FS_EmptySet, LimitsAssumption DEF RoomInv, CapacityBound
<1>2. IInv => TypeOK /\ MutexInv
  BY DEF IInv
<1>3. RoomInv => CapacityBound
  BY DEF RoomInv
<1> QED
  BY <1>1, <1>2, <1>3, RoomStep, InvCorrect, PTL DEF Spec

-----------------------------------------------------------------------------
(* A key, once handed out, stays with its call, and so does its request.   *)
LEMMA KeyKept ==
    ASSUME TypeOK, KeyInv, [Next]_vars
    PROVE  /\ request' = request
           /\ \A o \in Ops : Registered(o) => key'[o] = key[o]
<1>1. ASSUME NEW o \in Ops, allocateKey(o)
      PROVE  /\ request' = request
             /\ \A p \in Ops : Registered(p) => key'[p] = key[p]
  <2>1. ~Registered(o)
    BY <1>1 DEF allocateKey, KeyInv
  <2> QED
    BY <1>1, <2>1 DEF allocateKey, TypeOK
<1>2. ASSUME NEW o \in Ops, RoundTripStart(o) \/ cancelContext(o) \/ CallStep(o)
      PROVE  allocateKey(o) \/ UNCHANGED <<request, key>>
  BY <1>2 DEF RoundTripStart, cancelContext, CallStep,
     registerCorrelatedRoundTrip, admitSpineSend, encodeFails,
     admitCorrelatedTransportHandoff, writeShipMessage, finishSpineSend,
     contextDone, abandon, sendToSelf, receiveOutcome
<1>3. ASSUME \/ \E c \in Closers : Close(c) \/ tellRetired(c)
             \/ \E s \in Senders : loadMsgNum(s) \/ swapMsgNum(s)
             \/ \E r \in Readers : admitIncomingSpineMessage(r) \/ ReaderStep(r)
             \/ UNCHANGED vars
      PROVE  UNCHANGED <<request, key>>
  BY <1>3 DEF Close, tellRetired, loadMsgNum, swapMsgNum, ReaderStep, vars,
     admitIncomingSpineMessage, prepareCorrelatedResponse, ProcessCmd,
     completeCorrelatedResponse, completeMalformedCorrelatedResponse, settle,
     deliver
<1> QED
  BY <1>1, <1>2, <1>3 DEF Next

LEMMA RightKept ==
    ASSUME TypeOK, KeyInv, [Next]_vars, NEW o \in Ops, NEW x, Right(o, x)
    PROVE  Right(o, x)'
BY KeyKept DEF Right, Registered

(* What the steps put into ret and result.                                 *)
LEMMA CallOutcomes ==
    ASSUME TypeOK, OutcomeInv, [Next]_vars, NEW o \in Ops
    PROVE  /\ \/ ret'[o] = ret[o]
              \/ \E t \in Tags \ {"response"} : ret'[o] = Failure(t)
              \/ ret'[o] = result[o]
           /\ \/ result'[o] = result[o]
              \/ result'[o] = NoOutcome
              \/ result'[o] = ret[o]
              \/ result'[o] = Failure("closed")
              \/ \E r \in Readers : /\ reader[r].pc = "deliver"
                                    /\ reader[r].op = o
                                    /\ result'[o] = reader[r].outcome
<1>t. ret \in [Ops -> Outcomes] /\ result \in [Ops -> Outcomes]
  BY DEF TypeOK
<1> DEFINE RetGoal == \/ ret'[o] = ret[o]
                      \/ \E t \in Tags \ {"response"} : ret'[o] = Failure(t)
                      \/ ret'[o] = result[o]
           ResultGoal == \/ result'[o] = result[o]
                         \/ result'[o] = NoOutcome
                         \/ result'[o] = ret[o]
                         \/ result'[o] = Failure("closed")
                         \/ \E r \in Readers : /\ reader[r].pc = "deliver"
                                               /\ reader[r].op = o
                                               /\ result'[o] = reader[r].outcome
<1>1. ASSUME NEW p \in Ops, NEW t \in Tags \ {"response"},
             ret' = [ret EXCEPT ![p] = Failure(t)], UNCHANGED result
      PROVE  RetGoal /\ ResultGoal
  BY <1>1, <1>t
<1>2. ASSUME UNCHANGED <<ret, result>>
      PROVE  RetGoal /\ ResultGoal
  BY <1>2
<1>3. ASSUME NEW p \in Ops,
             \/ RoundTripStart(p) \/ registerCorrelatedRoundTrip(p)
             \/ allocateKey(p) \/ admitSpineSend(p) \/ encodeFails(p)
             \/ admitCorrelatedTransportHandoff(p) \/ writeShipMessage(p)
             \/ finishSpineSend(p) \/ contextDone(p) \/ abandon(p)
             \/ cancelContext(p)
      PROVE  /\ UNCHANGED result
             /\ \/ UNCHANGED ret
                \/ \E t \in Tags \ {"response"} : ret' = [ret EXCEPT ![p] = Failure(t)]
  <2>1. {"ctx", "invalid", "closed", "capacity", "exhausted", "inFlight",
         "retired", "sendFailed"} \subseteq Tags \ {"response"}
    BY DEF Tags
  <2>2. UNCHANGED result
    BY <1>3 DEF RoundTripStart, registerCorrelatedRoundTrip, allocateKey,
       admitSpineSend, encodeFails, admitCorrelatedTransportHandoff,
       writeShipMessage, finishSpineSend, contextDone, abandon, cancelContext
  <2>3. CASE RoundTripStart(p)
    BY <2>1, <2>2, <2>3 DEF RoundTripStart, Return
  <2>4. CASE registerCorrelatedRoundTrip(p)
    BY <2>1, <2>2, <2>4 DEF registerCorrelatedRoundTrip, Return
  <2>5. CASE allocateKey(p)
    BY <2>1, <2>2, <2>5 DEF allocateKey, Return
  <2>6. CASE \/ admitSpineSend(p) \/ encodeFails(p)
             \/ admitCorrelatedTransportHandoff(p) \/ writeShipMessage(p)
             \/ finishSpineSend(p) \/ contextDone(p) \/ abandon(p)
             \/ cancelContext(p)
    BY <2>1, <2>2, <2>6 DEF admitSpineSend, encodeFails,
       admitCorrelatedTransportHandoff, writeShipMessage, finishSpineSend,
       contextDone, abandon, cancelContext, SendFails
  <2> QED
    BY <1>3, <2>3, <2>4, <2>5, <2>6
<1>4. ASSUME NEW p \in Ops, sendToSelf(p) PROVE RetGoal /\ ResultGoal
  BY <1>4, <1>t DEF sendToSelf, Send
<1>5. ASSUME NEW p \in Ops, receiveOutcome(p) PROVE RetGoal /\ ResultGoal
  BY <1>5, <1>t DEF receiveOutcome, Return
<1>6. ASSUME NEW c \in Closers, tellRetired(c) PROVE RetGoal /\ ResultGoal
  BY <1>6, <1>t DEF tellRetired, Send
<1>7. ASSUME NEW r \in Readers, deliver(r) PROVE RetGoal /\ ResultGoal
  BY <1>7, <1>t DEF deliver, Send
<1>8. ASSUME \/ \E c \in Closers : Close(c)
             \/ \E s \in Senders : loadMsgNum(s) \/ swapMsgNum(s)
             \/ \E r \in Readers : \/ admitIncomingSpineMessage(r)
                                   \/ prepareCorrelatedResponse(r)
                                   \/ ProcessCmd(r)
                                   \/ completeCorrelatedResponse(r)
                                   \/ completeMalformedCorrelatedResponse(r)
                                   \/ settle(r)
             \/ UNCHANGED vars
      PROVE  UNCHANGED <<ret, result>>
  BY <1>8 DEF Close, loadMsgNum, swapMsgNum, vars, admitIncomingSpineMessage,
     prepareCorrelatedResponse, ProcessCmd, completeCorrelatedResponse,
     completeMalformedCorrelatedResponse, settle
<1> HIDE DEF RetGoal, ResultGoal
<1>9. RetGoal /\ ResultGoal
  BY <1>1, <1>2, <1>3, <1>4, <1>5, <1>6, <1>7, <1>8 DEF Next, CallStep, ReaderStep
<1> QED
  BY <1>9 DEF RetGoal, ResultGoal

(* An answer classified as a response answers the request it was           *)
(* classified against.                                                     *)
LEMMA ClassifiedRight ==
    ASSUME NEW m, NEW err, NEW o \in Ops, Registered(o), m.ref = key[o]
    PROVE  Right(o, classifyCorrelatedResponse(m, request[o], err))
<1>1. \A t : Failure(t).tag = t
  BY DEF Failure
<1>2. \A t : Answer(t, m).tag = t /\ Answer(t, m).msg = m
  BY DEF Answer
<1> QED
  BY <1>1, <1>2 DEF Right, classifyCorrelatedResponse, NoOutcome

(* What a reader brings to the settlement it found by its own lookup.      *)
LEMMA ReaderFinds ==
    ASSUME TypeOK, KeyInv, NEW r \in Readers,
           admitIncomingSpineMessage(r) \/ ReaderStep(r),
           reader'[r].pc = "settle", reader'[r].outcome.tag = "response"
    PROVE  \E o \in Ops : /\ Registered(o) /\ key[o] = reader'[r].msg.ref
                          /\ Right(o, reader'[r].outcome)
<1>t. reader \in [Readers -> ReaderStates] /\ reader[r] \in ReaderStates
  BY DEF TypeOK
<1>1. reader[r].pc \in {"complete", "malformed"}
  BY ReaderMoves
<1>2. CASE completeCorrelatedResponse(r)
  <2> DEFINE m == reader[r].msg
             op == pendingRoundTrips[m.ref]
             x == classifyCorrelatedResponse(m, request[op], reader[r].processErr)
             s == [reader[r] EXCEPT !.pc = "settle", !.outcome = x,
                                    !.processErr = FALSE]
  <2>1. \/ ReaderGoes(r, IdleReader)
        \/ op # NoOp /\ ReaderGoes(r, s)
    BY <1>2 DEF completeCorrelatedResponse, ReaderReturns
  <2>2. ~ReaderGoes(r, IdleReader)
    <3>1. ReaderGoes(r, IdleReader) => reader'[r] = IdleReader
      BY <1>t, ReaderAt
    <3> QED
      BY <3>1 DEF IdleReader
  <2>3. op # NoOp /\ reader'[r] = s
    <3> HIDE DEF s, op
    <3> QED
      BY <1>t, <2>1, <2>2, ReaderAt
  <2>4. reader'[r].outcome = x /\ reader'[r].msg = m
    <3> HIDE DEF x, m
    <3> QED
      BY <1>t, <2>3 DEF ReaderStates, m
  <2>5. m.ref \in Counters
    BY <1>t DEF ReaderStates, Messages
  <2>6. op \in Ops /\ key[op] = m.ref /\ m.ref # 0
    BY <2>3, <2>5, FoundIsPending DEF KeyInv
  <2>7. Registered(op) /\ Right(op, x)
    BY <2>6, ClassifiedRight DEF Registered
  <2> HIDE DEF x, op, m
  <2> QED
    BY <2>4, <2>6, <2>7
<1>3. CASE completeMalformedCorrelatedResponse(r)
  <2> DEFINE s == [reader[r] EXCEPT !.pc = "settle", !.outcome = Failure("protocol")]
  <2>1. ReaderGoes(r, IdleReader) \/ ReaderGoes(r, s)
    BY <1>3 DEF completeMalformedCorrelatedResponse, ReaderReturns
  <2>2. ReaderGoes(r, IdleReader) => reader'[r].pc = "idle"
    BY <1>t, ReaderAt DEF IdleReader
  <2>3. ReaderGoes(r, s) => reader'[r].outcome = Failure("protocol")
    <3>1. s.outcome = Failure("protocol")
      BY <1>t DEF ReaderStates
    <3> HIDE DEF s
    <3> QED
      BY <1>t, <3>1, ReaderAt
  <2> QED
    BY <2>1, <2>2, <2>3 DEF Failure
<1> QED
  BY <1>1, <1>2, <1>3 DEF admitIncomingSpineMessage, ReaderStep,
     prepareCorrelatedResponse, ProcessCmd, settle, deliver

LEMMA ReaderStays ==
    ASSUME [Next]_vars
    PROVE  \/ reader' = reader
           \/ \E r \in Readers : admitIncomingSpineMessage(r) \/ ReaderStep(r)
<1>1. ASSUME NEW o \in Ops, RoundTripStart(o) \/ cancelContext(o) \/ CallStep(o)
      PROVE  reader' = reader
  BY <1>1 DEF RoundTripStart, cancelContext, CallStep,
     registerCorrelatedRoundTrip, allocateKey, admitSpineSend, encodeFails,
     admitCorrelatedTransportHandoff, writeShipMessage, finishSpineSend,
     contextDone, abandon, sendToSelf, receiveOutcome
<1>2. ASSUME \/ \E c \in Closers : Close(c) \/ tellRetired(c)
             \/ \E s \in Senders : loadMsgNum(s) \/ swapMsgNum(s)
             \/ UNCHANGED vars
      PROVE  reader' = reader
  BY <1>2 DEF Close, tellRetired, loadMsgNum, swapMsgNum, vars
<1> QED
  BY <1>1, <1>2 DEF Next

LEMMA RightStep ==
    ASSUME TypeOK, KeyInv, OutcomeInv, RightInv, [Next]_vars
    PROVE  RightInv'
<1>f. \A t \in Tags \ {"response"} : Failure(t).tag # "response"
  BY DEF Failure
<1>1. ASSUME NEW o \in Ops
      PROVE  RightCall(o)'
  <2>1. Right(o, ret[o]) /\ Right(o, result[o])
    BY DEF RightInv, RightCall
  <2>2. \A x : x.tag # "response" => Right(o, x)
    BY DEF Right
  <2>3. Right(o, ret'[o])
    BY <1>f, <2>1, <2>2, CallOutcomes
  <2>4. Right(o, result'[o])
    <3>1. NoOutcome.tag # "response" /\ Failure("closed").tag # "response"
      BY DEF NoOutcome, Failure
    <3>2. ASSUME NEW r \in Readers, reader[r].pc = "deliver", reader[r].op = o
          PROVE  Right(o, reader[r].outcome)
      BY <3>2 DEF RightInv, RightReader
    <3> QED
      BY <2>1, <2>2, <3>1, <3>2, CallOutcomes
  <2>5. \A x : Right(o, x) => Right(o, x)'
    BY RightKept
  <2>6. Right(o, ret'[o]) => Right(o, ret[o])'
    BY KeyKept DEF Right, Registered
  <2>7. Right(o, result'[o]) => Right(o, result[o])'
    BY KeyKept DEF Right, Registered
  <2> QED
    BY <2>3, <2>4, <2>6, <2>7 DEF RightCall
<1>2. ASSUME NEW r \in Readers, reader'[r] = reader[r]
      PROVE  RightReader(reader[r])'
  <2> DEFINE s == reader[r]
             x == s.outcome
  <2>1. RightReader(s)
    BY DEF RightInv
  <2>2. s' = s
    BY <1>2
  <2>3. ASSUME s.pc = "deliver"
        PROVE  Right(s.op, x)'
    <3>1. s.op \in Ops /\ Right(s.op, x)
      BY <2>1, <2>3 DEF RightReader, OutcomeInv
    <3> QED
      BY <2>2, <3>1, KeyKept DEF Right, Registered
  <2>4. ASSUME s.pc = "settle", x.tag = "response"
        PROVE  \E o \in Ops : (Registered(o) /\ key[o] = s.msg.ref /\ Right(o, x))'
    <3>1. PICK o \in Ops : Registered(o) /\ key[o] = s.msg.ref /\ Right(o, x)
      BY <2>1, <2>4 DEF RightReader
    <3> QED
      BY <2>2, <3>1, KeyKept DEF Right, Registered
  <2> QED
    BY <1>2, <2>3, <2>4 DEF RightReader
<1>3. ASSUME NEW r \in Readers, admitIncomingSpineMessage(r) \/ ReaderStep(r)
      PROVE  RightReader(reader[r])'
  <2>1. UNCHANGED <<request, key>>
    BY <1>3 DEF ReaderStep, admitIncomingSpineMessage,
       prepareCorrelatedResponse, ProcessCmd, completeCorrelatedResponse,
       completeMalformedCorrelatedResponse, settle, deliver
  <2>2. CASE reader'[r].pc = "settle"
    <3>1. reader'[r].outcome.tag = "response" =>
             \E o \in Ops : /\ Registered(o) /\ key[o] = reader'[r].msg.ref
                            /\ Right(o, reader'[r].outcome)
      BY <1>3, <2>2, ReaderFinds
    <3> QED
      BY <2>1, <2>2, <3>1 DEF RightReader, Right, Registered
  <2>3. CASE /\ reader[r].pc = "settle"
             /\ reader'[r].pc = "deliver"
             /\ reader'[r].outcome = reader[r].outcome
             /\ reader'[r].op \in Ops
             /\ reader'[r].op = pendingRoundTrips[reader[r].msg.ref]
             /\ finishPending(reader[r].msg.ref)
    <3>1. reader[r].msg.ref \in Counters
      BY DEF TypeOK, ReaderStates, Messages
    <3>2. PICK op \in Ops : /\ op = reader'[r].op /\ key[op] = reader[r].msg.ref
                           /\ \A p \in Ops : key[p] = reader[r].msg.ref => p = op
      BY <2>3, <3>1, NamesAssumption, FoundIsPending
    <3>3. Right(op, reader[r].outcome)
      BY <2>3, <3>2 DEF RightInv, RightReader, Right
    <3>4. Right(reader[r].op, reader[r].outcome)'
      BY <2>1, <2>3, <3>2, <3>3 DEF Right, Registered
    <3> QED
      BY <2>3, <3>4 DEF RightReader
  <2>4. CASE reader'[r].pc \notin {"settle", "deliver"}
    BY <2>4 DEF RightReader
  <2> QED
    BY <1>3, <2>2, <2>3, <2>4, ReaderMoves
<1>4. ASSUME NEW r \in Readers
      PROVE  RightReader(reader[r])'
  BY <1>2, <1>3, ReaderStays, ReaderMoves
<1> QED
  BY <1>1, <1>4 DEF RightInv

(* A response that a call returns came from its destination under its own  *)
(* key, and is the reply of a read or the result of a write.               *)
THEOREM ResponseCorrect == Spec => []ResponseMatchesRequest
<1>1. Init => RightInv
  <2>1. NoOutcome.tag # "response"
    BY DEF NoOutcome, Failure
  <2> QED
    BY <2>1 DEF Init, RightInv, RightCall, RightReader, Right, IdleReader
<1>2. RightInv => ResponseMatchesRequest
  BY DEF RightInv, RightCall, Right, ResponseMatchesRequest
<1>3. IInv => TypeOK /\ KeyInv /\ OutcomeInv
  BY DEF IInv
<1> QED
  BY <1>1, <1>2, <1>3, RightStep, InvCorrect, PTL DEF Spec

-----------------------------------------------------------------------------
(* The refinement, step by step.                                           *)

(* The outcome of a settled call is with the holder of the invariant.      *)
InHand(o) ==
    /\ pc[o] = "selfSend" => OutcomeOf(o) = ret[o]
    /\ result[o] # NoOutcome => OutcomeOf(o) = result[o]
    /\ \A c \in Closers : o \in retired[c] => OutcomeOf(o) = Failure("closed")
    /\ \A r \in Readers : IsDelivering(r, o) => OutcomeOf(o) = reader[r].outcome

Held(o) == \/ pc[o] = "selfSend"
           \/ result[o] # NoOutcome
           \/ \E c \in Closers : o \in retired[c]
           \/ \E r \in Readers : IsDelivering(r, o)

Abstract(o) ==
    /\ pc[o] = "done" => Status(o) = "returned" /\ OutcomeOf(o) = ret[o]
    /\ pc[o] # "done" /\ IsPending(o) => Status(o) = "open" /\ OutcomeOf(o) = NoOutcome
    /\ pc[o] # "done" /\ ~IsPending(o) /\ ~Registered(o) =>
          Status(o) = "idle" /\ OutcomeOf(o) = NoOutcome
    /\ pc[o] # "done" /\ ~IsPending(o) /\ Registered(o) =>
          Status(o) = "settled" /\ Held(o) /\ InHand(o)
    /\ IsPending(o) => pc[o] # "done" /\ Registered(o) /\ ~Held(o)

AbstractInv == \A o \in Ops : Abstract(o)

LEMMA AbstractState == IInv => AbstractInv
<1> SUFFICES ASSUME IInv, NEW o \in Ops
             PROVE  Abstract(o)
  BY DEF AbstractInv
<1> USE NamesAssumption
<1>h. HolderOf(o) /\ key[o] \in Counters /\ pc[o] \in Places
  BY DEF IInv, HolderInv, TypeOK
<1>1. Pending(o) <=> IsPending(o)
  <2>1. \A k \in Counters : pendingRoundTrips[k] = o => k = key[o]
    BY DEF IInv, KeyInv
  <2> QED
    BY <1>h, <2>1 DEF Pending, IsPending
<1>2. IsPending(o) => pc[o] # "done" /\ Registered(o) /\ ~Held(o)
  <2>1. IsPending(o) => key[o] # 0
    BY <1>h DEF IsPending, IInv, KeyInv
  <2> QED
    BY <1>h, <2>1 DEF HolderOf, InProgress, Registered, Held
<1>3. CASE pc[o] = "done"
  <2>1. Status(o) = "returned"
    BY <1>3 DEF Status
  <2>2. OutcomeOf(o) = ret[o]
    BY <2>1 DEF OutcomeOf
  <2> QED
    BY <1>2, <1>3, <2>1, <2>2 DEF Abstract
<1>4. CASE pc[o] # "done" /\ IsPending(o)
  <2>1. Status(o) = "open"
    BY <1>1, <1>4 DEF Status
  <2>2. OutcomeOf(o) = NoOutcome
    BY <2>1 DEF OutcomeOf
  <2> QED
    BY <1>2, <1>4, <2>1, <2>2 DEF Abstract
<1>5. CASE pc[o] # "done" /\ ~IsPending(o) /\ ~Registered(o)
  <2>1. Status(o) = "idle"
    BY <1>1, <1>5 DEF Status
  <2>2. OutcomeOf(o) = NoOutcome
    BY <2>1 DEF OutcomeOf
  <2> QED
    BY <1>2, <1>5, <2>1, <2>2 DEF Abstract
<1>6. CASE pc[o] # "done" /\ ~IsPending(o) /\ Registered(o)
  <2>1. Status(o) = "settled"
    BY <1>1, <1>6 DEF Status
  <2>2. pc[o] \in InProgress
    BY <1>6, <1>h DEF IInv, KeyInv, Places, InProgress
  <2>3. Held(o)
    <3>1. HolderOf(o) => (pc[o] \in InProgress => IsPending(o) \/ Held(o))
      BY DEF HolderOf, Held
    <3> QED
      BY <1>6, <1>h, <2>2, <3>1
  <2>4. ASSUME pc[o] = "selfSend"
        PROVE  OutcomeOf(o) = ret[o]
    <3>1. result[o] = NoOutcome /\ Telling(o) = {} /\ Delivering(o) = {}
      BY <1>h, <2>4 DEF HolderOf, Telling, Delivering, IsDelivering
    <3> QED
      BY <2>1, <2>4, <3>1 DEF OutcomeOf
  <2>5. ASSUME result[o] # NoOutcome
        PROVE  OutcomeOf(o) = result[o]
    <3>1. pc[o] # "selfSend" /\ Telling(o) = {} /\ Delivering(o) = {}
      BY <1>h, <2>5 DEF HolderOf, Telling, Delivering, IsDelivering
    <3> QED
      BY <2>1, <2>5, <3>1 DEF OutcomeOf
  <2>6. ASSUME NEW c \in Closers, o \in retired[c]
        PROVE  OutcomeOf(o) = Failure("closed")
    <3>1. /\ pc[o] # "selfSend" /\ result[o] = NoOutcome /\ Telling(o) # {}
          /\ Delivering(o) = {}
      BY <1>h, <2>6 DEF HolderOf, Telling, Delivering, IsDelivering
    <3> QED
      BY <2>1, <3>1 DEF OutcomeOf
  <2>7. ASSUME NEW r \in Readers, IsDelivering(r, o)
        PROVE  OutcomeOf(o) = reader[r].outcome
    <3>1. pc[o] # "selfSend" /\ result[o] = NoOutcome /\ Telling(o) = {}
      BY <1>h, <2>7 DEF HolderOf, Telling
    <3>2. Delivering(o) = {r}
      BY <1>h, <2>7 DEF HolderOf, Delivering, IsDelivering
    <3>3. (CHOOSE q \in Readers : q \in Delivering(o)) = r
      BY <3>2
    <3>4. OutcomeOf(o) = reader[CHOOSE q \in Readers : q \in Delivering(o)].outcome
      BY <2>1, <3>1, <3>2 DEF OutcomeOf
    <3> QED
      BY <3>3, <3>4
  <2> QED
    BY <1>2, <1>6, <2>1, <2>3, <2>4, <2>5, <2>6, <2>7 DEF Abstract, InHand
<1> QED
  BY <1>3, <1>4, <1>5, <1>6

LEMMA AbstractNext == IInv' => AbstractInv'
BY AbstractState, PTL

-----------------------------------------------------------------------------
(* A step of the sender as a step of the service.                          *)
Before == IInv /\ AbstractInv /\ RoomInv
After == IInv' /\ AbstractInv'
SameOutside(o) == /\ Status(o)' = Status(o)
                  /\ OutcomeOf(o)' = OutcomeOf(o)
StatusGoes(o, s) == /\ \A p \in Ops \ {o} : SameOutside(p)
                    /\ Status(o)' = s
                    /\ UNCHANGED roundTripsClosed
Stutters == /\ \A o \in Ops : SameOutside(o)
            /\ UNCHANGED roundTripsClosed
Simulated == [Service!Next]_(Service!svars)

(* What an operation shows stays if its holders do and it neither returns  *)
(* nor starts to tell itself.                                              *)
SameView(o) ==
    /\ SameHolders(o)
    /\ pc'[o] = "done" <=> pc[o] = "done"
    /\ pc'[o] = "selfSend" <=> pc[o] = "selfSend"
    /\ pc[o] \in {"done", "selfSend"} => ret'[o] = ret[o]
    /\ \A r \in Readers : IsDelivering(r, o) => reader'[r].outcome = reader[r].outcome

LEMMA ViewKept ==
    ASSUME Before, After, NEW o \in Ops, SameView(o)
    PROVE  SameOutside(o)
<1>1. Abstract(o) /\ Abstract(o)'
  BY DEF Before, After, AbstractInv
<1>2. /\ Registered(o)' <=> Registered(o)
      /\ IsPending(o)' <=> IsPending(o)
      /\ pc'[o] = "done" <=> pc[o] = "done"
  BY DEF SameView, SameHolders, Registered
<1>3. CASE pc[o] = "done" \/ IsPending(o) \/ ~Registered(o)
  BY <1>1, <1>2, <1>3 DEF Abstract, SameOutside, SameView
<1>4. CASE pc[o] # "done" /\ ~IsPending(o) /\ Registered(o)
  <2>1. Status(o) = "settled" /\ Status(o)' = "settled"
    BY <1>1, <1>2, <1>4 DEF Abstract
  <2>2. Held(o) /\ InHand(o) /\ InHand(o)'
    BY <1>1, <1>2, <1>4 DEF Abstract
  <2>3. OutcomeOf(o)' = OutcomeOf(o)
    <3>1. CASE pc[o] = "selfSend"
      BY <2>2, <3>1 DEF InHand, SameView
    <3>2. CASE result[o] # NoOutcome
      BY <2>2, <3>2 DEF InHand, SameView, SameHolders
    <3>3. ASSUME NEW c \in Closers, o \in retired[c]
          PROVE  OutcomeOf(o)' = OutcomeOf(o)
      BY <2>2, <3>3 DEF InHand, SameView, SameHolders, SameClosers
    <3>4. ASSUME NEW r \in Readers, IsDelivering(r, o)
          PROVE  OutcomeOf(o)' = OutcomeOf(o)
      BY <2>2, <3>4 DEF InHand, SameView, SameHolders, SameReaders
    <3> QED
      BY <2>2, <3>1, <3>2, <3>3, <3>4 DEF Held
  <2> QED
    BY <2>1, <2>3 DEF SameOutside
<1> QED
  BY <1>3, <1>4

(* From the change of one operation to the action of the service.          *)
LEMMA StutterSimulated ==
    ASSUME Stutters
    PROVE  Simulated
<1>1. [o \in Ops |-> Status(o)]' = [o \in Ops |-> Status(o)]
  BY DEF Stutters, SameOutside
<1>2. [o \in Ops |-> OutcomeOf(o)]' = [o \in Ops |-> OutcomeOf(o)]
  BY DEF Stutters, SameOutside
<1> QED
  BY <1>1, <1>2 DEF Simulated, Stutters, Service!svars

LEMMA MoveSimulated ==
    ASSUME NEW o \in Ops, NEW s, StatusGoes(o, s)
    PROVE  /\ [p \in Ops |-> Status(p)]' = [[p \in Ops |-> Status(p)] EXCEPT ![o] = s]
           /\ [p \in Ops |-> OutcomeOf(p)]' =
                 [[p \in Ops |-> OutcomeOf(p)] EXCEPT ![o] = OutcomeOf(o)']
<1> DEFINE st == [p \in Ops |-> Status(p)]
           ou == [p \in Ops |-> OutcomeOf(p)]
<1>1. \A p \in Ops \ {o} : Status(p)' = Status(p) /\ OutcomeOf(p)' = OutcomeOf(p)
  BY DEF StatusGoes, SameOutside
<1>2. st' = [p \in Ops |-> IF p = o THEN s ELSE Status(p)]
  BY <1>1 DEF StatusGoes
<1>3. ou' = [p \in Ops |-> IF p = o THEN OutcomeOf(o)' ELSE OutcomeOf(p)]
  BY <1>1
<1> QED
  BY <1>2, <1>3

LEMMA RejectSimulated ==
    ASSUME NEW o \in Ops, StatusGoes(o, "returned"), Status(o) = "idle",
           NEW t \in {"ctx", "invalid", "closed", "capacity", "exhausted",
                      "inFlight", "retired"},
           OutcomeOf(o)' = Failure(t)
    PROVE  Simulated
<1>1. Service!Reject(o)
  BY MoveSimulated DEF Service!Reject, StatusGoes
<1> QED
  BY <1>1 DEF Simulated, Service!Next

LEMMA SettleSimulated ==
    ASSUME NEW o \in Ops, StatusGoes(o, "settled"), Status(o) = "open",
           OutcomeOf(o)' \in Outcomes
    PROVE  Simulated
<1>1. Service!Settle(o)
  BY MoveSimulated DEF Service!Settle, StatusGoes
<1> QED
  BY <1>1 DEF Simulated, Service!Next

LEMMA ReturnSimulated ==
    ASSUME NEW o \in Ops, StatusGoes(o, "returned"), Status(o) = "settled",
           OutcomeOf(o)' = OutcomeOf(o)
    PROVE  Simulated
<1> DEFINE ou == [p \in Ops |-> OutcomeOf(p)]
<1>1. ou' = [ou EXCEPT ![o] = OutcomeOf(o)']
  BY MoveSimulated
<1>2. ou' = ou
  BY <1>1
<1>3. Service!Return(o)
  BY <1>2, MoveSimulated DEF Service!Return, StatusGoes
<1> QED
  BY <1>3 DEF Simulated, Service!Next

(* The instance has a Cardinality of its own.                              *)
LEMMA ServiceCardinality ==
    ASSUME NEW S
    PROVE  Service!Cardinality(S) = Cardinality(S)
BY DEF Service!Cardinality, Cardinality

(* As many calls are open as keys are pending.                             *)
LEMMA AdmitSimulated ==
    ASSUME Before, NEW o \in Ops, StatusGoes(o, "open"), Status(o) = "idle",
           OutcomeOf(o)' = OutcomeOf(o), ~roundTripsClosed, roundTripMux # NoOp
    PROVE  Simulated
<1> DEFINE ou == [p \in Ops |-> OutcomeOf(p)]
<1>1. ou' = [ou EXCEPT ![o] = OutcomeOf(o)']
  BY MoveSimulated
<1>2. ou' = ou
  BY <1>1
<1>3. Service!Open = {p \in Ops : Status(p) = "open"}
  BY DEF Service!Open
<1>4. Cardinality(Service!Open) < Capacity
  <2> DEFINE f == [p \in Service!Open |-> key[p]]
  <2>1. \A p \in Service!Open : p \in Ops /\ IsPending(p) /\ Registered(p)
    BY <1>3 DEF Before, AbstractInv, Abstract
  <2>2. PendingKeys \in SUBSET Counters
    BY DEF PendingKeys
  <2>3. IsFiniteSet(PendingKeys) /\ Cardinality(PendingKeys) \in Nat
    BY <2>2, CountersFinite
  <2>4. \A p \in Service!Open : key[p] \in PendingKeys
    BY <2>1, NamesAssumption DEF PendingKeys, IsPending, Before, IInv, TypeOK
  <2>5. \A p, q \in Service!Open : key[p] = key[q] => p = q
    BY <2>1 DEF Before, IInv, KeyInv, KeysUnique
  <2>6. f \in Injection(Service!Open, PendingKeys)
    BY <2>4, <2>5 DEF Injection, IsInjective
  <2>7. Cardinality(Service!Open) <= Cardinality(PendingKeys)
        /\ Cardinality(Service!Open) \in Nat
    BY <2>3, <2>6, FS_Injection, FS_CardinalityType
  <2>8. Cardinality(PendingKeys) < Capacity
    BY DEF Before, RoomInv
  <2> QED
    BY <2>3, <2>7, <2>8, LimitsAssumption
<1>5. Service!Admit(o)
  <2> DEFINE st == [p \in Ops |-> Status(p)]
  <2>1. st[o] = "idle" /\ ou' = ou /\ UNCHANGED roundTripsClosed
    BY <1>2 DEF StatusGoes
  <2>2. st' = [st EXCEPT ![o] = "open"]
    BY MoveSimulated
  <2> HIDE DEF ou
  <2>3. st[o] = "idle" /\ ~roundTripsClosed /\ Cardinality(Service!Open) < Capacity
        /\ st' = [st EXCEPT ![o] = "open"] /\ UNCHANGED <<ou, roundTripsClosed>>
    BY <1>4, <2>1, <2>2
  <2> QED
    BY <2>3, ServiceCardinality DEF Service!Admit, ou
<1> QED
  BY <1>5 DEF Simulated, Service!Next

-----------------------------------------------------------------------------
LEMMA RejectStep ==
    ASSUME Before, After, NEW o \in Ops,
           NEW t \in {"ctx", "invalid", "closed", "capacity", "exhausted",
                      "inFlight", "retired"},
           pc[o] \in {"idle", "register", "allocate"},
           Return(o, Failure(t)),
           UNCHANGED <<pendingRoundTrips, key, result, reader, retired,
                       roundTripsClosed>>
    PROVE  Simulated
<1>t. pc \in [Ops -> Places] /\ ret \in [Ops -> Outcomes]
  BY DEF Before, IInv, TypeOK
<1>1. pc'[o] = "done" /\ ret'[o] = Failure(t)
  BY <1>t DEF Return, Goto
<1>2. \A p \in Ops \ {o} : SameView(p)
  BY <1>t DEF SameView, SameHolders, SameReaders, SameClosers, IsPending,
     IsDelivering, Return, Goto
<1>3. \A p \in Ops \ {o} : SameOutside(p)
  BY <1>2, ViewKept
<1>4. ~Registered(o)
  BY DEF Before, IInv, KeyInv
<1>5. Status(o) = "idle"
  BY <1>4 DEF Before, AbstractInv, Abstract
<1>6. Status(o)' = "returned" /\ OutcomeOf(o)' = Failure(t)
  BY <1>1 DEF After, AbstractInv, Abstract
<1> QED
  BY <1>3, <1>5, <1>6, RejectSimulated DEF StatusGoes

(* A call goes on and nothing of it can be seen outside.                   *)
LEMMA InnerStep ==
    ASSUME Before, After, NEW o \in Ops,
           NEW place \in Places \ {"done", "selfSend"},
           pc[o] \notin {"done", "selfSend"},
           Goto(o, place), \A p \in Ops \ {o} : ret'[p] = ret[p],
           UNCHANGED <<pendingRoundTrips, key, result, reader, retired,
                       roundTripsClosed>>
    PROVE  Simulated
<1>t. pc \in [Ops -> Places]
  BY DEF Before, IInv, TypeOK
<1>1. \A p \in Ops : SameView(p)
  BY <1>t DEF SameView, SameHolders, SameReaders, SameClosers, IsPending,
     IsDelivering, Goto
<1> QED
  BY <1>1, ViewKept, StutterSimulated DEF Stutters

LEMMA QuietStep ==
    ASSUME Before, After, \A o \in Ops : SameReaders(o),
           \A r \in Readers : reader[r].pc = "deliver" =>
                                 reader'[r].outcome = reader[r].outcome,
           UNCHANGED <<pc, ret, pendingRoundTrips, key, result, retired,
                       roundTripsClosed>>
    PROVE  Simulated
<1>1. \A p \in Ops : SameView(p)
  BY DEF SameView, SameHolders, SameClosers, IsPending, IsDelivering
<1> QED
  BY <1>1, ViewKept, StutterSimulated DEF Stutters

LEMMA AllocateStep ==
    ASSUME Before, After, NEW o \in Ops, allocateKey(o)
    PROVE  Simulated
<1>t. /\ pc \in [Ops -> Places] /\ ret \in [Ops -> Outcomes]
      /\ key \in [Ops -> Counters] /\ msgNum \in Counters
      /\ pendingRoundTrips \in [Counters -> Ops \cup {NoOp}]
  BY DEF Before, IInv, TypeOK
<1>1. /\ pc[o] = "allocate"
      /\ UNCHANGED <<result, reader, retired, roundTripsClosed>>
  BY DEF allocateKey
<1>2. ASSUME NEW t \in {"exhausted", "inFlight", "retired"}, Return(o, Failure(t)),
             UNCHANGED <<pendingRoundTrips, key>>
      PROVE  Simulated
  BY <1>1, <1>2, RejectStep
<1>3. CASE /\ msgNum < MaxCounter
           /\ pendingRoundTrips[msgNum + 1] = NoOp
           /\ pendingRoundTrips' = [pendingRoundTrips EXCEPT ![msgNum + 1] = o]
           /\ key' = [key EXCEPT ![o] = msgNum + 1]
           /\ Goto(o, "admit")
           /\ UNCHANGED ret
  <2>1. msgNum + 1 \in Counters
    BY <1>3, <1>t, LimitsAssumption DEF Counters
  <2>2. \A p \in Ops \ {o} : SameView(p)
    BY <1>1, <1>3, <1>t, <2>1, NamesAssumption DEF SameView, SameHolders,
       SameReaders, SameClosers, IsPending, IsDelivering, Goto
  <2>3. \A p \in Ops \ {o} : SameOutside(p)
    BY <2>2, ViewKept
  <2>4. ~Registered(o) /\ roundTripMux = o /\ ~roundTripsClosed
    BY <1>1, NamesAssumption DEF Before, IInv, KeyInv, MutexInv
  <2>5. Status(o) = "idle" /\ OutcomeOf(o) = NoOutcome
    BY <1>1, <2>4 DEF Before, AbstractInv, Abstract
  <2>6. pc'[o] = "admit" /\ IsPending(o)'
    BY <1>3, <1>t, <2>1 DEF Goto, IsPending
  <2>7. Status(o)' = "open" /\ OutcomeOf(o)' = NoOutcome
    BY <2>6 DEF After, AbstractInv, Abstract
  <2> QED
    BY <1>1, <2>3, <2>4, <2>5, <2>7, NamesAssumption, AdmitSimulated DEF StatusGoes
<1> QED
  BY <1>2, <1>3 DEF allocateKey

(* A call takes its pending entry out and keeps its error.                 *)
LEMMA AbandonStep ==
    ASSUME Before, After, NEW o \in Ops, abandon(o)
    PROVE  Simulated
<1>t. /\ pc \in [Ops -> Places] /\ ret \in [Ops -> Outcomes]
      /\ key \in [Ops -> Counters]
      /\ pendingRoundTrips \in [Counters -> Ops \cup {NoOp}]
  BY DEF Before, IInv, TypeOK
<1>1. /\ pc[o] = "failed"
      /\ UNCHANGED <<key, ret, result, reader, retired, roundTripsClosed>>
  BY DEF abandon
<1>2. CASE Goto(o, "drain") /\ UNCHANGED pendingRoundTrips
  BY <1>1, <1>2, InnerStep DEF Places
<1>3. CASE /\ pendingRoundTrips[key[o]] # NoOp
           /\ finishPending(key[o])
           /\ Goto(o, "selfSend")
  <2>1. IsPending(o) /\ \A p \in Ops : key[p] = key[o] => p = o
    BY <1>3, <1>t, FoundIsPending DEF Before, IInv
  <2>2. pendingRoundTrips' = [pendingRoundTrips EXCEPT ![key[o]] = NoOp]
    BY <1>3 DEF finishPending
  <2>3. \A p \in Ops \ {o} : IsPending(p)' <=> IsPending(p)
    BY <1>1, <1>t, <2>1, <2>2 DEF IsPending
  <2>4. \A p \in Ops \ {o} : SameView(p)
    BY <1>1, <1>3, <1>t, <2>3 DEF SameView, SameHolders, SameReaders,
       SameClosers, IsDelivering, Goto
  <2>5. \A p \in Ops \ {o} : SameOutside(p)
    BY <2>4, ViewKept
  <2>6. Status(o) = "open" /\ Registered(o)
    BY <1>1, <2>1 DEF Before, AbstractInv, Abstract
  <2>7. pc'[o] = "selfSend" /\ ~IsPending(o)' /\ Registered(o)'
    BY <1>1, <1>3, <1>t, <2>2, <2>6, NamesAssumption DEF IsPending, Goto, Registered
  <2>8. Status(o)' = "settled" /\ OutcomeOf(o)' = ret'[o]
    BY <2>7 DEF After, AbstractInv, Abstract, InHand
  <2> QED
    BY <1>1, <1>t, <2>5, <2>6, <2>8, SettleSimulated DEF StatusGoes
<1> QED
  BY <1>2, <1>3 DEF abandon

LEMMA ReturnStep ==
    ASSUME Before, After, NEW o \in Ops, sendToSelf(o) \/ receiveOutcome(o)
    PROVE  Simulated
<1>t. /\ pc \in [Ops -> Places] /\ ret \in [Ops -> Outcomes]
      /\ result \in [Ops -> Outcomes]
  BY DEF Before, IInv, TypeOK
<1>1. UNCHANGED <<pendingRoundTrips, key, reader, retired, roundTripsClosed>>
  BY DEF sendToSelf, receiveOutcome
<1>2. pc'[o] = "done" /\ pc[o] # "done" /\ pc[o] \in InProgress
  BY <1>t DEF sendToSelf, receiveOutcome, Goto, Return, InProgress
<1>3. \A p \in Ops \ {o} : /\ pc'[p] = pc[p] /\ ret'[p] = ret[p]
                           /\ result'[p] = result[p]
  BY <1>t DEF sendToSelf, receiveOutcome, Goto, Return, Send
<1>4. \A p \in Ops \ {o} : SameView(p)
  BY <1>1, <1>3 DEF SameView, SameHolders, SameReaders, SameClosers, IsPending,
     IsDelivering
<1>5. \A p \in Ops \ {o} : SameOutside(p)
  BY <1>4, ViewKept
<1>6. Abstract(o) /\ Abstract(o)' /\ Registered(o)
  BY <1>2 DEF Before, After, AbstractInv, IInv, KeyInv
<1>7. Status(o)' = "returned" /\ OutcomeOf(o)' = ret'[o]
  BY <1>2, <1>6 DEF Abstract
<1>8. pc[o] = "selfSend" \/ result[o] # NoOutcome
  BY DEF sendToSelf, receiveOutcome
<1>9. Status(o) = "settled" /\ InHand(o)
  BY <1>2, <1>6, <1>8 DEF Abstract, Held
<1>10. OutcomeOf(o) = ret'[o]
  BY <1>9, <1>t DEF InHand, sendToSelf, receiveOutcome, Return
<1> QED
  BY <1>1, <1>5, <1>7, <1>9, <1>10, ReturnSimulated DEF StatusGoes

(* An outcome goes from a closer or a reader into the channel.             *)
LEMMA ChannelStep ==
    ASSUME Before, After, NEW o \in Ops, NEW x \in Outcomes \ {NoOutcome},
           Send(o, x),
           \/ /\ reader' = reader
              /\ \E c \in Closers : /\ o \in retired[c] /\ x = Failure("closed")
                                    /\ retired' = [retired EXCEPT ![c] = @ \ {o}]
           \/ /\ retired' = retired
              /\ \E r \in Readers : /\ IsDelivering(r, o) /\ x = reader[r].outcome
                                    /\ ReaderReturns(r),
           UNCHANGED <<pendingRoundTrips, key, pc, ret, roundTripsClosed>>
    PROVE  Simulated
<1>t. /\ result \in [Ops -> Outcomes] /\ reader \in [Readers -> ReaderStates]
      /\ retired \in [Closers -> SUBSET Ops]
  BY DEF Before, IInv, TypeOK
<1>1. result'[o] = x /\ \A p \in Ops \ {o} : result'[p] = result[p]
  BY <1>t DEF Send
<1>2. \A p \in Ops \ {o} : SameClosers(p) /\ SameReaders(p)
  <2>1. CASE reader' = reader
    BY <1>t, <2>1 DEF SameClosers, SameReaders, IsDelivering
  <2>2. ASSUME retired' = retired, NEW r \in Readers, IsDelivering(r, o), ReaderReturns(r)
        PROVE  \A p \in Ops \ {o} : SameClosers(p) /\ SameReaders(p)
    <3>1. reader'[r] = IdleReader /\ \A q \in Readers \ {r} : reader'[q] = reader[q]
      BY <1>t, <2>2, ReaderAt DEF ReaderReturns
    <3>2. reader'[r].pc # "deliver"
      BY <3>1 DEF IdleReader
    <3> QED
      BY <2>2, <3>1, <3>2 DEF SameClosers, SameReaders, IsDelivering
  <2> QED
    BY <2>1, <2>2
<1>3. \A p \in Ops \ {o} : \A r \in Readers :
         IsDelivering(r, p) => reader'[r].outcome = reader[r].outcome
  <2>1. ASSUME NEW r \in Readers, IsDelivering(r, o), ReaderReturns(r),
               NEW p \in Ops \ {o}, NEW q \in Readers, IsDelivering(q, p)
        PROVE  reader'[q].outcome = reader[q].outcome
    <3>1. q # r
      BY <2>1 DEF IsDelivering
    <3> QED
      BY <1>t, <2>1, <3>1, ReaderAt DEF ReaderReturns
  <2> QED
    BY <2>1
<1>4. \A p \in Ops \ {o} : SameView(p)
  BY <1>1, <1>2, <1>3 DEF SameView, SameHolders, IsPending
<1>5. Abstract(o) /\ Abstract(o)' /\ HolderOf(o)
  BY DEF Before, After, AbstractInv, IInv, HolderInv
<1>6. Held(o) /\ Registered(o)
  BY <1>5 DEF Held, HolderOf
<1>7. ~IsPending(o)
  BY <1>5, <1>6 DEF Abstract
<1>8. Registered(o)' /\ ~IsPending(o)'
  BY <1>6, <1>7 DEF Registered, IsPending
<1>9. SameOutside(o)
  <2>1. CASE pc[o] = "done"
    BY <2>1, <1>5 DEF Abstract, SameOutside
  <2>2. CASE pc[o] # "done"
    <3>1. /\ Status(o) = "settled" /\ InHand(o)
          /\ Status(o)' = "settled" /\ InHand(o)'
      BY <1>5, <1>6, <1>7, <1>8, <2>2 DEF Abstract
    <3>2. OutcomeOf(o) = x
      BY <3>1 DEF InHand
    <3>3. OutcomeOf(o)' = x
      BY <3>1, <1>1 DEF InHand
    <3> QED
      BY <3>1, <3>2, <3>3 DEF SameOutside
  <2> QED
    BY <2>1, <2>2
<1> QED
  BY <1>4, <1>9, ViewKept, StutterSimulated DEF Stutters

LEMMA TellStep ==
    ASSUME Before, After, NEW c \in Closers, tellRetired(c)
    PROVE  Simulated
<1>1. PICK o \in retired[c] : /\ Send(o, Failure("closed"))
                              /\ retired' = [retired EXCEPT ![c] = @ \ {o}]
  BY DEF tellRetired
<1>2. o \in Ops
  BY DEF Before, IInv, TypeOK
<1>3. UNCHANGED <<pendingRoundTrips, key, pc, ret, reader, roundTripsClosed>>
  BY DEF tellRetired
<1>4. Failure("closed") \in Outcomes \ {NoOutcome}
  BY OutcomeTypes DEF Failure, NoOutcome, Tags
<1> QED
  BY <1>1, <1>2, <1>3, <1>4, ChannelStep

LEMMA DeliverStep ==
    ASSUME Before, After, NEW r \in Readers, deliver(r)
    PROVE  Simulated
<1>1. PICK o, x : /\ o = reader[r].op /\ x = reader[r].outcome
                  /\ reader[r].pc = "deliver" /\ Send(o, x) /\ ReaderReturns(r)
  BY DEF deliver
<1>2. o \in Ops /\ x \in Outcomes \ {NoOutcome}
  BY <1>1 DEF Before, IInv, TypeOK, OutcomeInv, ReaderStates
<1>3. UNCHANGED <<pendingRoundTrips, key, pc, ret, retired, roundTripsClosed>>
  BY DEF deliver
<1>4. IsDelivering(r, o)
  BY <1>1 DEF IsDelivering
<1> QED
  BY <1>1, <1>2, <1>3, <1>4, ChannelStep

LEMMA SettleStep ==
    ASSUME Before, After, NEW r \in Readers, settle(r)
    PROVE  Simulated
<1>t. /\ reader \in [Readers -> ReaderStates]
      /\ pendingRoundTrips \in [Counters -> Ops \cup {NoOp}]
      /\ key \in [Ops -> Counters] /\ reader[r].msg.ref \in Counters
      /\ reader[r].outcome \in Outcomes
  BY DEF Before, IInv, TypeOK, ReaderStates, Messages
<1>1. /\ reader[r].pc = "settle"
      /\ UNCHANGED <<pc, ret, key, result, retired, roundTripsClosed>>
  BY DEF settle
<1>m. /\ \A q \in Readers \ {r} : reader'[q] = reader[q]
      /\ reader'[r].pc = "deliver" => /\ reader'[r].outcome = reader[r].outcome
                                      /\ reader'[r].op \in Ops
                                      /\ reader'[r].op = pendingRoundTrips[reader[r].msg.ref]
                                      /\ finishPending(reader[r].msg.ref)
  BY <1>1, ReaderMoves DEF Before, IInv, ReaderStep
<1>2. CASE reader'[r].pc # "deliver"
  <2>1. UNCHANGED pendingRoundTrips
    <3>1. ASSUME NEW op \in Ops, ReaderGoes(r, [reader[r] EXCEPT !.pc = "deliver", !.op = op])
          PROVE  FALSE
      <4> DEFINE s == [reader[r] EXCEPT !.pc = "deliver", !.op = op]
      <4>1. s.pc = "deliver"
        BY <1>t DEF ReaderStates
      <4> HIDE DEF s
      <4>2. reader'[r] = s
        BY <1>t, <3>1, ReaderAt DEF s
      <4> QED
        BY <1>2, <4>1, <4>2
    <3> QED
      BY <1>t, <3>1 DEF settle
  <2>2. \A p \in Ops : SameReaders(p)
    BY <1>1, <1>2, <1>m DEF SameReaders, IsDelivering
  <2> QED
    BY <1>1, <1>m, <2>1, <2>2, QuietStep
<1>3. CASE reader'[r].pc = "deliver"
  <2> DEFINE k == reader[r].msg.ref
  <2>1. PICK o \in Ops : o = reader'[r].op /\ o = pendingRoundTrips[k]
    BY <1>3, <1>m
  <2>2. IsPending(o) /\ key[o] = k /\ \A p \in Ops : key[p] = k => p = o
    BY <1>t, <2>1, NamesAssumption, FoundIsPending DEF Before, IInv
  <2>3. pendingRoundTrips' = [pendingRoundTrips EXCEPT ![k] = NoOp]
    BY <1>3, <1>m DEF finishPending
  <2> HIDE DEF k
  <2>4. \A p \in Ops \ {o} : IsPending(p)' <=> IsPending(p)
    BY <1>1, <1>t, <2>2, <2>3 DEF IsPending
  <2>5. \A p \in Ops \ {o} : SameReaders(p)
    BY <1>1, <1>m, <2>1 DEF SameReaders, IsDelivering
  <2>6. \A p \in Ops \ {o} : SameView(p)
    BY <1>1, <1>m, <2>4, <2>5 DEF SameView, SameHolders, SameClosers, IsDelivering
  <2>7. \A p \in Ops \ {o} : SameOutside(p)
    BY <2>6, ViewKept
  <2>8. pc[o] # "done" /\ Registered(o) /\ Status(o) = "open"
    BY <2>2 DEF Before, AbstractInv, Abstract
  <2>9. Registered(o)' /\ ~IsPending(o)' /\ IsDelivering(r, o)'
    BY <1>1, <1>3, <1>t, <2>1, <2>2, <2>3, <2>8, NamesAssumption
       DEF IsPending, IsDelivering, Registered
  <2>10. Status(o)' = "settled" /\ OutcomeOf(o)' = reader'[r].outcome
    BY <1>1, <2>8, <2>9 DEF After, AbstractInv, Abstract, InHand
  <2> QED
    BY <1>1, <1>3, <1>m, <1>t, <2>7, <2>8, <2>10, SettleSimulated DEF StatusGoes
<1> QED
  BY <1>2, <1>3

(* Close settles every open call in one step.                              *)
LEMMA CloseStep ==
    ASSUME Before, After, NEW c \in Closers, Close(c)
    PROVE  Simulated
<1>t. /\ retired \in [Closers -> SUBSET Ops]
      /\ key \in [Ops -> Counters]
      /\ pendingRoundTrips \in [Counters -> Ops \cup {NoOp}]
  BY DEF Before, IInv, TypeOK
<1>1. /\ ~roundTripsClosed /\ roundTripsClosed' = TRUE /\ retired[c] = {}
      /\ retired' = [retired EXCEPT ![c] = PendingOps]
      /\ pendingRoundTrips' = [k \in Counters |-> NoOp]
      /\ UNCHANGED <<pc, ret, key, result, reader>>
  BY DEF Close
<1>2. \A o \in Ops : o \in PendingOps <=> IsPending(o)
  <2>1. ASSUME NEW o \in Ops, o \in PendingOps PROVE IsPending(o)
    <3>1. PICK k \in Counters : pendingRoundTrips[k] # NoOp /\ o = pendingRoundTrips[k]
      BY <2>1 DEF PendingOps, PendingKeys
    <3> QED
      BY <3>1, FoundIsPending DEF Before, IInv
  <2>2. ASSUME NEW o \in Ops, IsPending(o) PROVE o \in PendingOps
    BY <2>2, <1>t, NamesAssumption DEF IsPending, PendingOps, PendingKeys
  <2> QED
    BY <2>1, <2>2
<1>3. \A o \in Ops : ~IsPending(o)' /\ (Registered(o)' <=> Registered(o))
  BY <1>1, <1>t, NamesAssumption DEF IsPending, Registered
<1>4. ASSUME NEW o \in Ops, IsPending(o)
      PROVE  /\ Status(o) = "open"
             /\ Status(o)' = "settled" /\ OutcomeOf(o)' = Failure("closed")
  <2>1. Status(o) = "open" /\ pc[o] # "done" /\ Registered(o)
    BY <1>4 DEF Before, AbstractInv, Abstract
  <2>2. o \in retired'[c]
    BY <1>1, <1>2, <1>4, <1>t
  <2> QED
    BY <1>1, <1>3, <2>1, <2>2 DEF After, AbstractInv, Abstract, InHand
<1>5. ASSUME NEW o \in Ops, ~IsPending(o)
      PROVE  Status(o) # "open" /\ SameOutside(o)
  <2>1. SameView(o)
    BY <1>1, <1>2, <1>3, <1>5, <1>t DEF SameView, SameHolders, SameReaders,
       SameClosers, IsDelivering
  <2>2. Status(o) # "open"
    BY <1>5 DEF Before, AbstractInv, Abstract
  <2> QED
    BY <2>1, <2>2, ViewKept
<1> DEFINE st == [o \in Ops |-> Status(o)]
           ou == [o \in Ops |-> OutcomeOf(o)]
<1>6. \A o \in Ops : o \in Service!Open <=> IsPending(o)
  BY <1>4, <1>5 DEF Service!Open
<1>7. st' = [o \in Ops |-> IF o \in Service!Open THEN "settled" ELSE st[o]]
  BY <1>4, <1>5, <1>6 DEF SameOutside
<1>8. ou' = [o \in Ops |-> IF o \in Service!Open THEN Failure("closed") ELSE ou[o]]
  BY <1>4, <1>5, <1>6 DEF SameOutside
<1>9. Service!Shutdown
  BY <1>1, <1>7, <1>8 DEF Service!Shutdown
<1> QED
  BY <1>9 DEF Simulated, Service!Next

LEMMA CallSimulated ==
    ASSUME Before, After, NEW o \in Ops,
           RoundTripStart(o) \/ CallStep(o) \/ cancelContext(o)
    PROVE  Simulated
<1>t. ret \in [Ops -> Outcomes]
  BY DEF Before, IInv, TypeOK
<1>1. CASE RoundTripStart(o)
  <2>1. UNCHANGED <<pendingRoundTrips, key, result, reader, retired, roundTripsClosed>>
        /\ pc[o] = "idle"
    BY <1>1 DEF RoundTripStart
  <2>2. \/ \E t \in {"ctx", "invalid"} : Return(o, Failure(t))
        \/ Goto(o, "register") /\ UNCHANGED ret
    BY <1>1 DEF RoundTripStart
  <2> QED
    BY <2>1, <2>2, RejectStep, InnerStep DEF Places
<1>2. CASE registerCorrelatedRoundTrip(o)
  <2>1. UNCHANGED <<pendingRoundTrips, key, result, reader, retired, roundTripsClosed>>
        /\ pc[o] = "register"
    BY <1>2 DEF registerCorrelatedRoundTrip
  <2>2. \/ \E t \in {"closed", "capacity", "exhausted"} : Return(o, Failure(t))
        \/ Goto(o, "allocate") /\ UNCHANGED ret
    BY <1>2 DEF registerCorrelatedRoundTrip
  <2> QED
    BY <2>1, <2>2, RejectStep, InnerStep DEF Places
<1>3. CASE \/ admitSpineSend(o) \/ encodeFails(o)
           \/ admitCorrelatedTransportHandoff(o) \/ writeShipMessage(o)
           \/ finishSpineSend(o) \/ contextDone(o)
  <2>1. UNCHANGED <<pendingRoundTrips, key, result, reader, retired, roundTripsClosed>>
    BY <1>3 DEF admitSpineSend, encodeFails, admitCorrelatedTransportHandoff,
       writeShipMessage, finishSpineSend, contextDone
  <2>2. pc[o] \notin {"done", "selfSend"}
    BY <1>3 DEF admitSpineSend, encodeFails, admitCorrelatedTransportHandoff,
       writeShipMessage, finishSpineSend, contextDone
  <2>3. /\ \E place \in {"failed", "gate", "write", "finish", "wait"} : Goto(o, place)
        /\ \A p \in Ops \ {o} : ret'[p] = ret[p]
    BY <1>3, <1>t DEF admitSpineSend, encodeFails, admitCorrelatedTransportHandoff,
       writeShipMessage, finishSpineSend, contextDone, SendFails
  <2> QED
    BY <2>1, <2>2, <2>3, InnerStep DEF Places
<1>4. CASE cancelContext(o)
  <2>1. UNCHANGED <<pc, ret, pendingRoundTrips, key, result, retired, reader,
                    roundTripsClosed>>
    BY <1>4 DEF cancelContext
  <2> QED
    BY <2>1, QuietStep DEF SameReaders, IsDelivering
<1> QED
  BY <1>1, <1>2, <1>3, <1>4, AllocateStep, AbandonStep, ReturnStep DEF CallStep

LEMMA OtherSimulated ==
    ASSUME Before, After,
           \/ \E s \in Senders : loadMsgNum(s) \/ swapMsgNum(s)
           \/ \E r \in Readers : admitIncomingSpineMessage(r) \/ ReaderStep(r)
           \/ UNCHANGED vars
    PROVE  Simulated
<1>1. ASSUME \/ \E s \in Senders : loadMsgNum(s) \/ swapMsgNum(s)
             \/ UNCHANGED vars
      PROVE  Simulated
  <2>1. UNCHANGED <<pc, ret, pendingRoundTrips, key, result, retired, reader,
                    roundTripsClosed>>
    BY <1>1 DEF loadMsgNum, swapMsgNum, vars
  <2> QED
    BY <2>1, QuietStep DEF SameReaders, IsDelivering
<1>2. ASSUME NEW r \in Readers,
             \/ admitIncomingSpineMessage(r) \/ prepareCorrelatedResponse(r)
             \/ ProcessCmd(r) \/ completeCorrelatedResponse(r)
             \/ completeMalformedCorrelatedResponse(r)
      PROVE  Simulated
  <2>1. UNCHANGED <<pc, ret, pendingRoundTrips, key, result, retired, roundTripsClosed>>
    BY <1>2 DEF admitIncomingSpineMessage, prepareCorrelatedResponse, ProcessCmd,
       completeCorrelatedResponse, completeMalformedCorrelatedResponse
  <2>2. reader[r].pc \notin {"settle", "deliver"}
    BY <1>2 DEF admitIncomingSpineMessage, prepareCorrelatedResponse, ProcessCmd,
       completeCorrelatedResponse, completeMalformedCorrelatedResponse
  <2>3. /\ reader'[r].pc # "deliver"
        /\ \A q \in Readers \ {r} : reader'[q] = reader[q]
    BY <1>2, <2>2, ReaderMoves DEF ReaderStep, Before, IInv
  <2> QED
    BY <2>1, <2>2, <2>3, QuietStep DEF SameReaders, IsDelivering
<1> QED
  BY <1>1, <1>2, SettleStep, DeliverStep DEF ReaderStep

LEMMA NextSimulated ==
    ASSUME Before, After, [Next]_vars
    PROVE  Simulated
BY CallSimulated, OtherSimulated, CloseStep, TellStep DEF Next

LEMMA InitSimulated == Init => Service!Init
<1> SUFFICES ASSUME Init PROVE Service!Init
  OBVIOUS
<1> USE NamesAssumption
<1>1. AbstractInv
  BY TypeOKInit, InvInit, AbstractState DEF IInv
<1>2. \A o \in Ops : Status(o) = "idle" /\ OutcomeOf(o) = NoOutcome
  <2>1. SUFFICES ASSUME NEW o \in Ops
                 PROVE  Status(o) = "idle" /\ OutcomeOf(o) = NoOutcome
    OBVIOUS
  <2>2. pc[o] = "idle" /\ ~Registered(o) /\ pendingRoundTrips[key[o]] = NoOp
    BY LimitsAssumption DEF Init, Registered, Counters
  <2> QED
    BY <1>1, <2>2 DEF AbstractInv, Abstract, IsPending
<1> QED
  BY <1>2 DEF Service!Init, Init

-----------------------------------------------------------------------------
(* Every behaviour of the sender is one of the service: a call is admitted *)
(* below the limit or rejected, settled at one instant by one actor with   *)
(* the outcome it returns, and Close settles all open calls at once.       *)
THEOREM RefinementCorrect == Spec => ImplementsService
<1>1. Init => RoomInv
  <2>1. Init => PendingKeys = {} /\ roundTripMux = NoOp
    BY DEF Init, PendingKeys
  <2> QED
    BY <2>1, FS_EmptySet, LimitsAssumption DEF RoomInv, CapacityBound
<1>2. IInv /\ RoomInv /\ [Next]_vars => RoomInv'
  BY RoomStep DEF IInv
<1>3. IInv /\ RoomInv /\ IInv' /\ [Next]_vars => Simulated
  BY AbstractState, AbstractNext, NextSimulated DEF Before, After
<1> QED
  BY <1>1, <1>2, <1>3, InitSimulated, InvCorrect, PTL
     DEF Spec, ImplementsService, Service!Spec, Simulated
=============================================================================
