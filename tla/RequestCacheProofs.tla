------------------------- MODULE RequestCacheProofs -------------------------
(***************************************************************************)
(* Theorems about RequestCache for any number of callers and readers, any  *)
(* contents and any limit of the cache.                                    *)
(***************************************************************************)
EXTENDS RequestCache, FiniteSetTheorems, WellFoundedInduction, TLAPS

(* A caller that holds a counter got it from the sender, is alone with it, *)
(* and has neither cached it nor returned it.                              *)
Holds(c) == caller[c].pc \in {"write", "finish"}
CallerInv ==
    \A c \in Callers :
       /\ ~Holds(c) => caller[c].key = 0
       /\ caller[c].pc # "idle" => caller[c].content \in Contents
       /\ Holds(c) => /\ caller[c].key \in 1..msgNum
                      /\ reqMsgCache[caller[c].key] = NoContent
                      /\ caller[c].key \notin returned
                      /\ \A d \in Callers :
                            Holds(d) /\ caller[d].key = caller[c].key => d = c
       /\ caller[c].pc = "finish" => wire[caller[c].key] = caller[c].content

(* No counter is cached or returned before it is allocated.                *)
FreshInv == \A k \in Counters :
               k > msgNum => reqMsgCache[k] = NoContent /\ k \notin returned

(* An answer counts as settled only when its Request has returned.         *)
ReaderInv ==
    /\ \A r \in Readers : reader[r].pc # "idle" => reader[r].ref \in Counters
    /\ \A r \in Readers :
          reader[r].pc # "idle" /\ reader[r].settled => reader[r].ref \in returned
    /\ \A a \in answered : a.settled => a.ref \in returned

IInv == TypeOK /\ CallerInv /\ FreshInv /\ ReaderInv /\ SuppressionJustified

-----------------------------------------------------------------------------
(* A finite set of integers that is not empty has a least element: the     *)
(* segments {j <= k} are well-founded under inclusion, and the end of a    *)
(* minimal one is least.                                                   *)
LEMMA LeastElement ==
    ASSUME NEW S \in SUBSET Int, IsFiniteSet(S), S # {}
    PROVE  \E k \in S : \A j \in S : k <= j
<1> DEFINE Below(k) == {j \in S : j <= k}
           Segments == {Below(k) : k \in S}
           R == StrictSubsetOrdering(S)
<1>1. IsWellFoundedOn(R, FiniteSubsetsOf(S))
  BY FS_StrictSubsetOrderingWellFounded
<1>2. Segments \subseteq FiniteSubsetsOf(S) /\ Segments # {}
  <2>1. ASSUME NEW k \in S
        PROVE  Below(k) \in FiniteSubsetsOf(S)
    <3>1. Below(k) \in SUBSET S
      OBVIOUS
    <3> QED
      BY <3>1, FS_Subset DEF FiniteSubsetsOf
  <2> QED
    BY <2>1
<1>3. PICK T \in Segments : \A U \in Segments : ~(<<U, T>> \in R)
  <2> HIDE DEF R, Segments
  <2> QED
    BY <1>1, <1>2, WFMin
<1>4. PICK k \in S : T = Below(k)
  OBVIOUS
<1>5. ASSUME NEW j \in S, ~(k <= j)
      PROVE  FALSE
  <2>1. j \in Int /\ k \in Int /\ j < k
    BY <1>5
  <2>2. Below(j) \subseteq Below(k)
    <3>1. ASSUME NEW i \in S, i <= j
          PROVE  i <= k
      BY <2>1, <3>1
    <3> QED
      BY <3>1
  <2>3. k \in Below(k) /\ k \notin Below(j)
    BY <2>1
  <2>4. <<Below(j), Below(k)>> \in R
    BY <2>2, <2>3 DEF StrictSubsetOrdering
  <2> QED
    BY <2>4, <1>3, <1>4
<1> QED
  BY <1>5

LEMMA CountersFinite ==
    ASSUME NEW S \in SUBSET Counters
    PROVE  IsFiniteSet(S) /\ Cardinality(S) \in Nat
<1>1. IsFiniteSet(Counters)
  BY BoundsAssumption, FS_Interval DEF Counters
<1> QED
  BY <1>1, FS_Subset, FS_CardinalityType

LEMMA OldestIsMember ==
    ASSUME NEW S \in SUBSET Counters, S # {}
    PROVE  Oldest(S) \in S
<1>1. S \in SUBSET Int
  BY DEF Counters
<1>2. \E k \in S : \A j \in S : k <= j
  BY <1>1, CountersFinite, LeastElement
<1> QED
  BY <1>2 DEF Oldest

(* The keys of a table with one entry changed.                             *)
LEMMA KeysWith ==
    ASSUME NEW table \in Table, NEW k \in Counters,
           NEW content \in Contents \cup {NoContent}
    PROVE  /\ With(table, k, content) \in Table
           /\ content = NoContent => Keys(With(table, k, content)) = Keys(table) \ {k}
           /\ content # NoContent => Keys(With(table, k, content)) = Keys(table) \cup {k}
BY DEF With, Table, Keys

(* What insertion does to the cache: the new counter comes in, the oldest  *)
(* one leaves exactly when the cache is past its limit.                    *)
LEMMA InsertionKeys ==
    ASSUME TypeOK, NEW k \in Counters, NEW content \in Contents,
           addMsgCounterHashToCache(k, content)
    PROVE  /\ reqMsgCache' \in Table
           /\ Cached' = (IF Cardinality(Cached) > CacheLimit
                         THEN Cached \ {Oldest(Cached)} ELSE Cached) \cup {k}
           /\ Cardinality(Cached) > CacheLimit => Oldest(Cached) \in Cached
           /\ \A j \in Cached' \ {k} : j \in Cached /\ reqMsgCache'[j] = reqMsgCache[j]
           /\ reqMsgCache'[k] = content
<1>1. content # NoContent /\ content \in Contents \cup {NoContent}
  BY ContentsAssumption
<1>2. reqMsgCache \in Table /\ Cached \in SUBSET Counters
  BY DEF TypeOK, Cached, Keys
<1>3. CASE Cardinality(Cached) > CacheLimit
  <2>1. Cached # {}
    BY <1>3, FS_EmptySet, BoundsAssumption
  <2>2. Oldest(Cached) \in Cached
    BY <1>2, <2>1, OldestIsMember
  <2> DEFINE room == With(reqMsgCache, Oldest(Cached), NoContent)
  <2>3. room \in Table /\ Keys(room) = Cached \ {Oldest(Cached)}
    BY <1>2, <2>2, KeysWith DEF Cached
  <2>4. reqMsgCache' = With(room, k, content)
    BY <1>3 DEF addMsgCounterHashToCache
  <2>5. reqMsgCache' \in Table /\ Cached' = (Cached \ {Oldest(Cached)}) \cup {k}
    <3> HIDE DEF room
    <3> QED
      BY <1>1, <2>3, <2>4, KeysWith DEF Cached
  <2>6. \A j \in Counters \ {k} :
           j # Oldest(Cached) => reqMsgCache'[j] = reqMsgCache[j]
    BY <1>2, <2>4 DEF With, Table
  <2>7. reqMsgCache'[k] = content
    BY <1>2, <2>4 DEF With, Table
  <2> QED
    BY <1>2, <1>3, <2>2, <2>5, <2>6, <2>7
<1>4. CASE ~(Cardinality(Cached) > CacheLimit)
  <2>1. reqMsgCache' = With(reqMsgCache, k, content)
    BY <1>4 DEF addMsgCounterHashToCache
  <2>2. reqMsgCache' \in Table /\ Cached' = Cached \cup {k}
    BY <1>1, <1>2, <2>1, KeysWith DEF Cached
  <2>3. \A j \in Counters \ {k} : reqMsgCache'[j] = reqMsgCache[j]
    BY <1>2, <2>1 DEF With, Table
  <2>4. reqMsgCache'[k] = content
    BY <1>2, <2>1 DEF With, Table
  <2> QED
    BY <1>2, <1>4, <2>2, <2>3, <2>4
<1> QED
  BY <1>3, <1>4

(* Insertion keeps the cache within one entry of its limit.                *)
LEMMA InsertionBound ==
    ASSUME TypeOK, CacheBound, NEW k \in Counters, NEW content \in Contents,
           addMsgCounterHashToCache(k, content)
    PROVE  CacheBound'
<1>1. Cached \in SUBSET Counters /\ IsFiniteSet(Cached) /\ Cardinality(Cached) \in Nat
  BY CountersFinite DEF Cached, Keys
<1> DEFINE kept == IF Cardinality(Cached) > CacheLimit
                   THEN Cached \ {Oldest(Cached)} ELSE Cached
<1>2. Cached' = kept \cup {k}
  BY InsertionKeys
<1>3. IsFiniteSet(kept) /\ Cardinality(kept) \in Nat /\ Cardinality(kept) <= CacheLimit
  <2>1. CASE Cardinality(Cached) > CacheLimit
    <3>1. Oldest(Cached) \in Cached
      BY <2>1, InsertionKeys
    <3>2. /\ IsFiniteSet(Cached \ {Oldest(Cached)})
          /\ Cardinality(Cached \ {Oldest(Cached)}) = Cardinality(Cached) - 1
      BY <1>1, <3>1, FS_RemoveElement
    <3> QED
      BY <1>1, <2>1, <3>2, BoundsAssumption DEF CacheBound
  <2>2. CASE ~(Cardinality(Cached) > CacheLimit)
    BY <1>1, <2>2, BoundsAssumption
  <2> QED
    BY <2>1, <2>2
<1>4. Cardinality(kept \cup {k}) <= Cardinality(kept) + 1
  <2> HIDE DEF kept
  <2>1. Cardinality(kept \cup {k})
           = IF k \in kept THEN Cardinality(kept) ELSE Cardinality(kept) + 1
    BY <1>3, FS_AddElement
  <2> QED
    BY <1>3, <2>1
<1>5. Cardinality(kept \cup {k}) \in Nat
  <2> HIDE DEF kept
  <2> QED
    BY <1>3, FS_AddElement, FS_CardinalityType
<1>6. Cardinality(Cached') <= CacheLimit + 1
  <2> HIDE DEF kept
  <2> QED
    BY <1>2, <1>3, <1>4, <1>5, BoundsAssumption
<1> QED
  BY <1>6 DEF CacheBound

(* Removing entries keeps the bound.                                       *)
LEMMA RemovalBound ==
    ASSUME CacheBound, Cached' \subseteq Cached
    PROVE  CacheBound'
<1>1. Cached \in SUBSET Counters /\ IsFiniteSet(Cached) /\ Cardinality(Cached) \in Nat
  BY CountersFinite DEF Cached, Keys
<1>2. Cardinality(Cached') <= Cardinality(Cached) /\ Cardinality(Cached') \in Nat
  BY <1>1, FS_Subset, FS_CardinalityType
<1> QED
  BY <1>1, <1>2, BoundsAssumption DEF CacheBound

-----------------------------------------------------------------------------
USE DEF history

LEMMA IdleStates ==
    IdleCaller \in CallerStates /\ IdleReader \in ReaderStates
<1>1. 0 \in 0..MaxCounter
  BY BoundsAssumption
<1> QED
  BY <1>1 DEF IdleCaller, CallerStates, IdleReader, ReaderStates

LEMMA InitInvariant ==
    Init => IInv
<1> SUFFICES ASSUME Init
             PROVE  IInv
  OBVIOUS
<1>1. TypeOK
  <2>1. msgNum \in 0..MaxCounter
    BY BoundsAssumption DEF Init
  <2> QED
    BY <2>1, IdleStates DEF Init, TypeOK, Table
<1>2. Cached = {}
  BY DEF Init, Cached, Keys
<1>3. SuppressionJustified
  BY <1>2, FS_EmptySet, BoundsAssumption
  DEF Init, SuppressionJustified, CachedWasSent, CacheBound,
      AnsweredAfterReturnNotCached
<1>4. CallerInv /\ FreshInv /\ ReaderInv
  BY DEF Init, CallerInv, FreshInv, ReaderInv, Holds, IdleCaller, IdleReader
<1> QED
  BY <1>1, <1>3, <1>4 DEF IInv

(* Steps that leave the cache and the wire alone and return no counter     *)
(* that is still held.                                                     *)
LEMMA UnchangedCache ==
    ASSUME SuppressionJustified, UNCHANGED <<reqMsgCache, wire, answered>>
    PROVE  SuppressionJustified'
BY DEF SuppressionJustified, CachedWasSent, CacheBound,
       AnsweredAfterReturnNotCached, Cached, Keys

LEMMA ReturnType ==
    ASSUME TypeOK, CallerInv, NEW c \in Callers, Return(c)
    PROVE  /\ caller' \in [Callers -> CallerStates]
           /\ returned' \subseteq Counters
<1>1. caller[c].key \in 0..MaxCounter
  BY DEF TypeOK, CallerStates
<1>2. {caller[c].key} \ {0} \subseteq Counters
  BY <1>1, BoundsAssumption DEF Counters
<1> QED
  BY <1>2, IdleStates DEF TypeOK, Return

LEMMA AdmitStep ==
    ASSUME IInv, NEW c \in Callers, admitSpineSend(c)
    PROVE  IInv'
<1>1. PICK content \in Contents :
         caller' = [caller EXCEPT ![c] = [pc |-> "lookup", content |-> content, key |-> 0]]
  BY DEF admitSpineSend
<1>2. TypeOK'
  BY <1>1, BoundsAssumption DEF IInv, TypeOK, admitSpineSend, CallerStates
<1>3. CallerInv'
  BY <1>1 DEF IInv, TypeOK, CallerInv, Holds, admitSpineSend, CallerStates
<1>4. FreshInv' /\ ReaderInv'
  BY DEF IInv, FreshInv, ReaderInv, admitSpineSend
<1>5. SuppressionJustified'
  BY UnchangedCache DEF IInv, admitSpineSend
<1> QED
  BY <1>2, <1>3, <1>4, <1>5 DEF IInv

LEMMA LookupStep ==
    ASSUME IInv, NEW c \in Callers, msgCounterForHashFromCache(c)
    PROVE  IInv'
<1>1. SuppressionJustified'
  BY UnchangedCache DEF IInv, msgCounterForHashFromCache
<1>2. returned' = returned
  BY DEF IInv, CallerInv, Holds, msgCounterForHashFromCache, Return
<1>3. FreshInv' /\ ReaderInv'
  BY <1>2 DEF IInv, FreshInv, ReaderInv, msgCounterForHashFromCache
<1>4. CASE Return(c)
  <2>1. TypeOK'
    BY <1>4, ReturnType DEF IInv, TypeOK, msgCounterForHashFromCache
  <2>2. CallerInv'
    BY <1>2, <1>4 DEF IInv, TypeOK, CallerInv, Holds, msgCounterForHashFromCache,
                      Return, IdleCaller, CallerStates
  <2> QED
    BY <1>1, <1>3, <2>1, <2>2 DEF IInv
<1>5. CASE Goto(c, "allocate")
  <2>1. TypeOK'
    BY <1>2, <1>5 DEF IInv, TypeOK, msgCounterForHashFromCache, Goto, CallerStates
  <2>2. CallerInv'
    BY <1>2, <1>5 DEF IInv, TypeOK, CallerInv, Holds, msgCounterForHashFromCache,
                      Goto, CallerStates
  <2> QED
    BY <1>1, <1>3, <2>1, <2>2 DEF IInv
<1> QED
  BY <1>4, <1>5 DEF msgCounterForHashFromCache

LEMMA AllocateStep ==
    ASSUME IInv, NEW c \in Callers, getMsgCounter(c)
    PROVE  IInv'
<1> DEFINE k == msgNum + 1
<1>1. k \in Counters /\ k \notin 1..msgNum /\ msgNum \in 0..MaxCounter
  BY BoundsAssumption DEF IInv, TypeOK, getMsgCounter, Counters
<1>2. /\ msgNum' = k
      /\ caller' = [caller EXCEPT ![c].pc = "write", ![c].key = k]
  BY DEF getMsgCounter
<1>3. reqMsgCache[k] = NoContent /\ k \notin returned
  BY <1>1, BoundsAssumption DEF IInv, FreshInv, Counters
<1>4. TypeOK'
  <2>1. k \in 0..MaxCounter
    BY <1>1, BoundsAssumption DEF Counters
  <2> HIDE DEF k
  <2>2. caller' \in [Callers -> CallerStates]
    BY <1>2, <2>1 DEF IInv, TypeOK, CallerStates
  <2> QED
    BY <1>2, <2>1, <2>2 DEF IInv, TypeOK, getMsgCounter
<1>5. CallerInv'
  <2>1. caller[c].pc = "allocate" /\ c \in Callers
    BY DEF getMsgCounter
  <2>2. \A d \in Callers : d # c => caller'[d] = caller[d]
    BY <1>2 DEF IInv, TypeOK
  <2>3. /\ caller'[c].pc = "write" /\ caller'[c].key = k
        /\ caller'[c].content = caller[c].content
    BY <1>2 DEF IInv, TypeOK, CallerStates
  <2>4. UNCHANGED <<reqMsgCache, returned, wire>>
    BY DEF getMsgCounter
  <2>5. \A i \in 1..msgNum : i \in 1..msgNum'
    BY <1>1, <1>2
  <2>6. k \in 1..msgNum'
    BY <1>1, <1>2
  <2> HIDE DEF k
  <2> QED
    BY <1>1, <1>3, <2>1, <2>2, <2>3, <2>4, <2>5, <2>6 DEF IInv, CallerInv, Holds
<1>6. FreshInv'
  BY <1>1, <1>2 DEF IInv, FreshInv, getMsgCounter, Counters
<1>7. ReaderInv'
  BY DEF IInv, ReaderInv, getMsgCounter
<1>8. SuppressionJustified'
  BY UnchangedCache DEF IInv, getMsgCounter
<1> QED
  BY <1>4, <1>5, <1>6, <1>7, <1>8 DEF IInv

(* A caller that returns the counter it holds.                             *)
LEMMA ReturnHeld ==
    ASSUME IInv, NEW c \in Callers, Holds(c), Return(c), msgNum' = msgNum
    PROVE  /\ caller[c].key \in Counters
           /\ returned' = returned \cup {caller[c].key}
           /\ \A d \in Callers \ {c} : caller'[d] = caller[d]
           /\ caller'[c] = IdleCaller
           /\ \A d \in Callers \ {c} : Holds(d) => caller[d].key \notin returned'
<1>1. caller[c].key \in 1..msgNum /\ msgNum \in 0..MaxCounter
  BY DEF IInv, TypeOK, CallerInv
<1>2. caller[c].key \in Counters /\ caller[c].key # 0
  BY <1>1, BoundsAssumption DEF Counters
<1> QED
  BY <1>2 DEF IInv, TypeOK, CallerInv, Return

LEMMA WriteStep ==
    ASSUME IInv, NEW c \in Callers, writeSpineMessageAdmitted(c)
    PROVE  IInv'
<1>1. Holds(c) /\ caller[c].content \in Contents
  BY DEF IInv, CallerInv, Holds, writeSpineMessageAdmitted
<1>2. UNCHANGED <<msgNum, reqMsgCache, roundTripsClosed, reader, answered>>
  BY DEF writeSpineMessageAdmitted
<1>3. CASE Return(c) /\ UNCHANGED wire
  <2>1. TypeOK'
    BY <1>2, <1>3, ReturnType DEF IInv, TypeOK
  <2>2. CallerInv'
    BY <1>1, <1>2, <1>3, ReturnHeld DEF IInv, CallerInv, Holds, IdleCaller
  <2>3. FreshInv'
    BY <1>1, <1>2, <1>3, ReturnHeld, BoundsAssumption
    DEF IInv, TypeOK, CallerInv, FreshInv, Counters
  <2>4. ReaderInv'
    BY <1>1, <1>2, <1>3, ReturnHeld DEF IInv, ReaderInv
  <2>5. SuppressionJustified'
    BY <1>2, <1>3, UnchangedCache DEF IInv
  <2> QED
    BY <2>1, <2>2, <2>3, <2>4, <2>5 DEF IInv
<1>4. CASE /\ wire' = [wire EXCEPT ![caller[c].key] = caller[c].content]
           /\ Goto(c, "finish")
           /\ UNCHANGED returned
  <2>1. caller[c].key \in Counters /\ reqMsgCache[caller[c].key] = NoContent
    BY <1>1, BoundsAssumption DEF IInv, TypeOK, CallerInv, Counters
  <2>2. TypeOK'
    BY <1>1, <1>2, <1>4, <2>1 DEF IInv, TypeOK, Goto, CallerStates, Table
  <2>3. CallerInv'
    <3>1. \A d \in Callers \ {c} : caller'[d] = caller[d]
      BY <1>4 DEF IInv, TypeOK, Goto
    <3>2. /\ caller'[c].pc = "finish" /\ caller'[c].key = caller[c].key
          /\ caller'[c].content = caller[c].content
      BY <1>4 DEF IInv, TypeOK, Goto, CallerStates
    <3>3. wire'[caller[c].key] = caller[c].content
      BY <1>4, <2>1 DEF IInv, TypeOK, Table
    <3>4. \A d \in Callers \ {c} :
             Holds(d) => caller[d].key # caller[c].key
      BY <1>1 DEF IInv, CallerInv
    <3>5. \A d \in Callers \ {c} :
             caller[d].pc = "finish" => wire'[caller[d].key] = wire[caller[d].key]
      BY <1>4, <3>4 DEF IInv, TypeOK, Table, Holds
    <3> QED
      BY <1>1, <1>2, <1>4, <3>1, <3>2, <3>3, <3>5 DEF IInv, CallerInv, Holds
  <2>4. FreshInv' /\ ReaderInv'
    BY <1>2, <1>4 DEF IInv, FreshInv, ReaderInv
  <2>5. SuppressionJustified'
    <3>1. CachedWasSent'
      <4>1. \A k \in Counters : k # caller[c].key => wire'[k] = wire[k]
        BY <1>4 DEF IInv, TypeOK, Table
      <4> QED
        BY <1>2, <2>1, <4>1
        DEF IInv, SuppressionJustified, CachedWasSent, Cached, Keys
    <3>2. CacheBound' /\ AnsweredAfterReturnNotCached'
      BY <1>2 DEF IInv, SuppressionJustified, CacheBound,
                  AnsweredAfterReturnNotCached, Cached, Keys
    <3> QED
      BY <3>1, <3>2 DEF SuppressionJustified
  <2> QED
    BY <2>2, <2>3, <2>4, <2>5 DEF IInv
<1> QED
  BY <1>3, <1>4 DEF writeSpineMessageAdmitted

LEMMA FinishStep ==
    ASSUME IInv, NEW c \in Callers, finishSpineRequest(c)
    PROVE  IInv'
<1> DEFINE k == caller[c].key
<1>1. /\ Holds(c) /\ Return(c) /\ caller[c].content \in Contents
      /\ k \in 1..msgNum /\ k \notin returned /\ wire[k] = caller[c].content
      /\ reqMsgCache[k] = NoContent
  BY DEF IInv, CallerInv, Holds, finishSpineRequest
<1>2. UNCHANGED <<msgNum, roundTripsClosed, reader, wire, answered>>
  BY DEF finishSpineRequest
<1>3. /\ k \in Counters /\ returned' = returned \cup {k}
      /\ \A d \in Callers \ {c} : caller'[d] = caller[d]
      /\ caller'[c] = IdleCaller
      /\ \A d \in Callers \ {c} : Holds(d) => caller[d].key \notin returned'
  BY <1>1, <1>2, ReturnHeld
<1>4. caller' \in [Callers -> CallerStates] /\ returned' \subseteq Counters
  BY <1>1, ReturnType DEF IInv
<1> HIDE DEF k
<1>5. \/ UNCHANGED reqMsgCache
      \/ addMsgCounterHashToCache(k, caller[c].content)
  BY DEF finishSpineRequest, k
<1>6. reqMsgCache' \in Table
  BY <1>1, <1>3, <1>5, InsertionKeys DEF IInv, TypeOK
<1>7. /\ \A j \in Cached' \ {k} : j \in Cached /\ reqMsgCache'[j] = reqMsgCache[j]
      /\ k \in Cached' => reqMsgCache'[k] = caller[c].content
  <2>1. CASE UNCHANGED reqMsgCache
    BY <1>1, <2>1 DEF Cached, Keys
  <2>2. CASE addMsgCounterHashToCache(k, caller[c].content)
    BY <1>1, <1>3, <2>2, InsertionKeys DEF IInv
  <2> QED
    BY <1>5, <2>1, <2>2
<1>8. TypeOK'
  BY <1>2, <1>4, <1>6 DEF IInv, TypeOK
<1>9. \A j \in Counters \ {k} : reqMsgCache[j] = NoContent => reqMsgCache'[j] = NoContent
  BY <1>7 DEF Cached, Keys
<1>10. CallerInv'
  <2>1. \A d \in Callers \ {c} :
           Holds(d) => /\ caller[d].key # k
                       /\ reqMsgCache'[caller[d].key] = NoContent
    <3>1. \A d \in Callers \ {c} : Holds(d) => caller[d].key \in Counters
      BY BoundsAssumption DEF IInv, TypeOK, CallerInv, Counters
    <3> QED
      BY <1>1, <1>9, <3>1 DEF IInv, CallerInv, k
  <2> QED
    BY <1>2, <1>3, <2>1 DEF IInv, CallerInv, Holds, IdleCaller
<1>11. FreshInv'
  <2>1. \A j \in Counters : j > msgNum => j # k
    BY <1>1, BoundsAssumption DEF IInv, TypeOK, Counters
  <2> QED
    BY <1>2, <1>3, <1>9, <2>1 DEF IInv, FreshInv
<1>12. ReaderInv'
  BY <1>2, <1>3 DEF IInv, ReaderInv
<1>13. SuppressionJustified'
  <2>1. CachedWasSent'
    BY <1>1, <1>2, <1>7 DEF IInv, SuppressionJustified, CachedWasSent
  <2>2. CacheBound'
    <3>1. CASE UNCHANGED reqMsgCache
      BY <3>1 DEF IInv, SuppressionJustified, CacheBound, Cached, Keys
    <3>2. CASE addMsgCounterHashToCache(k, caller[c].content)
      BY <1>1, <1>3, <3>2, InsertionBound DEF IInv, SuppressionJustified
    <3> QED
      BY <1>5, <3>1, <3>2
  <2>3. AnsweredAfterReturnNotCached'
    BY <1>1, <1>2, <1>7
    DEF IInv, ReaderInv, SuppressionJustified, AnsweredAfterReturnNotCached
  <2> QED
    BY <2>1, <2>2, <2>3 DEF SuppressionJustified
<1> QED
  BY <1>8, <1>10, <1>11, <1>12, <1>13 DEF IInv

LEMMA HandleStep ==
    ASSUME IInv, NEW r \in Readers, handleSpineMessage(r)
    PROVE  IInv'
<1>1. PICK k \in OnWire :
         reader' = [reader EXCEPT ![r] = [pc |-> "check", ref |-> k,
                                          settled |-> k \in returned]]
  BY DEF handleSpineMessage
<1>2. k \in Counters
  BY DEF OnWire, Keys
<1>3. TypeOK'
  BY <1>1, <1>2, BoundsAssumption
  DEF IInv, TypeOK, handleSpineMessage, ReaderStates, Counters
<1>4. CallerInv' /\ FreshInv'
  BY DEF IInv, CallerInv, FreshInv, Holds, handleSpineMessage
<1>5. ReaderInv'
  BY <1>1, <1>2 DEF IInv, TypeOK, ReaderInv, handleSpineMessage
<1>6. SuppressionJustified'
  BY UnchangedCache DEF IInv, handleSpineMessage
<1> QED
  BY <1>3, <1>4, <1>5, <1>6 DEF IInv

(* A reader that is done with an answer to a counter that is not cached    *)
(* any more.                                                               *)
LEMMA ProcessedStep ==
    ASSUME IInv, NEW r \in Readers, reader[r].pc # "idle", Processed(r),
           UNCHANGED <<msgNum, roundTripsClosed, caller, wire, returned>>,
           reqMsgCache' \in Table,
           \A k \in Cached' : k \in Cached /\ reqMsgCache'[k] = reqMsgCache[k],
           reader[r].ref \notin Cached'
    PROVE  IInv'
<1>1. reader[r].ref \in Counters /\ reader[r].settled \in BOOLEAN
  BY DEF IInv, TypeOK, ReaderInv, ReaderStates
<1>2. TypeOK'
  BY <1>1, BoundsAssumption
  DEF IInv, TypeOK, Processed, ReaderStates, IdleReader
<1>3. \A k \in Counters : reqMsgCache[k] = NoContent => reqMsgCache'[k] = NoContent
  BY DEF Cached, Keys
<1>4. CallerInv'
  <2>1. \A c \in Callers : Holds(c) => caller[c].key \in Counters
    BY BoundsAssumption DEF IInv, TypeOK, CallerInv, Counters
  <2> QED
    BY <1>3, <2>1 DEF IInv, CallerInv, Holds
<1>5. FreshInv'
  BY <1>3 DEF IInv, FreshInv
<1>6. ReaderInv'
  BY DEF IInv, TypeOK, ReaderInv, Processed, IdleReader
<1>7. CachedWasSent'
  BY DEF IInv, SuppressionJustified, CachedWasSent
<1>8. CacheBound'
  BY RemovalBound DEF IInv, SuppressionJustified
<1>9. AnsweredAfterReturnNotCached'
  BY DEF IInv, SuppressionJustified, AnsweredAfterReturnNotCached, Processed
<1> QED
  BY <1>2, <1>4, <1>5, <1>6, <1>7, <1>8, <1>9 DEF IInv, SuppressionJustified

LEMMA CheckStep ==
    ASSUME IInv, NEW r \in Readers, hasMsgCounterInCache(r)
    PROVE  IInv'
<1>1. UNCHANGED <<msgNum, reqMsgCache, roundTripsClosed, caller, wire, returned>>
  BY DEF hasMsgCounterInCache
<1>2. CASE /\ reader' = [reader EXCEPT ![r].pc = "delete"]
           /\ UNCHANGED answered
  <2>1. reader[r].pc = "check"
    BY DEF hasMsgCounterInCache
  <2>2. TypeOK'
    BY <1>1, <1>2 DEF IInv, TypeOK, ReaderStates
  <2>3. CallerInv' /\ FreshInv'
    BY <1>1 DEF IInv, CallerInv, FreshInv, Holds
  <2>4. ReaderInv'
    BY <1>1, <1>2, <2>1 DEF IInv, TypeOK, ReaderStates, ReaderInv
  <2>5. SuppressionJustified'
    BY <1>1, <1>2, UnchangedCache DEF IInv
  <2> QED
    BY <2>2, <2>3, <2>4, <2>5 DEF IInv
<1>3. CASE reader[r].ref \notin Cached /\ Processed(r)
  <2>1. Cached' = Cached /\ reqMsgCache' \in Table
    BY <1>1 DEF Cached, Keys, IInv, TypeOK
  <2>2. reader[r].pc # "idle"
    BY DEF hasMsgCounterInCache
  <2> QED
    BY <1>1, <1>3, <2>1, <2>2, ProcessedStep
<1> QED
  BY <1>2, <1>3 DEF hasMsgCounterInCache

LEMMA DeleteKeys ==
    ASSUME IInv, NEW r \in Readers, ProcessResponseForMsgCounterReference(r)
    PROVE  /\ reqMsgCache' \in Table
           /\ Cached' = Cached \ {reader[r].ref}
           /\ \A k \in Cached' : reqMsgCache'[k] = reqMsgCache[k]
<1>1. reader[r].ref \in Counters /\ reqMsgCache \in Table
  BY DEF IInv, TypeOK, ReaderInv, ProcessResponseForMsgCounterReference
<1>2. reqMsgCache' = With(reqMsgCache, reader[r].ref, NoContent)
  BY DEF ProcessResponseForMsgCounterReference
<1>3. reqMsgCache' \in Table /\ Cached' = Cached \ {reader[r].ref}
  BY <1>1, <1>2, KeysWith DEF Cached
<1>4. \A k \in Counters \ {reader[r].ref} : reqMsgCache'[k] = reqMsgCache[k]
  BY <1>1, <1>2 DEF With, Table
<1> QED
  BY <1>3, <1>4 DEF Cached, Keys

LEMMA DeleteStep ==
    ASSUME IInv, NEW r \in Readers, ProcessResponseForMsgCounterReference(r)
    PROVE  IInv'
<1>1. /\ Processed(r) /\ reader[r].pc # "idle"
      /\ UNCHANGED <<msgNum, roundTripsClosed, caller, wire, returned>>
  BY DEF ProcessResponseForMsgCounterReference
<1>2. /\ reqMsgCache' \in Table
      /\ \A k \in Cached' : k \in Cached /\ reqMsgCache'[k] = reqMsgCache[k]
      /\ reader[r].ref \notin Cached'
  BY DeleteKeys
<1> QED
  BY <1>1, <1>2, ProcessedStep

LEMMA CloseStep ==
    ASSUME IInv, Close
    PROVE  IInv'
<1>1. TypeOK' /\ CallerInv' /\ FreshInv' /\ ReaderInv'
  BY DEF IInv, TypeOK, CallerInv, FreshInv, ReaderInv, Holds, Close
<1>2. SuppressionJustified'
  BY UnchangedCache DEF IInv, Close
<1> QED
  BY <1>1, <1>2 DEF IInv

LEMMA NextInvariant ==
    IInv /\ [Next]_vars => IInv'
<1> SUFFICES ASSUME IInv, [Next]_vars
             PROVE  IInv'
  OBVIOUS
<1>1. CASE UNCHANGED vars
  <2>1. TypeOK' /\ CallerInv' /\ FreshInv' /\ ReaderInv'
    BY <1>1 DEF IInv, TypeOK, CallerInv, FreshInv, ReaderInv, Holds, vars
  <2>2. SuppressionJustified'
    BY <1>1, UnchangedCache DEF IInv, vars
  <2> QED
    BY <2>1, <2>2 DEF IInv
<1>2. CASE Next
  BY <1>2, AdmitStep, LookupStep, AllocateStep, WriteStep, FinishStep,
     HandleStep, CheckStep, DeleteStep, CloseStep DEF Next
<1> QED
  BY <1>1, <1>2

-----------------------------------------------------------------------------
(* The inductive invariant holds in every reachable state.                 *)
THEOREM Invariance == Spec => []IInv
<1> QED
  BY InitInvariant, NextInvariant, PTL DEF Spec

(* The cache, the callers and the readers keep their types.                *)
THEOREM TypeCorrect == Spec => []TypeOK
<1>1. IInv => TypeOK
  BY DEF IInv
<1> QED
  BY <1>1, Invariance, PTL

(* Whatever number of callers and answers race: a request is suppressed    *)
(* for one that was sent with its content and not answered since it        *)
(* returned, and the cache is one entry past its limit at most.            *)
THEOREM Suppression == Spec => []SuppressionJustified
<1>1. IInv => SuppressionJustified
  BY DEF IInv
<1> QED
  BY <1>1, Invariance, PTL

(* After Close no request enters the cache.                                *)
THEOREM ClosedCache == Spec => ClosedCacheOnlyShrinks
<1>1. IInv /\ [Next]_vars
         => [roundTripsClosed => Keys(reqMsgCache') \subseteq Cached]_vars
  <2> SUFFICES ASSUME IInv, Next, roundTripsClosed
               PROVE  Keys(reqMsgCache') \subseteq Cached
    BY DEF vars
  <2>1. ASSUME NEW c \in Callers,
               \/ admitSpineSend(c) \/ msgCounterForHashFromCache(c)
               \/ getMsgCounter(c) \/ writeSpineMessageAdmitted(c)
               \/ finishSpineRequest(c)
        PROVE  reqMsgCache' = reqMsgCache
    BY <2>1 DEF admitSpineSend, msgCounterForHashFromCache, getMsgCounter,
                writeSpineMessageAdmitted, finishSpineRequest
  <2>2. ASSUME NEW r \in Readers,
               handleSpineMessage(r) \/ hasMsgCounterInCache(r)
        PROVE  reqMsgCache' = reqMsgCache
    BY <2>2 DEF handleSpineMessage, hasMsgCounterInCache
  <2>3. ASSUME NEW r \in Readers, ProcessResponseForMsgCounterReference(r)
        PROVE  Cached' \subseteq Cached
    BY <2>3, DeleteKeys
  <2>4. Close => reqMsgCache' = reqMsgCache
    BY DEF Close
  <2> QED
    BY <2>1, <2>2, <2>3, <2>4 DEF Next, Cached
<1> QED
  BY <1>1, Invariance, PTL DEF Spec, ClosedCacheOnlyShrinks

(* A cached request leaves the cache with its answer, or as the oldest of  *)
(* a cache past its limit.                                                 *)
THEOREM Suppressed == Spec => SuppressedUntilAnswered
<1> DEFINE Gone(k) == \/ \E r \in Readers : reader[r].pc = "delete" /\ reader[r].ref = k
                      \/ k = Oldest(Cached) /\ Cardinality(Cached) > CacheLimit
<1>1. IInv /\ [Next]_vars => [\A k \in Cached \ Keys(reqMsgCache') : Gone(k)]_vars
  <2> SUFFICES ASSUME IInv, Next, NEW k \in Cached \ Cached'
               PROVE  Gone(k)
    BY DEF vars, Cached
  <2>1. reqMsgCache' # reqMsgCache
    BY DEF Cached
  <2>2. ASSUME NEW c \in Callers, finishSpineRequest(c)
        PROVE  Gone(k)
    <3>1. addMsgCounterHashToCache(caller[c].key, caller[c].content)
      BY <2>1, <2>2 DEF finishSpineRequest
    <3>2. caller[c].key \in Counters /\ caller[c].content \in Contents
      BY <2>2, BoundsAssumption
      DEF IInv, TypeOK, CallerInv, Holds, finishSpineRequest, Counters
    <3> QED
      BY <3>1, <3>2, InsertionKeys DEF IInv
  <2>3. ASSUME NEW r \in Readers, ProcessResponseForMsgCounterReference(r)
        PROVE  Gone(k)
    BY <2>3, DeleteKeys DEF ProcessResponseForMsgCounterReference
  <2>4. \/ \E c \in Callers : finishSpineRequest(c)
        \/ \E r \in Readers : ProcessResponseForMsgCounterReference(r)
    BY <2>1 DEF Next, admitSpineSend, msgCounterForHashFromCache, getMsgCounter,
                writeSpineMessageAdmitted, handleSpineMessage,
                hasMsgCounterInCache, Close
  <2> QED
    BY <2>2, <2>3, <2>4
<1> QED
  BY <1>1, Invariance, PTL DEF Spec, SuppressedUntilAnswered
=============================================================================
