---------------------------- MODULE RequestCache ----------------------------
(***************************************************************************)
(* The cache of unanswered requests of one Sender (spine/send.go): Request *)
(* suppresses a request whose destination and commands are already waiting *)
(* for an answer and returns the counter of the waiting one.  The SHIP     *)
(* reader removes an entry when an answer refers to it, Close stops both.  *)
(***************************************************************************)
EXTENDS Integers, FiniteSets

CONSTANTS
    Callers,     \* goroutines that call Request, again and again
    Readers,     \* goroutines inside HandleSpineMesssage
    Contents,    \* destination and commands: what hashForMessage tells apart
    NoContent,   \* no request
    CacheLimit,  \* the 20 of addMsgCounterHashToCache
    MaxCounter   \* bound of the exploration: no counter is allocated beyond it

ASSUME ContentsAssumption == NoContent \notin Contents
ASSUME BoundsAssumption == CacheLimit \in Nat \ {0} /\ MaxCounter \in Nat

Counters == 1..MaxCounter

VARIABLES
    msgNum,            \* the counter used last
    reqMsgCache,       \* counter -> content of a cached request
    roundTripsClosed,
    caller,            \* each caller's place, content and counter
    reader,            \* each reader's place and the counter it is about
    wire,              \* counter -> content handed to the SHIP writer (history)
    returned,          \* counters whose Request has returned (history)
    answered           \* counters whose answer was processed (history)

history == <<wire, returned, answered>>
vars == <<msgNum, reqMsgCache, roundTripsClosed, caller, reader, history>>

Table == [Counters -> Contents \cup {NoContent}]
Keys(table) == {k \in Counters : table[k] # NoContent}
Cached == Keys(reqMsgCache)
OnWire == Keys(wire)

CallerStates == [pc : {"idle", "lookup", "allocate", "write", "finish"},
                 content : Contents \cup {NoContent}, key : 0..MaxCounter]
ReaderStates == [pc : {"idle", "check", "delete"}, ref : 0..MaxCounter,
                 settled : BOOLEAN]
IdleCaller == [pc |-> "idle", content |-> NoContent, key |-> 0]
IdleReader == [pc |-> "idle", ref |-> 0, settled |-> FALSE]

TypeOK == /\ msgNum \in 0..MaxCounter
          /\ reqMsgCache \in Table
          /\ roundTripsClosed \in BOOLEAN
          /\ caller \in [Callers -> CallerStates]
          /\ reader \in [Readers -> ReaderStates]
          /\ wire \in Table
          /\ returned \subseteq Counters
          /\ answered \subseteq [ref : Counters, settled : BOOLEAN]

Init == /\ msgNum = 0
        /\ reqMsgCache = [k \in Counters |-> NoContent]
        /\ roundTripsClosed = FALSE
        /\ caller = [c \in Callers |-> IdleCaller]
        /\ reader = [r \in Readers |-> IdleReader]
        /\ wire = [k \in Counters |-> NoContent]
        /\ returned = {}
        /\ answered = {}

-----------------------------------------------------------------------------
(* Commands that cannot be encoded have no hash, are not looked up and     *)
(* fail when they are written: no step of their own.                       *)
Goto(c, place) == caller' = [caller EXCEPT ![c].pc = place]
Return(c) == /\ caller' = [caller EXCEPT ![c] = IdleCaller]
             /\ returned' = returned \cup ({caller[c].key} \ {0})

(* Request begins: admitSpineSend refuses it when the sender is closed,    *)
(* which changes nothing.                                                  *)
admitSpineSend(c) ==
    /\ caller[c].pc = "idle"
    /\ ~roundTripsClosed
    /\ \E content \in Contents :
          caller' = [caller EXCEPT ![c] = [pc |-> "lookup", content |-> content, key |-> 0]]
    /\ UNCHANGED <<msgNum, reqMsgCache, roundTripsClosed, reader, history>>

(* msgCounterForHashFromCache: a hit ends the call, nothing is sent.       *)
msgCounterForHashFromCache(c) ==
    /\ caller[c].pc = "lookup"
    /\ \/ /\ \E k \in Cached : reqMsgCache[k] = caller[c].content
          /\ Return(c)
       \/ /\ \A k \in Cached : reqMsgCache[k] # caller[c].content
          /\ Goto(c, "allocate")
          /\ UNCHANGED returned
    /\ UNCHANGED <<msgNum, reqMsgCache, roundTripsClosed, reader, wire, answered>>

getMsgCounter(c) ==
    /\ caller[c].pc = "allocate"
    /\ msgNum < MaxCounter
    /\ msgNum' = msgNum + 1
    /\ caller' = [caller EXCEPT ![c].pc = "write", ![c].key = msgNum + 1]
    /\ UNCHANGED <<reqMsgCache, roundTripsClosed, reader, history>>

(* writeSpineMessageAdmitted: the encoding fails, there is no writer, or   *)
(* the datagram is on its way, whether or not Close ran meanwhile.         *)
writeSpineMessageAdmitted(c) ==
    /\ caller[c].pc = "write"
    /\ \/ /\ Return(c)
          /\ UNCHANGED wire
       \/ /\ wire' = [wire EXCEPT ![caller[c].key] = caller[c].content]
          /\ Goto(c, "finish")
          /\ UNCHANGED returned
    /\ UNCHANGED <<msgNum, reqMsgCache, roundTripsClosed, reader, answered>>

Oldest(keys) == CHOOSE k \in keys : \A j \in keys : k <= j
With(table, k, content) == [table EXCEPT ![k] = content]

(* Faulty: the newest request makes room.                                  *)
AddEvictingNewest(k, content) ==
    LET newest == CHOOSE n \in Cached : \A j \in Cached : n >= j
    IN  reqMsgCache' = IF Cardinality(Cached) > CacheLimit
                       THEN With(With(reqMsgCache, newest, NoContent), k, content)
                       ELSE With(reqMsgCache, k, content)

addMsgCounterHashToCache(k, content) ==
    reqMsgCache' = IF Cardinality(Cached) > CacheLimit
                   THEN With(With(reqMsgCache, Oldest(Cached), NoContent), k, content)
                   ELSE With(reqMsgCache, k, content)

(* Faulty: a request that was under way during Close is still cached.      *)
FinishIgnoresClosed(c) ==
    /\ caller[c].pc = "finish"
    /\ addMsgCounterHashToCache(caller[c].key, caller[c].content)
    /\ Return(c)
    /\ UNCHANGED <<msgNum, roundTripsClosed, reader, wire, answered>>

(* finishSpineRequest, under the mutex of Close.                           *)
finishSpineRequest(c) ==
    /\ caller[c].pc = "finish"
    /\ \/ /\ roundTripsClosed
          /\ UNCHANGED reqMsgCache
       \/ /\ ~roundTripsClosed
          /\ addMsgCounterHashToCache(caller[c].key, caller[c].content)
    /\ Return(c)
    /\ UNCHANGED <<msgNum, roundTripsClosed, reader, wire, answered>>

-----------------------------------------------------------------------------
(* Faulty: a message without a reference is taken for an answer.           *)
HandleWithoutReference(r) ==
    /\ reader[r].pc = "idle"
    /\ ~roundTripsClosed
    /\ \E k \in OnWire \cup {0} :
          reader' = [reader EXCEPT ![r] = [pc |-> "check", ref |-> k,
                                           settled |-> k \in returned]]
    /\ UNCHANGED <<msgNum, reqMsgCache, roundTripsClosed, caller, history>>

(* HandleSpineMesssage has admitted and decoded an answer to a request on  *)
(* the wire; an answer to anything else finds nothing in the cache.        *)
handleSpineMessage(r) ==
    /\ reader[r].pc = "idle"
    /\ ~roundTripsClosed
    /\ \E k \in OnWire :
          reader' = [reader EXCEPT ![r] = [pc |-> "check", ref |-> k,
                                           settled |-> k \in returned]]
    /\ UNCHANGED <<msgNum, reqMsgCache, roundTripsClosed, caller, history>>

Processed(r) == /\ reader' = [reader EXCEPT ![r] = IdleReader]
                /\ answered' = answered \cup {[ref |-> reader[r].ref,
                                               settled |-> reader[r].settled]}

hasMsgCounterInCache(r) ==
    /\ reader[r].pc = "check"
    /\ \/ /\ reader[r].ref \in Cached
          /\ reader' = [reader EXCEPT ![r].pc = "delete"]
          /\ UNCHANGED answered
       \/ /\ reader[r].ref \notin Cached
          /\ Processed(r)
    /\ UNCHANGED <<msgNum, reqMsgCache, roundTripsClosed, caller, wire, returned>>

(* Faulty: the oldest entry is taken for the answered one.                 *)
DeleteOldest(r) ==
    /\ reader[r].pc = "delete"
    /\ reqMsgCache' = IF Cached = {} THEN reqMsgCache
                      ELSE With(reqMsgCache, Oldest(Cached), NoContent)
    /\ Processed(r)
    /\ UNCHANGED <<msgNum, roundTripsClosed, caller, wire, returned>>

(* ProcessResponseForMsgCounterReference after its look at the cache.      *)
ProcessResponseForMsgCounterReference(r) ==
    /\ reader[r].pc = "delete"
    /\ reqMsgCache' = With(reqMsgCache, reader[r].ref, NoContent)
    /\ Processed(r)
    /\ UNCHANGED <<msgNum, roundTripsClosed, caller, wire, returned>>

Close ==
    /\ ~roundTripsClosed
    /\ roundTripsClosed' = TRUE
    /\ UNCHANGED <<msgNum, reqMsgCache, caller, reader, history>>

Next == \/ \E c \in Callers : \/ admitSpineSend(c)
                              \/ msgCounterForHashFromCache(c)
                              \/ getMsgCounter(c)
                              \/ writeSpineMessageAdmitted(c)
                              \/ finishSpineRequest(c)
        \/ \E r \in Readers : \/ handleSpineMessage(r)
                              \/ hasMsgCounterInCache(r)
                              \/ ProcessResponseForMsgCounterReference(r)
        \/ Close

Spec == Init /\ [][Next]_vars

-----------------------------------------------------------------------------
CachedWasSent == \A k \in Cached : wire[k] = reqMsgCache[k]
CacheBound == Cardinality(Cached) <= CacheLimit + 1
AnsweredAfterReturnNotCached ==
    \A a \in answered : a.settled => a.ref \notin Cached

(* A suppressed request relies on a message that was really sent with its  *)
(* content, and that was not answered once its Request had returned: such  *)
(* a counter is never cached again, whatever other answers, evictions and  *)
(* requests race with the answer.  The cache exceeds its limit by one      *)
(* entry at most, also when callers add to it concurrently.                *)
SuppressionJustified ==
    CachedWasSent /\ CacheBound /\ AnsweredAfterReturnNotCached

(* A closed sender caches nothing more, not even for a Request that was    *)
(* admitted and written before Close.                                      *)
ClosedCacheOnlyShrinks ==
    [][roundTripsClosed => Keys(reqMsgCache') \subseteq Cached]_vars

(* A request stays suppressed until its answer is processed or until it is *)
(* the oldest of a cache at its limit.                                     *)
SuppressedUntilAnswered ==
    [][\A k \in Cached \ Keys(reqMsgCache') :
          \/ \E r \in Readers : reader[r].pc = "delete" /\ reader[r].ref = k
          \/ k = Oldest(Cached) /\ Cardinality(Cached) > CacheLimit]_vars
=============================================================================
