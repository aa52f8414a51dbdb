----------------------------- MODULE RoundTrip -----------------------------
(***************************************************************************)
(* The correlated round trips of one Sender connection generation          *)
(* (spine/roundtrip.go, spine/send.go) together with the SHIP reader that  *)
(* settles them (DeviceRemote.HandleSpineMesssage).                        *)
(*                                                                         *)
(* Actors: the calls of RoundTrip (Ops, each runs once), the goroutines    *)
(* that deliver incoming messages (Readers), the callers of Close          *)
(* (Closers) and the ordinary sends that share the message counter         *)
(* (Senders).  The remote peer is not trusted: any message may arrive at   *)
(* any time, also a duplicate, a late one or one for a counter never sent. *)
(***************************************************************************)
EXTENDS Integers, FiniteSets

CONSTANTS
    Ops,                \* the calls of RoundTrip
    Readers,            \* goroutines inside HandleSpineMesssage
    Closers,            \* goroutines that call Close
    Senders,            \* goroutines inside an ordinary send
    Peers,              \* (source, destination) address pairs
    Requests,           \* the requests a caller may make
    Incoming,           \* the messages that may arrive
    NoOp,               \* no pending operation
    NoAddress,          \* a header without its addresses
    Capacity,           \* maxPendingCorrelatedRoundTrips
    TombstoneCapacity,  \* maxCorrelatedTombstones
    MaxCounter          \* stands for math.MaxUint64

Classifiers == {"read", "write", "other"}
RequestType == [classifier : Classifiers, ack : BOOLEAN, dest : Peers]

ASSUME NamesAssumption == NoOp \notin Ops /\ NoAddress \notin Peers
ASSUME RequestsAssumption == Requests \subseteq RequestType
ASSUME LimitsAssumption == /\ Capacity \in Nat \ {0}
                           /\ TombstoneCapacity \in Nat \ {0}
                           /\ MaxCounter \in Nat \ {0}

Counters == 0..MaxCounter

(***************************************************************************)
(* An incoming message: the counter it refers to, the address pair of its  *)
(* header and what its body turns out to be.  "undecodable" fails the JSON *)
(* decoding, "illformed" fails prepareCorrelatedResponse (a result without *)
(* an error number, unknown fields over their limits), "ok" and "error"    *)
(* are results, "other" is any other classifier or not exactly one command.*)
(***************************************************************************)
Kinds == {"undecodable", "illformed", "reply", "ok", "error", "other"}
Messages == [ref : Counters, from : Peers \cup {NoAddress}, kind : Kinds]
ASSUME IncomingAssumption == Incoming \subseteq Messages
NoMessage == [ref |-> 0, from |-> NoAddress, kind |-> "other"]

Tags == {"none", "ctx", "invalid", "closed", "capacity", "exhausted",
         "inFlight", "retired", "sendFailed", "protocol", "remote", "response"}
Outcomes == [tag : Tags, msg : Messages]
Failure(t) == [tag |-> t, msg |-> NoMessage]
NoOutcome == Failure("none")

VARIABLES
    roundTripMux,          \* the call of RoundTrip that holds the mutex across steps, or NoOp
    msgNum,                \* the counter used last, shared by every kind of send
    messageCounterWrapped, \* set by getMsgCounter
    pendingRoundTrips,     \* counter -> pending operation
    tombstones,            \* len(roundTripTombstones)
    retiredHighWatermark,
    roundTripsClosed,
    roundTripExhausted,
    pc,                    \* where each call of RoundTrip is
    request,               \* its request
    key,                   \* its correlation key
    ctxDone,               \* its context is cancelled
    disposition,           \* its DispatchDisposition
    ret,                   \* what it returns (its send error before that)
    result,                \* its result channel, of capacity 1
    wire,                  \* the calls whose datagram was handed to the SHIP writer
    reader,                \* each reader's place and local values
    retired,               \* each closer's operations still to be told
    sender                 \* each ordinary send: idle, or the counter it loaded

registry == <<pendingRoundTrips, tombstones, retiredHighWatermark>>
flags    == <<roundTripsClosed, roundTripExhausted>>
counter  == <<msgNum, messageCounterWrapped>>
call     == <<pc, request, key, ctxDone, disposition, ret>>
vars     == <<roundTripMux, registry, flags, counter, call, result, wire,
              reader, retired, sender>>

Places == {"idle", "register", "allocate", "admit", "gate", "write", "finish",
           "failed", "selfSend", "wait", "drain", "done"}
ReaderPlaces == {"idle", "prepare", "malformed", "process", "complete",
                 "settle", "deliver"}
ReaderStates == [pc : ReaderPlaces, msg : Messages, processErr : BOOLEAN,
                 op : Ops \cup {NoOp}, outcome : Outcomes]
IdleReader == [pc |-> "idle", msg |-> NoMessage, processErr |-> FALSE,
               op |-> NoOp, outcome |-> NoOutcome]
IdleSender == -1

TypeOK ==
    /\ roundTripMux \in Ops \cup {NoOp}
    /\ msgNum \in Counters
    /\ messageCounterWrapped \in BOOLEAN
    /\ pendingRoundTrips \in [Counters -> Ops \cup {NoOp}]
    /\ tombstones \in 0..TombstoneCapacity
    /\ retiredHighWatermark \in Counters
    /\ roundTripsClosed \in BOOLEAN
    /\ roundTripExhausted \in BOOLEAN
    /\ pc \in [Ops -> Places]
    /\ request \in [Ops -> RequestType]
    /\ key \in [Ops -> Counters]
    /\ ctxDone \in [Ops -> BOOLEAN]
    /\ disposition \in [Ops -> {"none", "possible"}]
    /\ ret \in [Ops -> Outcomes]
    /\ result \in [Ops -> Outcomes]
    /\ wire \subseteq Ops
    /\ reader \in [Readers -> ReaderStates]
    /\ retired \in [Closers -> SUBSET Ops]
    /\ sender \in [Senders -> Counters \cup {IdleSender}]

Init ==
    /\ roundTripMux = NoOp
    /\ msgNum = 0
    /\ messageCounterWrapped = FALSE
    /\ pendingRoundTrips = [k \in Counters |-> NoOp]
    /\ tombstones = 0
    /\ retiredHighWatermark = 0
    /\ roundTripsClosed = FALSE
    /\ roundTripExhausted = FALSE
    /\ pc = [o \in Ops |-> "idle"]
    /\ request \in [Ops -> Requests]
    /\ key = [o \in Ops |-> 0]
    /\ ctxDone = [o \in Ops |-> FALSE]
    /\ disposition = [o \in Ops |-> "none"]
    /\ ret = [o \in Ops |-> NoOutcome]
    /\ result = [o \in Ops |-> NoOutcome]
    /\ wire = {}
    /\ reader = [r \in Readers |-> IdleReader]
    /\ retired = [c \in Closers |-> {}]
    /\ sender = [s \in Senders |-> IdleSender]

-----------------------------------------------------------------------------
(* Every critical section but registration is one step, taken only while   *)
(* no registration holds the mutex.                                        *)
Unlocked == roundTripMux = NoOp

Pending(o) == \E k \in Counters : pendingRoundTrips[k] = o
PendingKeys == {k \in Counters : pendingRoundTrips[k] # NoOp}
PendingOps == {pendingRoundTrips[k] : k \in PendingKeys}

Goto(o, place) == pc' = [pc EXCEPT ![o] = place]
Return(o, outcome) == /\ Goto(o, "done")
                      /\ ret' = [ret EXCEPT ![o] = outcome]

Count(keys) == IF tombstones + Cardinality(keys) > TombstoneCapacity
               THEN TombstoneCapacity
               ELSE tombstones + Cardinality(keys)

(* Faulty: the tombstones grow without bound.                              *)
RetireUnbounded(keys) ==
    /\ retiredHighWatermark' \in keys \cup {retiredHighWatermark}
    /\ \A k \in keys \cup {retiredHighWatermark} : k <= retiredHighWatermark'
    /\ tombstones' = tombstones + Cardinality(keys)

(* Faulty: the key retired last wins, whatever the watermark was.          *)
RetireLastWins(keys) ==
    /\ keys # {} => retiredHighWatermark' \in keys
    /\ keys = {} => UNCHANGED retiredHighWatermark
    /\ tombstones' = Count(keys)

(* retireCorrelatedKeyLocked for every key of a set, in any order: the     *)
(* watermark rises to the largest, the newest tombstones are kept.         *)
retireCorrelatedKeysLocked(keys) ==
    /\ retiredHighWatermark' \in keys \cup {retiredHighWatermark}
    /\ \A k \in keys \cup {retiredHighWatermark} : k <= retiredHighWatermark'
    /\ tombstones' = Count(keys)

(* Faulty: the key is retired but its operation stays pending.             *)
FinishKeepsPending(k) ==
    /\ retireCorrelatedKeysLocked({k})
    /\ UNCHANGED pendingRoundTrips

(* The locked part of finishCorrelatedRoundTrip, for a pending key.        *)
finishPending(k) ==
    /\ pendingRoundTrips' = [pendingRoundTrips EXCEPT ![k] = NoOp]
    /\ retireCorrelatedKeysLocked({k})

-----------------------------------------------------------------------------
(* RoundTrip: the context and request checks before anything is registered.*)
RoundTripStart(o) ==
    /\ pc[o] = "idle"
    /\ \/ /\ ctxDone[o]
          /\ Return(o, Failure("ctx"))
       \/ /\ ~ctxDone[o]
          /\ request[o].classifier = "other"
          /\ Return(o, Failure("invalid"))
       \/ /\ ~ctxDone[o]
          /\ request[o].classifier # "other"
          /\ Goto(o, "register")
          /\ UNCHANGED ret
    /\ UNCHANGED <<roundTripMux, registry, flags, counter, request, key,
                   ctxDone, disposition, result, wire, reader, retired, sender>>

(* Faulty: registration does not look at roundTripsClosed.                 *)
RegisterIgnoresClosed(o) ==
    /\ pc[o] = "register"
    /\ Unlocked
    /\ Cardinality(PendingKeys) < Capacity
    /\ ~messageCounterWrapped
    /\ roundTripMux' = o
    /\ Goto(o, "allocate")
    /\ UNCHANGED <<registry, flags, counter, request, key, ctxDone, disposition,
                   ret, result, wire, reader, retired, sender>>

(* Faulty: one operation too many is admitted.                             *)
RegisterOverCapacity(o) ==
    /\ pc[o] = "register"
    /\ Unlocked
    /\ ~roundTripsClosed
    /\ Cardinality(PendingKeys) <= Capacity
    /\ ~messageCounterWrapped
    /\ roundTripMux' = o
    /\ Goto(o, "allocate")
    /\ UNCHANGED <<registry, flags, counter, request, key, ctxDone, disposition,
                   ret, result, wire, reader, retired, sender>>

(* registerCorrelatedRoundTrip up to its look at messageCounterWrapped.  On *)
(* success the mutex stays locked: getMsgCounter does not take it, so the  *)
(* counter may move before the next step.                                  *)
registerCorrelatedRoundTrip(o) ==
    /\ pc[o] = "register"
    /\ Unlocked
    /\ \/ /\ roundTripsClosed
          /\ Return(o, Failure("closed"))
          /\ UNCHANGED <<roundTripMux, roundTripExhausted>>
       \/ /\ ~roundTripsClosed
          /\ Cardinality(PendingKeys) >= Capacity
          /\ Return(o, Failure("capacity"))
          /\ UNCHANGED <<roundTripMux, roundTripExhausted>>
       \/ /\ ~roundTripsClosed
          /\ Cardinality(PendingKeys) < Capacity
          /\ messageCounterWrapped
          /\ roundTripExhausted' = TRUE
          /\ Return(o, Failure("exhausted"))
          /\ UNCHANGED roundTripMux
       \/ /\ ~roundTripsClosed
          /\ Cardinality(PendingKeys) < Capacity
          /\ ~messageCounterWrapped
          /\ roundTripMux' = o
          /\ Goto(o, "allocate")
          /\ UNCHANGED <<ret, roundTripExhausted>>
    /\ UNCHANGED <<registry, roundTripsClosed, counter, request, key, ctxDone,
                   disposition, result, wire, reader, retired, sender>>

(* Faulty: a retired key is handed out again.                              *)
AllocateRetiredKey(o) ==
    /\ pc[o] = "allocate"
    /\ msgNum < MaxCounter
    /\ pendingRoundTrips[msgNum + 1] = NoOp
    /\ msgNum' = msgNum + 1
    /\ pendingRoundTrips' = [pendingRoundTrips EXCEPT ![msgNum + 1] = o]
    /\ key' = [key EXCEPT ![o] = msgNum + 1]
    /\ Goto(o, "admit")
    /\ roundTripMux' = NoOp
    /\ UNCHANGED <<tombstones, retiredHighWatermark, flags, messageCounterWrapped,
                   request, ctxDone, disposition, ret, result, wire, reader,
                   retired, sender>>

(* The compare-and-swap loop of registerCorrelatedRoundTrip and the unlock.*)
allocateKey(o) ==
    /\ pc[o] = "allocate"
    /\ roundTripMux' = NoOp
    /\ \/ /\ msgNum = MaxCounter
          /\ roundTripExhausted' = TRUE
          /\ Return(o, Failure("exhausted"))
          /\ UNCHANGED <<msgNum, pendingRoundTrips, key>>
       \/ /\ msgNum < MaxCounter
          /\ msgNum' = msgNum + 1
          /\ \/ /\ pendingRoundTrips[msgNum + 1] # NoOp
                /\ Return(o, Failure("inFlight"))
                /\ UNCHANGED <<pendingRoundTrips, key>>
             \/ /\ pendingRoundTrips[msgNum + 1] = NoOp
                /\ msgNum + 1 <= retiredHighWatermark
                /\ Return(o, Failure("retired"))
                /\ UNCHANGED <<pendingRoundTrips, key>>
             \/ /\ pendingRoundTrips[msgNum + 1] = NoOp
                /\ msgNum + 1 > retiredHighWatermark
                /\ pendingRoundTrips' = [pendingRoundTrips EXCEPT ![msgNum + 1] = o]
                /\ key' = [key EXCEPT ![o] = msgNum + 1]
                /\ Goto(o, "admit")
                /\ UNCHANGED ret
          /\ UNCHANGED roundTripExhausted
    /\ UNCHANGED <<tombstones, retiredHighWatermark, roundTripsClosed,
                   messageCounterWrapped, request, ctxDone, disposition,
                   result, wire, reader, retired, sender>>

(* A step of the send that fails keeps its error as the return value.      *)
SendFails(o, t) == /\ Goto(o, "failed")
                   /\ ret' = [ret EXCEPT ![o] = Failure(t)]

(* admitSpineSend.                                                         *)
admitSpineSend(o) ==
    /\ pc[o] = "admit"
    /\ Unlocked
    /\ \/ /\ roundTripsClosed
          /\ SendFails(o, "closed")
       \/ /\ ~roundTripsClosed
          /\ Goto(o, "gate")
          /\ UNCHANGED ret
    /\ UNCHANGED <<roundTripMux, registry, flags, counter, request, key, ctxDone,
                   disposition, result, wire, reader, retired, sender>>

(* Encoding the datagram fails, or the sender has no writer.               *)
encodeFails(o) ==
    /\ pc[o] = "gate"
    /\ SendFails(o, "sendFailed")
    /\ UNCHANGED <<roundTripMux, registry, flags, counter, request, key, ctxDone,
                   disposition, result, wire, reader, retired, sender>>

(* Faulty: the hand-off is admitted without being recorded.                *)
GateForgetsDisposition(o) ==
    /\ pc[o] = "gate"
    /\ Unlocked
    /\ ~roundTripsClosed
    /\ pendingRoundTrips[key[o]] = o
    /\ Goto(o, "write")
    /\ UNCHANGED <<roundTripMux, registry, flags, counter, request, key, ctxDone,
                   disposition, ret, result, wire, reader, retired, sender>>

(* The writer gate: admitCorrelatedTransportHandoff and the disposition.   *)
admitCorrelatedTransportHandoff(o) ==
    /\ pc[o] = "gate"
    /\ Unlocked
    /\ \/ /\ roundTripsClosed \/ pendingRoundTrips[key[o]] # o
          /\ SendFails(o, "closed")
          /\ UNCHANGED disposition
       \/ /\ ~roundTripsClosed /\ pendingRoundTrips[key[o]] = o
          /\ disposition' = [disposition EXCEPT ![o] = "possible"]
          /\ Goto(o, "write")
          /\ UNCHANGED ret
    /\ UNCHANGED <<roundTripMux, registry, flags, counter, request, key, ctxDone,
                   result, wire, reader, retired, sender>>

(* WriteShipMessageWithPayload: nothing is locked, Close may have run.     *)
writeShipMessage(o) ==
    /\ pc[o] = "write"
    /\ wire' = wire \cup {o}
    /\ Goto(o, "finish")
    /\ UNCHANGED <<roundTripMux, registry, flags, counter, request, key, ctxDone,
                   disposition, ret, result, reader, retired, sender>>

finishSpineSend(o) ==
    /\ pc[o] = "finish"
    /\ Unlocked
    /\ \/ /\ roundTripsClosed
          /\ SendFails(o, "closed")
       \/ /\ ~roundTripsClosed
          /\ Goto(o, "wait")
          /\ UNCHANGED ret
    /\ UNCHANGED <<roundTripMux, registry, flags, counter, request, key, ctxDone,
                   disposition, result, wire, reader, retired, sender>>

(* The select of RoundTrip: the context wins.                              *)
contextDone(o) ==
    /\ pc[o] = "wait"
    /\ ctxDone[o]
    /\ SendFails(o, "ctx")
    /\ UNCHANGED <<roundTripMux, registry, flags, counter, request, key, ctxDone,
                   disposition, result, wire, reader, retired, sender>>

(* Faulty: the caller returns its error even when it lost the race.        *)
AbandonAlways(o) ==
    /\ pc[o] = "failed"
    /\ Unlocked
    /\ IF pendingRoundTrips[key[o]] # NoOp THEN finishPending(key[o])
                                           ELSE UNCHANGED registry
    /\ Goto(o, "selfSend")
    /\ UNCHANGED <<roundTripMux, flags, counter, request, key, ctxDone,
                   disposition, ret, result, wire, reader, retired, sender>>

(* RoundTrip gives up with the error in ret: it owns the outcome only if   *)
(* its key is still pending, otherwise another actor settled it and the    *)
(* call must wait for that outcome.                                        *)
abandon(o) ==
    /\ pc[o] = "failed"
    /\ Unlocked
    /\ \/ /\ pendingRoundTrips[key[o]] # NoOp
          /\ finishPending(key[o])
          /\ Goto(o, "selfSend")
       \/ /\ pendingRoundTrips[key[o]] = NoOp
          /\ Goto(o, "drain")
          /\ UNCHANGED registry
    /\ UNCHANGED <<roundTripMux, flags, counter, request, key, ctxDone,
                   disposition, ret, result, wire, reader, retired, sender>>

(* The send on a channel of capacity 1 blocks while the channel is full.   *)
Send(o, outcome) == /\ result[o] = NoOutcome
                    /\ result' = [result EXCEPT ![o] = outcome]

(* finishCorrelatedRoundTrip sends to the entry it removed, here its own.  *)
sendToSelf(o) ==
    /\ pc[o] = "selfSend"
    /\ Send(o, ret[o])
    /\ Goto(o, "done")
    /\ UNCHANGED <<roundTripMux, registry, flags, counter, request, key, ctxDone,
                   disposition, ret, wire, reader, retired, sender>>

receiveOutcome(o) ==
    /\ pc[o] \in {"wait", "drain"}
    /\ result[o] # NoOutcome
    /\ Return(o, result[o])
    /\ result' = [result EXCEPT ![o] = NoOutcome]
    /\ UNCHANGED <<roundTripMux, registry, flags, counter, request, key, ctxDone,
                   disposition, wire, reader, retired, sender>>

(* The caller's context is cancelled or times out.                         *)
cancelContext(o) ==
    /\ ~ctxDone[o]
    /\ pc[o] # "done"
    /\ ctxDone' = [ctxDone EXCEPT ![o] = TRUE]
    /\ UNCHANGED <<roundTripMux, registry, flags, counter, pc, request, key,
                   disposition, ret, result, wire, reader, retired, sender>>

-----------------------------------------------------------------------------
(* Faulty: Close empties the pending table and tells nobody.               *)
CloseTellsNobody(c) ==
    /\ retired[c] = {}
    /\ Unlocked
    /\ ~roundTripsClosed
    /\ roundTripsClosed' = TRUE
    /\ pendingRoundTrips' = [k \in Counters |-> NoOp]
    /\ retireCorrelatedKeysLocked(PendingKeys)
    /\ UNCHANGED <<roundTripMux, roundTripExhausted, counter, call, result,
                   wire, reader, retired, sender>>

(* Faulty: Close leaves the pending table alone.                           *)
CloseOnlyFlags(c) ==
    /\ retired[c] = {}
    /\ Unlocked
    /\ ~roundTripsClosed
    /\ roundTripsClosed' = TRUE
    /\ UNCHANGED <<roundTripMux, registry, roundTripExhausted, counter, call,
                   result, wire, reader, retired, sender>>

(* The locked part of Close; a second Close does nothing.                  *)
Close(c) ==
    /\ retired[c] = {}
    /\ Unlocked
    /\ ~roundTripsClosed
    /\ roundTripsClosed' = TRUE
    /\ retired' = [retired EXCEPT ![c] = PendingOps]
    /\ pendingRoundTrips' = [k \in Counters |-> NoOp]
    /\ retireCorrelatedKeysLocked(PendingKeys)
    /\ UNCHANGED <<roundTripMux, roundTripExhausted, counter, call, result,
                   wire, reader, sender>>

(* Close tells the operations it retired, in the order of their keys.      *)
tellRetired(c) ==
    \E o \in retired[c] :
       /\ \A p \in retired[c] : key[o] <= key[p]
       /\ Send(o, Failure("closed"))
       /\ retired' = [retired EXCEPT ![c] = @ \ {o}]
       /\ UNCHANGED <<roundTripMux, registry, flags, counter, call, wire,
                      reader, sender>>

-----------------------------------------------------------------------------
(* getMsgCounter of an ordinary send: load and flag, then compare and swap.*)
loadMsgNum(s) ==
    /\ sender[s] = IdleSender
    /\ sender' = [sender EXCEPT ![s] = msgNum]
    /\ messageCounterWrapped' = (messageCounterWrapped \/ msgNum = MaxCounter)
    /\ UNCHANGED <<roundTripMux, registry, flags, msgNum, call, result, wire,
                   reader, retired>>

swapMsgNum(s) ==
    /\ sender[s] # IdleSender
    /\ sender' = [sender EXCEPT ![s] = IdleSender]
    /\ msgNum' = IF msgNum = sender[s] THEN (msgNum + 1) % (MaxCounter + 1)
                                       ELSE msgNum
    /\ UNCHANGED <<roundTripMux, registry, flags, messageCounterWrapped, call,
                   result, wire, reader, retired>>

-----------------------------------------------------------------------------
ReaderGoes(r, state) == reader' = [reader EXCEPT ![r] = state]
ReaderReturns(r) == ReaderGoes(r, IdleReader)
KeepAllButReader == <<roundTripMux, flags, counter, call, wire, retired, sender>>

(* HandleSpineMesssage: admitIncomingSpineMessage, then the JSON decoding. *)
admitIncomingSpineMessage(r) ==
    /\ reader[r].pc = "idle"
    /\ Unlocked
    /\ ~roundTripsClosed
    /\ \E m \in Incoming :
          \/ /\ m.kind = "undecodable"
             /\ ReaderGoes(r, [IdleReader EXCEPT !.pc = "malformed", !.msg = m])
          \/ /\ m.kind # "undecodable"
             /\ ReaderGoes(r, [IdleReader EXCEPT !.pc = "prepare", !.msg = m])
    /\ UNCHANGED <<KeepAllButReader, registry, result>>

(* prepareCorrelatedResponse looks only at answers to a pending operation. *)
prepareCorrelatedResponse(r) ==
    /\ reader[r].pc = "prepare"
    /\ Unlocked
    /\ LET m == reader[r].msg
           bad == /\ pendingRoundTrips[m.ref] # NoOp
                  /\ m.from = NoAddress \/ m.kind = "illformed"
       IN \/ bad  /\ ReaderGoes(r, [reader[r] EXCEPT !.pc = "malformed"])
          \/ ~bad /\ ReaderGoes(r, [reader[r] EXCEPT !.pc = "process"])
    /\ UNCHANGED <<KeepAllButReader, registry, result>>

(* ProcessCmd of the local device, whatever it returns.                    *)
ProcessCmd(r) ==
    /\ reader[r].pc = "process"
    /\ \E err \in BOOLEAN :
          ReaderGoes(r, [reader[r] EXCEPT !.pc = "complete", !.processErr = err])
    /\ UNCHANGED <<KeepAllButReader, registry, result>>

Answer(t, m) == [tag |-> t, msg |-> m]

(* Faulty: the acknowledgement of a read ends it.                          *)
ClassifyAckEndsRead(m, req, err) ==
    IF m.from # req.dest THEN Failure("protocol")
    ELSE IF m.kind = "reply" /\ req.classifier = "read" /\ ~err THEN Answer("response", m)
    ELSE IF m.kind = "error" THEN Answer("remote", m)
    ELSE IF m.kind = "ok" /\ ~err THEN Answer("response", m)
    ELSE Failure("protocol")

(* classifyCorrelatedResponse; NoOutcome when the answer is not terminal:  *)
(* an acknowledged read still waits for its reply.                         *)
classifyCorrelatedResponse(m, req, err) ==
    CASE m.from # req.dest -> Failure("protocol")
      [] m.from = req.dest /\ m.kind = "error" -> Answer("remote", m)
      [] m.from = req.dest /\ m.kind = "reply" /\ req.classifier = "read" /\ ~err ->
            Answer("response", m)
      [] m.from = req.dest /\ m.kind = "ok" /\ req.classifier = "write" /\ ~err ->
            Answer("response", m)
      [] m.from = req.dest /\ m.kind = "ok" /\ req.classifier = "read" /\ req.ack ->
            NoOutcome
      [] OTHER -> Failure("protocol")

(* The lookup of completeCorrelatedResponse and the classification against *)
(* the request found; the mutex is released in between and the settlement. *)
completeCorrelatedResponse(r) ==
    /\ reader[r].pc = "complete"
    /\ Unlocked
    /\ LET m == reader[r].msg
           op == pendingRoundTrips[m.ref]
           outcome == classifyCorrelatedResponse(m, request[op], reader[r].processErr)
       IN IF op = NoOp \/ outcome = NoOutcome
          THEN ReaderReturns(r)
          ELSE ReaderGoes(r, [reader[r] EXCEPT !.pc = "settle", !.outcome = outcome,
                                               !.processErr = FALSE])
    /\ UNCHANGED <<KeepAllButReader, registry, result>>

(* completeMalformedCorrelatedResponse: other addresses are ignored.       *)
completeMalformedCorrelatedResponse(r) ==
    /\ reader[r].pc = "malformed"
    /\ Unlocked
    /\ LET m == reader[r].msg
           op == pendingRoundTrips[m.ref]
       IN IF op = NoOp \/ m.from = NoAddress \/ m.from # request[op].dest
          THEN ReaderReturns(r)
          ELSE ReaderGoes(r, [reader[r] EXCEPT !.pc = "settle",
                                               !.outcome = Failure("protocol")])
    /\ UNCHANGED <<KeepAllButReader, registry, result>>

(* The locked part of finishCorrelatedRoundTrip, with a second lookup: the *)
(* operation may be gone since the first.                                  *)
settle(r) ==
    /\ reader[r].pc = "settle"
    /\ Unlocked
    /\ LET ref == reader[r].msg.ref
           op == pendingRoundTrips[ref]
       IN \/ /\ op = NoOp
             /\ ReaderReturns(r)
             /\ UNCHANGED registry
          \/ /\ op # NoOp
             /\ finishPending(ref)
             /\ ReaderGoes(r, [reader[r] EXCEPT !.pc = "deliver", !.op = op])
    /\ UNCHANGED <<KeepAllButReader, result>>

(* finishCorrelatedRoundTrip sends the outcome after the unlock.           *)
deliver(r) ==
    /\ reader[r].pc = "deliver"
    /\ Send(reader[r].op, reader[r].outcome)
    /\ ReaderReturns(r)
    /\ UNCHANGED <<KeepAllButReader, registry>>

-----------------------------------------------------------------------------
(* The steps of a call of RoundTrip that is under way.                     *)
CallStep(o) == \/ registerCorrelatedRoundTrip(o)
               \/ allocateKey(o)
               \/ admitSpineSend(o)
               \/ encodeFails(o)
               \/ admitCorrelatedTransportHandoff(o)
               \/ writeShipMessage(o)
               \/ finishSpineSend(o)
               \/ contextDone(o)
               \/ abandon(o)
               \/ sendToSelf(o)
               \/ receiveOutcome(o)

(* The steps of a reader that has a message.                               *)
ReaderStep(r) == \/ prepareCorrelatedResponse(r)
                 \/ ProcessCmd(r)
                 \/ completeCorrelatedResponse(r)
                 \/ completeMalformedCorrelatedResponse(r)
                 \/ settle(r)
                 \/ deliver(r)

Next == \/ \E o \in Ops : RoundTripStart(o) \/ CallStep(o) \/ cancelContext(o)
        \/ \E c \in Closers : Close(c) \/ tellRetired(c)
        \/ \E s \in Senders : loadMsgNum(s) \/ swapMsgNum(s)
        \/ \E r \in Readers : admitIncomingSpineMessage(r) \/ ReaderStep(r)

(* A goroutine that can run does, and the SHIP writer returns.  Nobody has *)
(* to call RoundTrip, to cancel, to close, to send or to answer.           *)
Fairness == /\ \A o \in Ops : WF_vars(CallStep(o))
            /\ \A r \in Readers : WF_vars(ReaderStep(r))
            /\ \A c \in Closers : WF_vars(tellRetired(c))

Spec == Init /\ [][Next]_vars
FairSpec == Spec /\ Fairness

-----------------------------------------------------------------------------
Registered(o) == key[o] # 0
Delivering(o) == {r \in Readers : reader[r].pc = "deliver" /\ reader[r].op = o}
Telling(o) == {c \in Closers : o \in retired[c]}

(* Who holds the outcome of an operation, or will produce it.              *)
Holders(o) ==
    {<<"pending", k>> : k \in {k \in Counters : pendingRoundTrips[k] = o}}
      \cup {<<"reader", r>> : r \in Delivering(o)}
      \cup {<<"closer", c>> : c \in Telling(o)}
      \cup {<<"self", o>> : p \in {p \in {o} : pc[p] = "selfSend"}}
      \cup {<<"channel", o>> : p \in {p \in {o} : result[p] # NoOutcome}}

InProgress == {"admit", "gate", "write", "finish", "failed", "selfSend", "wait", "drain"}

(* The outcome of a round trip is never lost and never doubled: while the  *)
(* call is under way exactly one of the pending table, a reader, a Close,  *)
(* the call itself and its channel holds it.  So no send on the channel of *)
(* capacity 1 blocks, and no call waits for an outcome nobody will send.   *)
OneHolder ==
    \A o \in Ops :
        /\ \A g, h \in Holders(o) : g = h
        /\ pc[o] \in InProgress => Holders(o) # {}

(* Two round trips of one connection generation never share a key, though  *)
(* the counter is also moved by ordinary sends that take no lock and may   *)
(* wrap between the check of the flag and the allocation.                  *)
KeysUnique == \A o, p \in Ops : Registered(o) /\ key[o] = key[p] => o = p

(* Every key that was handed out is pending under its own operation or is  *)
(* covered by the watermark, so it cannot be handed out again.             *)
PendingOrRetired ==
    \A o \in Ops : Registered(o) =>
        pendingRoundTrips[key[o]] = o \/ key[o] <= retiredHighWatermark

(* The table of pending operations stays within its limit.                 *)
CapacityBound == Cardinality(PendingKeys) <= Capacity

(* A closed generation has nothing pending, also when a registration was   *)
(* under way during Close.                                                 *)
NothingPendingAfterClose == roundTripsClosed => PendingKeys = {}

(* What a call returns as a response came from its own destination, under  *)
(* its own key, and is a reply to a read or the result of a write: never   *)
(* the acknowledgement of a read, nor an answer to another operation.      *)
ResponseMatchesRequest ==
    \A o \in Ops : pc[o] = "done" /\ ret[o].tag = "response" =>
        /\ ret[o].msg.ref = key[o]
        /\ ret[o].msg.from = request[o].dest
        /\ ret[o].msg.kind = IF request[o].classifier = "read" THEN "reply" ELSE "ok"

(* A failed call that reports NoTransportHandoff left nothing on the wire. *)
DispositionIsEvidence ==
    \A o \in Ops : pc[o] = "done" /\ disposition[o] = "none" => o \notin wire

(* Once its context is cancelled a call returns, whatever it races with.   *)
CancelledCallReturns ==
    \A o \in Ops : ctxDone[o] /\ pc[o] # "idle" ~> pc[o] = "done"

(* Once the generation is closed every call under way returns.             *)
ClosedCallsReturn ==
    \A o \in Ops : roundTripsClosed /\ pc[o] # "idle" ~> pc[o] = "done"
=============================================================================
