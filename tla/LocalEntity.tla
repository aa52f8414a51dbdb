---------------------------- MODULE LocalEntity -----------------------------
(***************************************************************************)
(* The features of one local entity and what their goroutines do: the      *)
(* heartbeat of its DeviceDiagnosis server (spine/heartbeat_manager.go),   *)
(* the subscriptions and bindings that a client feature has at a remote    *)
(* device, its requests and the callbacks that wait for their answers      *)
(* (feature_local.go), and the creation of features (entity_local.go).     *)
(*                                                                         *)
(* Actors: application goroutines, the goroutines that make heartbeats,    *)
(* the reader of the connection, the life cycle of the remote device, and  *)
(* the remote device itself, which this code only sends messages to.       *)
(* Messages of one connection stay in order.                               *)
(***************************************************************************)
EXTENDS Lists, Integers, Sequences, FiniteSets

CONSTANTS
    Callers,         \* application goroutines
    Workloads,       \* sets of operations; Init chooses what they call
    Targets,         \* remote server features, each of an entity of its own
    MaxCalls,        \* bound: the calls of the application
    MaxTicks,        \* bound: the heartbeats
    MaxGeneration,   \* bound: connections of the remote device
    NoTarget

ASSUME NoTargetAssumption == NoTarget \notin Targets
ASSUME CallersAssumption == IsFiniteSet(Callers)
ASSUME BoundsAssumption ==
    {MaxCalls, MaxTicks} \subseteq Nat /\ MaxGeneration \in Nat \ {0}

VARIABLES
    workload,
    call,            \* caller -> the call it is in
    calls,           \* the calls made so far
    features,        \* features of one type and role that the entity has
    channel,         \* the channels made by StartHeartbeat: open or closed
    stopHeartbeatC,  \* the one in HeartbeatManager, 0 for nil
    ticker,          \* the goroutines that make heartbeats
    heartBeatNum, heartbeat,  \* the counter, and its value in the data
    panicked,        \* a channel was closed twice
    connection,      \* to the remote device: open, closed, none
    generation,      \* its number
    up, down,        \* messages to the remote device and from it
    links,           \* FeatureLocal.subscriptions, or bindings
    peerLinks,       \* the same as the remote device has them
    exists,          \* the targets that the remote device has
    msgNum,          \* the message counter of the connection
    request,         \* requests made, with history of their answers
    callbacks,       \* responseMsgCallback: pairs of counter and request
    overlapped,      \* history: calls to the heartbeat manager overlapped
    raced            \* history: links changed while a call was at them

beats == <<channel, stopHeartbeatC, ticker, heartBeatNum, heartbeat, panicked,
           overlapped>>
peer == <<connection, generation, exists>>
lists == <<links, peerLinks, raced>>
answers == <<msgNum, request, callbacks>>
vars == <<workload, call, calls, features, beats, peer, up, down, lists,
          answers>>

NoCall == [op |-> "none", step |-> "idle", target |-> NoTarget, todo |-> <<>>,
           request |-> 0]

Init ==
    /\ workload \in Workloads
    /\ call = [c \in Callers |-> NoCall] /\ calls = 0
    /\ features = 0
    /\ channel = <<>> /\ stopHeartbeatC = 0 /\ ticker = <<>>
    /\ heartBeatNum = 0 /\ heartbeat = 0
    /\ panicked = FALSE
    /\ connection = "open" /\ generation = 1
    /\ up = <<>> /\ down = <<>>
    /\ links = <<>> /\ peerLinks = {} /\ exists = Targets
    /\ msgNum = 0 /\ request = <<>> /\ callbacks = {}
    /\ overlapped = FALSE /\ raced = FALSE

-----------------------------------------------------------------------------
Others(c) == {d \in Callers \ {c} : call[d] # NoCall}

Begin(c, op, step, target, todo) ==
    /\ op \in workload
    /\ call[c] = NoCall /\ calls < MaxCalls
    /\ calls' = calls + 1
    /\ call' = [call EXCEPT ![c] = [NoCall EXCEPT !.op = op, !.step = step,
                                        !.target = target, !.todo = todo]]
GoTo(c, step) == call' = [call EXCEPT ![c].step = step]
Return(c) == call' = [call EXCEPT ![c] = NoCall]

(* Faulty: the feature is created without a look.                          *)
AddUnchecked(c) ==
    /\ Begin(c, "GetOrAddFeature", "create", NoTarget, <<>>)
    /\ overlapped' = (overlapped \/ Others(c) # {})
    /\ UNCHANGED <<workload, features, channel, stopHeartbeatC, ticker,
                   heartBeatNum, heartbeat, panicked, peer, up, down, lists,
                   answers>>

(* EntityLocal.GetOrAddFeature looks for the feature and creates it in two *)
(* critical sections; AddFeature does both in one.                         *)
GetOrAddFeature(c) ==
    /\ Begin(c, "GetOrAddFeature", IF features = 0 THEN "create" ELSE "found",
             NoTarget, <<>>)
    /\ overlapped' = (overlapped \/ Others(c) # {})
    /\ UNCHANGED <<workload, features, channel, stopHeartbeatC, ticker,
                   heartBeatNum, heartbeat, panicked, peer, up, down, lists,
                   answers>>

CreateFeature(c) ==
    /\ call[c].step \in {"create", "found"}
    /\ features' = IF call[c].step = "create" THEN features + 1 ELSE features
    /\ Return(c)
    /\ UNCHANGED <<workload, calls, beats, peer, up, down, lists, answers>>

-----------------------------------------------------------------------------
(* The heartbeat.  All its operations stop a running one first.            *)
BeatOps == {"SetLocalFeature", "StartHeartbeat", "StopHeartbeat"}
HeartbeatCall(c, op) ==
    /\ Begin(c, op, "stop", NoTarget, <<>>)
    /\ overlapped' = (overlapped \/ Others(c) # {})
    /\ UNCHANGED <<workload, features, channel, stopHeartbeatC, ticker,
                   panicked, peer, up, down, lists, answers>>

(* SetLocalFeature shows a first heartbeat under the lock.                 *)
SetLocalFeature(c) ==
    /\ HeartbeatCall(c, "SetLocalFeature")
    /\ heartBeatNum' = heartBeatNum + 1
    /\ heartbeat' = heartBeatNum'

(* Without a local feature the first tick would have none to set.          *)
StartHeartbeat(c) ==
    /\ heartbeat > 0
    /\ HeartbeatCall(c, "StartHeartbeat")
    /\ UNCHANGED <<heartBeatNum, heartbeat>>

StopHeartbeat(c) ==
    /\ HeartbeatCall(c, "StopHeartbeat")
    /\ UNCHANGED <<heartBeatNum, heartbeat>>

(* Faulty: the question is whether there is a channel.                     *)
RunningIfChannel == stopHeartbeatC # 0

IsHeartbeatRunning ==
    stopHeartbeatC # 0 /\ channel[stopHeartbeatC] = "open"

(* After StopHeartbeat, the starting calls go on.                          *)
Starts(c) == call[c].op \in {"SetLocalFeature", "StartHeartbeat"}
Stopped(c) == IF Starts(c) THEN GoTo(c, "make") ELSE Return(c)

(* StopHeartbeat asks whether the heartbeat is running...                  *)
AskRunning(c) ==
    /\ call[c].step = "stop"
    /\ IF IsHeartbeatRunning THEN GoTo(c, "close") ELSE Stopped(c)
    /\ UNCHANGED <<workload, calls, features, beats, peer, up, down, lists,
                   answers>>

(* ...and closes the channel without the lock.                             *)
CloseChannel(c) ==
    /\ call[c].step = "close"
    /\ channel' = [channel EXCEPT ![stopHeartbeatC] = "closed"]
    /\ panicked' = (channel[stopHeartbeatC] = "closed")
    /\ Stopped(c)
    /\ UNCHANGED <<workload, calls, features, stopHeartbeatC, ticker,
                   heartBeatNum, heartbeat, overlapped, peer, up, down, lists,
                   answers>>

MakeChannel(c) ==
    /\ call[c].step = "make"
    /\ channel' = Append(channel, "open")
    /\ stopHeartbeatC' = Len(channel')
    /\ GoTo(c, "go")
    /\ UNCHANGED <<workload, calls, features, ticker, heartBeatNum, heartbeat,
                   panicked, overlapped, peer, up, down, lists, answers>>

(* The goroutine gets the channel that is in the manager by then.          *)
StartTicker(c) ==
    /\ call[c].step = "go"
    /\ ticker' = Append(ticker, [channel |-> stopHeartbeatC,
                                 step |-> "select", counter |-> 0])
    /\ Return(c)
    /\ UNCHANGED <<workload, calls, features, channel, stopHeartbeatC,
                   heartBeatNum, heartbeat, panicked, overlapped, peer, up,
                   down, lists, answers>>

(* updateHeartbeatData: a tick takes its number and sets it under a lock.  *)
(* When the channel is closed as well, select chooses either.              *)
Tick(i) ==
    /\ ticker[i].step = "select" /\ heartBeatNum < MaxTicks
    /\ heartBeatNum' = heartBeatNum + 1
    /\ ticker' = [ticker EXCEPT ![i].step = "tick",
                                ![i].counter = heartBeatNum']
    /\ UNCHANGED <<workload, call, calls, features, channel, stopHeartbeatC,
                   heartbeat, panicked, overlapped, peer, up, down, lists,
                   answers>>

SetHeartbeat(i) ==
    /\ ticker[i].step = "tick"
    /\ heartbeat' = ticker[i].counter
    /\ ticker' = [ticker EXCEPT ![i].step = "select", ![i].counter = 0]
    /\ UNCHANGED <<workload, call, calls, features, channel, stopHeartbeatC,
                   heartBeatNum, panicked, overlapped, peer, up, down, lists,
                   answers>>

(* Faulty: the break leaves the select and not the loop.                   *)
BreakSelect(i) ==
    /\ ticker[i].step = "select"
    /\ channel[ticker[i].channel] = "closed"
    /\ UNCHANGED vars

EndTicker(i) ==
    /\ ticker[i].step = "select"
    /\ channel[ticker[i].channel] = "closed"
    /\ ticker' = [ticker EXCEPT ![i].step = "ended"]
    /\ UNCHANGED <<workload, call, calls, features, channel, stopHeartbeatC,
                   heartBeatNum, heartbeat, panicked, overlapped, peer, up,
                   down, lists, answers>>

-----------------------------------------------------------------------------
(* The links of the client feature.  Subscriptions and bindings are kept   *)
(* in the same way; a workload has one or the other.  Without a remote     *)
(* device, or when the send fails, the calls end with an error.            *)
LinkOps == {"SubscribeToRemote", "BindToRemote"}
UnlinkOps == {"RemoveRemoteSubscription", "RemoveRemoteBinding"}
UnlinkAllOps == {"RemoveAllRemoteSubscriptions", "RemoveAllRemoteBindings",
                 "RemoveEntity"}
AtLinks(d) == call[d].op \in LinkOps \cup UnlinkOps \cup UnlinkAllOps
Raced(c) == raced' = (raced \/ \E d \in Others(c) : AtLinks(d))

Send(message) == /\ connection = "open"
                 /\ up' = Append(up, message)

SubscribeToRemote(c, t) ==
    /\ Begin(c, "SubscribeToRemote", "append", t, <<>>)
    /\ Send([kind |-> "link", target |-> t])
    /\ Raced(c)
    /\ UNCHANGED <<workload, features, beats, peer, down, links, peerLinks,
                   answers>>

BindToRemote(c, t) ==
    /\ Begin(c, "BindToRemote", "append", t, <<>>)
    /\ Send([kind |-> "link", target |-> t])
    /\ Raced(c)
    /\ UNCHANGED <<workload, features, beats, peer, down, links, peerLinks,
                   answers>>

(* After the send the link is listed, a second time if it is there.        *)
AppendLink(c) ==
    /\ call[c].step = "append"
    /\ links' = Append(links, call[c].target)
    /\ Return(c)
    /\ UNCHANGED <<workload, calls, features, beats, peer, up, down,
                   peerLinks, raced, answers>>

RemoveRemoteSubscription(c, t) ==
    /\ Begin(c, "RemoveRemoteSubscription", "drop", t, <<>>)
    /\ Send([kind |-> "unlink", target |-> t])
    /\ Raced(c)
    /\ UNCHANGED <<workload, features, beats, peer, down, links, peerLinks,
                   answers>>

RemoveRemoteBinding(c, t) ==
    /\ Begin(c, "RemoveRemoteBinding", "drop", t, <<>>)
    /\ Send([kind |-> "unlink", target |-> t])
    /\ Raced(c)
    /\ UNCHANGED <<workload, features, beats, peer, down, links, peerLinks,
                   answers>>

(* RemoveAllRemoteSubscriptions, RemoveAllRemoteBindings and, which stops  *)
(* the heartbeat after it, DeviceLocal.RemoveEntity: one after the other   *)
(* of the links there are in the beginning.                                *)
RemoveAll(c, op) ==
    /\ Begin(c, op, "next", NoTarget, links)
    /\ Raced(c)
    /\ overlapped' = (overlapped \/ (op = "RemoveEntity" /\ Others(c) # {}))
    /\ UNCHANGED <<workload, features, channel, stopHeartbeatC, ticker,
                   heartBeatNum, heartbeat, panicked, peer, up, down, links,
                   peerLinks, answers>>

RemoveNext(c) ==
    LET it == call[c]
    IN /\ it.step = "next" /\ it.todo # <<>>
       /\ call' = [call EXCEPT
              ![c].target = Head(it.todo), ![c].todo = Tail(it.todo),
              ![c].step = IF connection = "open" THEN "drop" ELSE "next"]
       /\ up' = IF connection = "open"
                THEN Append(up, [kind |-> "unlink", target |-> Head(it.todo)])
                ELSE up
       /\ UNCHANGED <<workload, calls, features, beats, peer, down, lists,
                      answers>>

RemovedAll(c) ==
    /\ call[c].step = "next" /\ call[c].todo = <<>>
    /\ IF call[c].op = "RemoveEntity" THEN GoTo(c, "stop") ELSE Return(c)
    /\ UNCHANGED <<workload, calls, features, beats, peer, up, down, lists,
                   answers>>

DropLink(c) ==
    /\ call[c].step = "drop"
    /\ links' = KeptOf(links, Targets \ {call[c].target})
    /\ IF call[c].op \in UnlinkOps THEN Return(c) ELSE GoTo(c, "next")
    /\ UNCHANGED <<workload, calls, features, beats, peer, up, down,
                   peerLinks, raced, answers>>

-----------------------------------------------------------------------------
(* RequestRemoteData gives the counter of the request, and with it the     *)
(* application registers its callback.  The requests differ, so that none  *)
(* is suppressed (RequestCache).                                           *)
RequestRemoteData(c) ==
    /\ Begin(c, "RequestRemoteData", "register", NoTarget, <<>>)
    /\ Send([kind |-> "read", counter |-> msgNum + 1])
    /\ msgNum' = msgNum + 1
    /\ request' = Append(request,
           [counter |-> msgNum', generation |-> generation, caller |-> c,
            registered |-> FALSE, answered |-> FALSE, called |-> 0])
    /\ UNCHANGED <<workload, features, beats, peer, down, lists, callbacks>>

AddResponseCallback(c) ==
    LET mine == {i \in 1..Len(request) : /\ request[i].caller = c
                                         /\ ~request[i].registered}
        i == CHOOSE i \in mine : TRUE
    IN /\ call[c].step = "register"
       /\ callbacks' = callbacks \cup {<<request[i].counter, i>>}
       /\ request' = [request EXCEPT ![i].registered = TRUE]
       /\ Return(c)
       /\ UNCHANGED <<workload, calls, features, beats, peer, up, down, lists,
                      msgNum>>

Heard(n) == [i \in 1..Len(request) |->
    LET own == /\ request[i].counter = n /\ request[i].registered
               /\ request[i].generation = generation
    IN [request[i] EXCEPT
           !.answered = @ \/ own,
           !.called = IF <<n, i>> \in callbacks THEN @ + 1 ELSE @]]

(* Faulty: the callbacks stay after they are called.                       *)
CallAndKeep(n) == request' = Heard(n) /\ UNCHANGED callbacks

(* processResponseMsgCallbacks: all callbacks under the counter are called *)
(* and removed, whatever connection they were registered for.              *)
processResponseMsgCallbacks(n) ==
    /\ request' = Heard(n)
    /\ callbacks' = {cb \in callbacks : cb[1] # n}

(* processResult and processReply.  A reply whose data the feature refuses *)
(* reaches no callback.                                                    *)
HandleAnswer ==
    LET m == Head(down)
    IN /\ connection = "open" /\ down # <<>>
       /\ m.kind \in {"result", "reply", "refusedReply"}
       /\ down' = Tail(down)
       /\ IF m.kind = "refusedReply"
          THEN UNCHANGED <<request, callbacks>>
          ELSE processResponseMsgCallbacks(m.counter)
       /\ UNCHANGED <<workload, call, calls, features, beats, peer, up, lists,
                      msgNum>>

(* A remote entity is removed: CleanRemoteEntityCaches.                    *)
CleanRemoteEntityCaches ==
    LET m == Head(down)
    IN /\ connection = "open" /\ down # <<>>
       /\ m.kind = "entityRemoved"
       /\ down' = Tail(down)
       /\ links' = KeptOf(links, Targets \ {m.target})
       /\ raced' = (raced \/ \E c \in Callers : call[c].step = "append")
       /\ UNCHANGED <<workload, call, calls, features, beats, peer, up,
                      peerLinks, answers>>

-----------------------------------------------------------------------------
(* The remote device: external.  It refuses a link to a feature it has not.*)
PeerLinks ==
    LET m == Head(up)
    IN /\ up # <<>> /\ m.kind \in {"link", "unlink"}
       /\ up' = Tail(up)
       /\ peerLinks' = IF m.kind = "link"
                       THEN peerLinks \cup ({m.target} \cap exists)
                       ELSE peerLinks \ {m.target}
       /\ raced' = (raced \/ (m.kind = "link" /\ m.target \notin exists))
       /\ UNCHANGED <<workload, call, calls, features, beats, peer, down,
                      links, answers>>

(* It answers a read with data or an error, perhaps with both.             *)
PeerAnswers(kinds) ==
    LET n == Head(up).counter
    IN /\ up # <<>> /\ Head(up).kind = "read"
       /\ up' = Tail(up)
       /\ down' = down \o [i \in 1..Len(kinds) |-> [kind |-> kinds[i],
                                                    counter |-> n]]
       /\ UNCHANGED <<workload, call, calls, features, beats, peer, lists,
                      answers>>

PeerRemovesEntity(t) ==
    /\ connection = "open" /\ t \in exists
    /\ workload \cap LinkOps # {}
    /\ exists' = exists \ {t}
    /\ peerLinks' = peerLinks \ {t}
    /\ down' = Append(down, [kind |-> "entityRemoved", target |-> t])
    /\ UNCHANGED <<workload, call, calls, features, beats, connection,
                   generation, up, links, raced, answers>>

(* The connection breaks: sends fail from now on, what is on its way is    *)
(* lost, and the remote device forgets its side of the links.  Where no    *)
(* operation concerns the remote device, it keeps still.                   *)
Disconnect ==
    /\ connection = "open" /\ generation < MaxGeneration
    /\ workload \cap (LinkOps \cup {"RequestRemoteData"}) # {}
    /\ connection' = "closed"
    /\ up' = <<>> /\ down' = <<>>
    /\ peerLinks' = {}
    /\ UNCHANGED <<workload, call, calls, features, beats, generation, exists,
                   links, raced, answers>>

(* Faulty: the client's lists are left.                                    *)
KeepRemoteDeviceCaches ==
    /\ connection = "closed"
    /\ connection' = "none"
    /\ UNCHANGED <<workload, call, calls, features, beats, generation, exists,
                   up, down, lists, answers>>

(* removeRemoteDevice ends with CleanRemoteDeviceCaches.  The callbacks    *)
(* stay.                                                                   *)
CleanRemoteDeviceCaches ==
    /\ connection = "closed"
    /\ connection' = "none"
    /\ links' = <<>>
    /\ raced' = (raced \/ \E c \in Callers : call[c].step = "append")
    /\ UNCHANGED <<workload, call, calls, features, beats, generation, exists,
                   up, down, peerLinks, answers>>

SetupRemoteDevice ==
    /\ connection = "none"
    /\ connection' = "open"
    /\ generation' = generation + 1
    /\ exists' = Targets
    /\ msgNum' = 0
    /\ UNCHANGED <<workload, call, calls, features, beats, up, down, lists,
                   request, callbacks>>

-----------------------------------------------------------------------------
HeartbeatStep(c) ==
    \/ SetLocalFeature(c) \/ StartHeartbeat(c) \/ StopHeartbeat(c)
    \/ AskRunning(c) \/ CloseChannel(c) \/ MakeChannel(c) \/ StartTicker(c)
LinkStep(c) ==
    \/ \E t \in Targets : SubscribeToRemote(c, t) \/ BindToRemote(c, t)
    \/ \E t \in Targets :
          RemoveRemoteSubscription(c, t) \/ RemoveRemoteBinding(c, t)
    \/ \E op \in UnlinkAllOps : RemoveAll(c, op)
    \/ AppendLink(c) \/ DropLink(c) \/ RemoveNext(c) \/ RemovedAll(c)
CallStep(c) ==
    \/ GetOrAddFeature(c) \/ CreateFeature(c)
    \/ HeartbeatStep(c)
    \/ LinkStep(c)
    \/ RequestRemoteData(c) \/ AddResponseCallback(c)
TickerStep(i) == Tick(i) \/ SetHeartbeat(i) \/ EndTicker(i)
PeerStep ==
    \/ PeerLinks
    \/ \E kinds \in {<<"reply">>, <<"refusedReply">>, <<"result", "reply">>} :
          PeerAnswers(kinds)
    \/ \E t \in Targets : PeerRemovesEntity(t)

Next ==
    /\ ~panicked
    /\ \/ \E c \in Callers : CallStep(c)
       \/ \E i \in 1..Len(ticker) : TickerStep(i)
       \/ HandleAnswer \/ CleanRemoteEntityCaches
       \/ PeerStep
       \/ Disconnect \/ CleanRemoteDeviceCaches \/ SetupRemoteDevice

(* Goroutines go on, and a select that finds its channel closed again and  *)
(* again chooses it some time.                                             *)
Tickers == 1..MaxCalls
Fairness ==
    /\ \A c \in Callers : WF_vars(~panicked /\ call[c] # NoCall /\ CallStep(c))
    /\ \A i \in Tickers :
          /\ WF_vars(~panicked /\ i \in DOMAIN ticker /\ SetHeartbeat(i))
          /\ SF_vars(~panicked /\ i \in DOMAIN ticker /\ EndTicker(i))

Spec == Init /\ [][Next]_vars /\ Fairness

-----------------------------------------------------------------------------
(* The entity gets one feature of a type and role, unless callers overlap, *)
(* and no call, message or request is of another kind.                     *)
TypeOK ==
    /\ workload \in Workloads
    /\ \A c \in Callers : call[c].target \in Targets \cup {NoTarget}
    /\ features \in 0..Cardinality(Callers)
    /\ features <= 1 \/ overlapped
    /\ {heartBeatNum, heartbeat} \subseteq 0..MaxTicks + MaxCalls
    /\ stopHeartbeatC \in 0..Len(channel)
    /\ connection \in {"open", "closed", "none"}
    /\ generation \in 1..MaxGeneration
    /\ ItemsIn(links) \cup peerLinks \subseteq Targets
    /\ \A cb \in callbacks : /\ cb[2] \in 1..Len(request)
                              /\ request[cb[2]].counter = cb[1]

Quiet == \A c \in Callers : call[c] = NoCall
Beating(i) == /\ ticker[i].step # "ended"
              /\ channel[ticker[i].channel] = "open"

(* As long as calls to the heartbeat manager do not overlap, at most one   *)
(* goroutine makes heartbeats that was not told to stop, there is one when *)
(* the manager says so, and no channel is closed twice.                    *)
OneHeartbeat ==
    ~overlapped =>
        /\ ~panicked
        /\ \A i, j \in DOMAIN ticker : Beating(i) /\ Beating(j) => i = j
        /\ Quiet => ((\E i \in DOMAIN ticker : Beating(i))
                      <=> stopHeartbeatC # 0
                          /\ channel[stopHeartbeatC] = "open")

(* When the heartbeat is off, by StopHeartbeat or with its entity, every   *)
(* goroutine that made heartbeats ends.                                    *)
Off == /\ ~overlapped /\ Quiet
       /\ stopHeartbeatC # 0 => channel[stopHeartbeatC] = "closed"
StoppedHeartbeatEnds ==
    Off ~> (~Off \/ \A i \in DOMAIN ticker : ticker[i].step = "ended")

(* When nothing is under way, the links that the local feature lists are   *)
(* those that the remote device has, connected or not, unless calls for    *)
(* links overlapped, a link was listed after the clean-up that should have *)
(* removed it, or was refused, which SubscribeToRemote does not wait for.  *)
LinksFollow ==
    /\ Quiet /\ up = <<>> /\ down = <<>> /\ connection # "closed"
    /\ ~raced
    => ItemsIn(links) = peerLinks

(* A callback that was registered before the answer to its request came is *)
(* called for it, and never again, however many answers there are.  It is  *)
(* called for the answer to another request only after its own connection  *)
(* is gone, whose callbacks nobody removes.                                *)
CallbacksCalledOnce ==
    \A i \in 1..Len(request) :
        LET r == request[i]
        IN /\ r.called <= 1
           /\ r.answered => r.called = 1
           /\ r.called = 1 /\ ~r.answered => r.generation < generation
=============================================================================
