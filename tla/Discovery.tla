----------------------------- MODULE Discovery ------------------------------
(***************************************************************************)
(* How a device follows the entities and use cases of another one: detailed*)
(* discovery and use case data of node management                          *)
(* (spine/nodemanagement_detaileddiscovery.go, nodemanagement_usecase.go), *)
(* the local entities of the one (device_local.go, entity_local.go,        *)
(* model/nodemanagement_additions.go) and the remote entities of the other *)
(* (device_remote.go, entity_remote.go).                                   *)
(*                                                                         *)
(* Actors: application goroutines of the announcing device, the goroutine  *)
(* that reads its connection, and the one that reads the connection of the *)
(* device that discovers it.  Messages stay in order.  The announcing      *)
(* device knows the other one already, and each entity has one feature and *)
(* at most one use case.  Entity 0, which is always there, is left out.    *)
(*                                                                         *)
(* What the discovering device forgets with an entity, links and caches,   *)
(* is in Links and LocalEntity.                                            *)
(***************************************************************************)
EXTENDS Lists, Integers, Sequences, FiniteSets

CONSTANTS
    Entities,   \* addresses of the entities
    Callers,    \* goroutines of the announcing application
    Styles,     \* how entities are announced; Init chooses one of them
    MaxCalls,   \* bound: the calls of the application
    MaxReads,   \* bound: discovery requests made by the other application
    NoEntity

(* This code announces the entity that was added or removed.  A device of  *)
(* another make may send the full list instead.                            *)
ASSUME StylesAssumption == Styles \subseteq {"partial", "full"}
ASSUME NoEntityAssumption == NoEntity \notin Entities
ASSUME BoundsAssumption == MaxCalls \in Nat /\ MaxReads \in Nat

VARIABLES
    style,
    entities,       \* DeviceLocal.entities
    useCases,       \* nodeManagementUseCaseData: at most one list
    call,           \* caller -> the call it is in
    reader,         \* the reply that the announcing device is about to send
    subscribed,     \* whether its node management has the subscription
    up, down,       \* messages to the announcing device and from it
    asked,          \* reads in the request cache of the discovering device
    known,          \* DeviceRemote.entities: entity -> whether it has features
    knownUseCases,  \* the use case data of its node management feature
    calls, reads,   \* the calls made so far
    answered,       \* history: the entities were read for a reply
    lossy           \* history: what may have been lost: entities, useCases

local == <<entities, useCases, call, calls>>
remote == <<asked, known, knownUseCases, reads>>
vars == <<style, local, reader, subscribed, up, down, remote, answered, lossy>>

-----------------------------------------------------------------------------
(* The use case data is a function that says of the entities with a use    *)
(* case whether it is available.                                           *)
NoUseCases == [e \in {} |-> FALSE]
UseCaseLists == UNION {[S -> BOOLEAN] : S \in SUBSET Entities}
OnlyOf(lists) == IF lists = {} THEN NoUseCases ELSE CHOOSE l \in lists : TRUE

AddUseCaseSupport(list, e, available) ==
    Over([x \in {e} |-> available], list)
SetAvailability(list, e, available) ==
    [x \in DOMAIN list |-> IF x = e THEN available ELSE list[x]]
RemoveUseCaseDataForAddress(list, e) == Without(list, {e})

NoCall == [op |-> "none", step |-> "idle", entity |-> NoEntity, available |-> FALSE,
           copy |-> {}, early |-> FALSE]
NoReply == [kind |-> "none"]

Init ==
    /\ style \in Styles
    /\ entities \in SUBSET Entities
    /\ useCases = {}
    /\ call = [c \in Callers |-> NoCall]
    /\ reader = NoReply
    /\ subscribed = FALSE
    /\ up = <<[kind |-> "readDiscovery"]>> /\ down = <<>>
    /\ asked = {"discovery"}
    /\ known = NoUseCases /\ knownUseCases = {}
    /\ calls = 0 /\ reads = 0
    /\ answered = FALSE
    /\ lossy = {}

-----------------------------------------------------------------------------
(* A call begins.  Calls for one entity that overlap may be told of in     *)
(* another order than they happened in; so may changes of the use cases,   *)
(* which are copied, changed and set without a lock around the three.      *)
Others(c) == {d \in Callers \ {c} : call[d] # NoCall}
Meeting(c, op, e) ==
    (IF \E d \in Others(c) : call[d].entity = e
     THEN {"entities", "useCases"} ELSE {}) \cup
    (IF op # "AddEntity" /\ \E d \in Others(c) : call[d].op # "AddEntity"
     THEN {"useCases"} ELSE {})

Begin(c, op, step, e, available, copy) ==
    /\ call[c] = NoCall /\ calls < MaxCalls
    /\ calls' = calls + 1
    /\ call' = [call EXCEPT ![c] = [op |-> op, step |-> step, entity |-> e,
                                    available |-> available, copy |-> copy,
                                    early |-> ~answered]]
    /\ lossy' = lossy \cup Meeting(c, op, e)

(* DeviceLocal.AddEntity up to the unlock.                                 *)
AddEntity(c, e) ==
    /\ e \notin entities
    /\ entities' = entities \cup {e}
    /\ Begin(c, "AddEntity", "announce", e, FALSE, {})
    /\ UNCHANGED <<style, useCases, reader, subscribed, up, down, remote,
                   answered>>

(* The operations of EntityLocal on use cases begin with a copy.  All but  *)
(* the addition end here when there is no data yet.                        *)
CopyUseCases(c, op, e, available) ==
    /\ e \in entities
    /\ op # "AddUseCaseSupport" => useCases # {}
    /\ Begin(c, op, "set", e, available, useCases)
    /\ UNCHANGED <<style, entities, useCases, reader, subscribed, up, down,
                   remote, answered>>

(* Faulty: the entity leaves the list and is announced first.              *)
RemoveEntityFirst(c, e) ==
    /\ e \in entities
    /\ entities' = entities \ {e}
    /\ Begin(c, "RemoveEntity", "announce", e, FALSE, {})
    /\ UNCHANGED <<style, useCases, reader, subscribed, up, down, remote,
                   answered>>

(* DeviceLocal.RemoveEntity begins with RemoveAllUseCaseSupports.          *)
RemoveEntity(c, e) ==
    /\ e \in entities
    /\ Begin(c, "RemoveEntity", IF useCases = {} THEN "remove" ELSE "set",
             e, FALSE, useCases)
    /\ UNCHANGED <<style, entities, useCases, reader, subscribed, up, down,
                   remote, answered>>

(* The copy is changed and NodeManagement.SetData takes it.                *)
Changed(it) ==
    LET list == OnlyOf(it.copy)
    IN CASE it.op = "AddUseCaseSupport" ->
                AddUseCaseSupport(list, it.entity, it.available)
         [] it.op = "SetUseCaseAvailability" ->
                SetAvailability(list, it.entity, it.available)
         [] OTHER -> RemoveUseCaseDataForAddress(list, it.entity)
SetUseCases(c) ==
    /\ call[c].step = "set"
    /\ useCases' = {Changed(call[c])}
    /\ call' = [call EXCEPT ![c].step = "notify", ![c].copy = {}]
    /\ UNCHANGED <<style, entities, calls, reader, subscribed, up, down,
                   remote, answered, lossy>>

Notify(message) == down' = IF subscribed THEN Append(down, message) ELSE down

(* SetData ends with the notification of all use cases.  A reply that was  *)
(* put together before overtakes it if it is sent after it.                *)
NotifyUseCases(c) ==
    /\ call[c].step = "notify"
    /\ Notify([kind |-> "useCases", list |-> useCases])
    /\ call' = [call EXCEPT ![c] =
           IF @.op = "RemoveEntity" THEN [@ EXCEPT !.step = "remove"]
                                    ELSE NoCall]
    /\ lossy' = IF reader.kind = "useCasesReply" /\ reader.list # useCases
                THEN lossy \cup {"useCases"} ELSE lossy
    /\ UNCHANGED <<style, entities, useCases, calls, reader, subscribed, up,
                   remote, answered>>

(* The entity leaves the list.                                             *)
RemoveFromList(c) ==
    /\ call[c].step = "remove"
    /\ entities' = entities \ {call[c].entity}
    /\ call' = [call EXCEPT ![c].step = "announce", ![c].early = ~answered]
    /\ UNCHANGED <<style, useCases, calls, reader, subscribed, up, down,
                   remote, answered, lossy>>

(* notifySubscribersOfEntity.  The other device is told if it subscribed   *)
(* by now; if it did not, it only knows what changed before the entities   *)
(* were read for its reply.  A reply which is sent after the announcement  *)
(* of a removal, and was put together before, brings the entity back.      *)
Announcement(it) ==
    IF style = "full"
    THEN [kind |-> "fullNotify", entities |-> entities]
    ELSE [kind |-> it.op, entity |-> it.entity]
Announce(c) ==
    LET it == call[c]
        lost == ~subscribed /\ ~it.early
        stale == reader.kind = "discoveryReply"
                 /\ ~(reader.entities \subseteq entities)
    IN /\ it.step = "announce"
       /\ Notify(Announcement(it))
       /\ call' = [call EXCEPT ![c] = NoCall]
       /\ lossy' = IF lost \/ stale THEN lossy \cup {"entities"} ELSE lossy
       /\ UNCHANGED <<style, entities, useCases, calls, reader, subscribed,
                      up, remote, answered>>

-----------------------------------------------------------------------------
(* What the announcing device's reader does with the other one's messages. *)
Received(kind) == reader = NoReply /\ up # <<>> /\ Head(up).kind = kind

(* processReadDetailedDiscoveryData: the entities are read, and sent later.*)
ReadDiscovery ==
    /\ Received("readDiscovery")
    /\ up' = Tail(up)
    /\ reader' = [kind |-> "discoveryReply", entities |-> entities]
    /\ answered' = TRUE
    /\ UNCHANGED <<style, local, subscribed, down, remote, lossy>>

(* processReadUseCaseData.                                                 *)
ReadUseCases ==
    /\ Received("readUseCases")
    /\ up' = Tail(up)
    /\ reader' = [kind |-> "useCasesReply", list |-> useCases]
    /\ UNCHANGED <<style, local, subscribed, down, remote, answered, lossy>>

SendReply ==
    /\ reader # NoReply
    /\ down' = Append(down, reader)
    /\ reader' = NoReply
    /\ UNCHANGED <<style, local, subscribed, up, remote, answered, lossy>>

(* handleMsgSubscriptionRequestCall; a second subscription is refused.     *)
AddSubscription ==
    /\ Received("subscribe")
    /\ up' = Tail(up)
    /\ subscribed' = TRUE
    /\ UNCHANGED <<style, local, reader, down, remote, answered, lossy>>

-----------------------------------------------------------------------------
(* Faulty: every read is sent.                                             *)
RequestAlways(cache, kind) ==
    <<[kind |-> IF kind = "discovery" THEN "readDiscovery"
                                      ELSE "readUseCases"]>>

(* The discovering device.  Sender.Request sends no read twice that waits  *)
(* for its answer.                                                         *)
Requests(cache, kind) == IF kind \in cache THEN <<>>
    ELSE <<[kind |-> IF kind = "discovery" THEN "readDiscovery"
                                           ELSE "readUseCases"]>>

(* RequestRemoteDetailedDiscoveryData, called by the application.          *)
RequestDiscovery ==
    /\ reads < MaxReads
    /\ reads' = reads + 1
    /\ up' = up \o Requests(asked, "discovery")
    /\ asked' = asked \cup {"discovery"}
    /\ UNCHANGED <<style, local, reader, subscribed, down, known,
                   knownUseCases, answered, lossy>>

(* Faulty: the use cases are asked for before the subscription.            *)
ReadBeforeSubscription(cache) ==
    Requests(cache, "useCases") \o <<[kind |-> "subscribe"]>>

(* DeviceLocal.HandleEvent for the event that a device was added, which    *)
(* is published for each discovery reply.                                  *)
HandleEvent(cache) ==
    <<[kind |-> "subscribe"]>> \o Requests(cache, "useCases")

(* AddEntityAndFeatures: what is known already gets its features anew.     *)
AddEntityAndFeatures(old, added, featured) ==
    Over([e \in added |-> e \in featured], old)

(* processReplyDetailedDiscoveryData.  No entity is removed.  With the     *)
(* features of entity 0 the use case data is gone.                         *)
DiscoveryReply(m) ==
    LET cache == asked \ {"discovery"}
    IN /\ known' = AddEntityAndFeatures(known, m.entities, m.entities)
       /\ knownUseCases' = {}
       /\ up' = up \o HandleEvent(cache)
       /\ asked' = cache \cup {"useCases"}
       /\ UNCHANGED lossy

(* Faulty: the known entities are looked up among the added ones.          *)
DiffAgainstAdded(m) ==
    LET added == m.entities \ DOMAIN known
    IN [added |-> added, removed |-> DOMAIN known \ added]

(* provideDetailedDiscoveryDiffForFullNotify.                              *)
FullNotifyDiff(m) == [added |-> m.entities \ DOMAIN known,
                      removed |-> DOMAIN known \ m.entities]

(* processNotifyDetailedDiscoveryData with full data.  For an entity that  *)
(* was removed all entities of the difference go, those that were just     *)
(* added included.  Without a difference it is an error, and ProcessCmd    *)
(* reads the data.                                                         *)
FullNotify(m) ==
    LET diff == FullNotifyDiff(m)
        all == diff.added \cup diff.removed
        full == AddEntityAndFeatures(known, all, diff.added)
        mixed == diff.added # {} /\ diff.removed # {}
    IN /\ known' = CASE diff.removed # {} -> Without(full, all)
                     [] diff.removed = {} -> full
       /\ up' = IF all = {} THEN up \o Requests(asked, "discovery") ELSE up
       /\ asked' = IF all = {} THEN asked \cup {"discovery"} ELSE asked
       /\ lossy' = IF mixed THEN lossy \cup {"entities"} ELSE lossy
       /\ UNCHANGED knownUseCases

(* The same with the one entity that was added or removed.                 *)
PartialNotify(m) ==
    /\ known' = IF m.kind = "AddEntity"
                THEN AddEntityAndFeatures(known, {m.entity}, {m.entity})
                ELSE Without(known, {m.entity})
    /\ UNCHANGED <<up, asked, knownUseCases, lossy>>

(* processReplyUseCaseData, for replies and notifications.                 *)
UseCaseData(m) ==
    /\ knownUseCases' = m.list
    /\ asked' = IF m.kind = "useCasesReply" THEN asked \ {"useCases"}
                                            ELSE asked
    /\ UNCHANGED <<up, known, lossy>>

(* NodeManagement.HandleMessage of the discovering device.                 *)
HandleMessage ==
    LET m == Head(down)
    IN /\ down # <<>>
       /\ down' = Tail(down)
       /\ \/ m.kind = "discoveryReply" /\ DiscoveryReply(m)
          \/ m.kind = "fullNotify" /\ FullNotify(m)
          \/ m.kind \in {"AddEntity", "RemoveEntity"} /\ PartialNotify(m)
          \/ m.kind \in {"useCasesReply", "useCases"} /\ UseCaseData(m)
       /\ UNCHANGED <<style, local, reader, subscribed, reads, answered>>

-----------------------------------------------------------------------------
CallStep(c) ==
    \/ \E e \in Entities : AddEntity(c, e)
    \/ \E e \in Entities : RemoveEntity(c, e)
    \/ \E e \in Entities : CopyUseCases(c, "AddUseCaseSupport", e, TRUE)
    \/ \E e \in Entities : CopyUseCases(c, "RemoveUseCaseSupport", e, FALSE)
    \/ \E e \in Entities : CopyUseCases(c, "SetUseCaseAvailability", e, FALSE)
    \/ SetUseCases(c) \/ NotifyUseCases(c)
    \/ RemoveFromList(c) \/ Announce(c)

Next ==
    \/ \E c \in Callers : CallStep(c)
    \/ ReadDiscovery \/ ReadUseCases \/ SendReply \/ AddSubscription
    \/ RequestDiscovery
    \/ HandleMessage

Spec == Init /\ [][Next]_vars

-----------------------------------------------------------------------------
(* Every entity and use case is one that was used, and a device that waits *)
(* for an answer does not send its read again: at most one read of each    *)
(* kind is on its way or being answered.                                   *)
UnderWay(read, reply) ==
    Cardinality({i \in 1..Len(up) : up[i].kind = read}) +
    Cardinality({i \in 1..Len(down) : down[i].kind = reply}) +
    IF reader.kind = reply THEN 1 ELSE 0
NodeTypeOK ==
    /\ style \in Styles
    /\ entities \subseteq Entities
    /\ \A lists \in {useCases, knownUseCases} :
          lists \subseteq UseCaseLists /\ Cardinality(lists) <= 1
    /\ DOMAIN known \subseteq Entities
    /\ subscribed \in BOOLEAN /\ answered \in BOOLEAN
    /\ calls \in 0..MaxCalls /\ reads \in 0..MaxReads
    /\ UnderWay("readDiscovery", "discoveryReply") <= 1
    /\ UnderWay("readUseCases", "useCasesReply") <= 1
    /\ lossy \subseteq {"entities", "useCases"}

Quiet == /\ \A c \in Callers : call[c] = NoCall
         /\ reader = NoReply /\ up = <<>> /\ down = <<>>

(* When nothing is under way any more, the entities that are known of the  *)
(* other device are those it has, and each has its features, unless        *)
(* "entities" is lossy: calls for one entity overlapped, one was announced *)
(* between the first answer and the subscription, an answer was sent after *)
(* the news of a removal it did not contain, or a full notification        *)
(* mixed additions and removals.                                           *)
EntitiesFollow ==
    Quiet /\ "entities" \notin lossy
    => /\ DOMAIN known = entities
       /\ \A e \in entities : known[e]

(* The same of the use cases; here no change is lost before the            *)
(* subscription, for HandleEvent subscribes before it asks for them.       *)
UseCasesFollow ==
    Quiet /\ "useCases" \notin lossy => OnlyOf(knownUseCases) = OnlyOf(useCases)

(* At any time each use case that is known is one of a known entity:       *)
(* RemoveEntity takes back the use cases before the entity.                *)
UseCasesHaveEntity ==
    lossy = {} => DOMAIN OnlyOf(knownUseCases) \subseteq DOMAIN known
=============================================================================
