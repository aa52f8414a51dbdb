# Verification of helianthus-spine-go

TLA+ models of the Go implementation of EEBUS SPINE in this repository, small
instances of them for TLC, and theorems proved with TLAPS. Paths are relative to
`src/`. Every definition that models code is listed in `PROJECT.json` under `map`
with the lines it stands for.

## 1. The system and its components

A process has one `DeviceLocal` with local entities and features. For each
remote device, identified by its SKI, there is one connection: a `DeviceRemote`,
the `Sender` that encodes datagrams and hands them to the SHIP writer, and a
SHIP goroutine that delivers incoming datagrams to
`DeviceRemote.HandleSpineMesssage`. Application goroutines call features,
entities and senders at any time; timers and tickers run goroutines of their own.

| Component | State | Operations | What makes it correct |
|---|---|---|---|
| **Correlated round trips** `spine/roundtrip.go`, `send.go`, `device_remote.go` | pending table, tombstones and watermark of retired keys, `closed`, shared message counter and its wrap flag, a result channel for each call | `RoundTrip`, `Close`, ordinary sends, admission / preparation / completion of incoming answers | keys are unique, an outcome is neither lost nor doubled, a response answers its own request, a call that is cancelled or closed returns, the reported disposition is evidence |
| **Request cache** `send.go` | counter → hash of a request | `Request`, processing of answers, `Close` | what suppresses a request was sent and is not answered yet; bounded |
| **Write approval** `feature_local.go` | callbacks, pending writes with timers, votes counted | incoming write, `ApproveOrDenyWrite`, timeout, clean-up | executed only when all callbacks asked approved; always answered |
| **Links** `binding_manager.go`, `subscription_manager.go`, with `device_local.go`, `device_remote.go` | subscription and binding entries, entities of remote devices, connections | add and remove a link, entities added and removed by notify, set-up and removal of devices | no link without its entity; removals take what belongs to the removed, and only that |
| **Event bus** `events.go` | list of handlers; captures, queue and worker of each | `Subscribe`, `Unsubscribe`, `Publish` | once, in order, one call at a time, core first, retirement when idle |
| **Function data** `function_data.go`, `function_data_cmd.go`, `model/update.go`, `model/collection_operations.go`, `model/commandframe_additions.go` | the list of one function, the copy a remote client has of it | replace, merge, copy to all or to selected items, delete; read, write, notify, reply | keys stay unique, guarded items keep their values, a write can be repeated, the copy follows |
| **Data model** `model/*.go` | the tags of the lists, the functions of each feature type | — | what the update of lists reads of the model |
| **Discovery, local entities, use cases** `nodemanagement_detaileddiscovery.go`, `nodemanagement_usecase.go`, `device_local.go`, `entity_local.go` | entities and use case data of a device, and what another one knows of them | add and remove an entity, add, set and remove a use case; read, reply, partial and full notify | the other device ends with what there is; no use case without its entity |
| **Heartbeat** `heartbeat_manager.go` | stop channel, counter, goroutines | set the feature, start, stop, tick | one ticker at most, stop stops it |
| **Local features' links and callbacks** `feature_local.go` | own subscriptions and bindings, callbacks by counter | `SubscribeToRemote`, `BindToRemote`, their removals, requests, `AddResponseCallback`, clean-up | the list agrees with the remote device; a callback is called once |
| **Dispatch** `device_local.go` (`ProcessCmd`), `feature_local.go` (`HandleMessage`) | none of its own | one incoming command | its branches are actions of the modules above |
| Parsers, interfaces, mocks, provenance scripts | — | — | sequential or generated; not modelled |

How they interact. The reader's call chain is `HandleSpineMesssage` → response
cache and correlation lookup → `ProcessCmd` → `HandleMessage` of a feature →
function data, write approval, node management (discovery, link calls) → event
bus; after `ProcessCmd` the reader completes the correlated round trip. The life
cycle (`SetupRemoteDevice`, `RemoveRemoteDevice`, serialised by
`remoteLifecycleMux`) closes the sender, drops links, removes the device and
cleans the caches of every local feature while a reader may still be in that
chain. `SetData` on a feature notifies the subscribers through the sender of
each. A new connection reads the discovery data of the other device; its reply
publishes an event, for which `DeviceLocal.HandleEvent`, a core handler of the
bus, subscribes to changes and reads the use cases. All senders share nothing;
the event bus is one for the process.

The hard behaviours, each listed in `PROJECT.json` under `hazards` with its line:
steps that are atomic each but not together (look, unlock, act), the hand-over of
an outcome between goroutines after an unlock, a counter shared with unlocked
code that wraps, answers that overtake the return of their request, timers that
fire while they are stopped, connections that end in the middle of a call and
come back with the same SKI and counters, comparisons of addresses that several
devices have in common, copies that are made under a lock and sent without one,
and updates that write item by item before they know whether all of it is
allowed.

## 2. Modules

| Module | Models | Runs and proofs |
|---|---|---|
| `RoundTrip` | one connection generation of a `Sender` with its readers | `roundtrip_safety`, `roundtrip_wrap`, `RoundTripProofs` |
| `RoundTripService` | abstract: what that generation promises its callers | — |
| `RoundTripRefinement` | the mapping of the first to the second | `roundtrip_service`, `RoundTripProofs` |
| `RequestCache` | the cache of unanswered requests | `request_cache`, `RequestCacheProofs` |
| `WriteApproval` | write approval of one feature | `write_approval`, `write_approval_lost`, `WriteApprovalProofs` |
| `Links` | managers, remote entities and connection life cycle | `links`, `links_others`, `LinksProofs` |
| `EventBus` | the event bus | `event_bus`, `EventBusProofs` |
| `DataModel` | the tags of all lists of the data model, the factory | — |
| `Lists` | loops over slices and maps that several modules have | — |
| `UpdateList` | the update of a list as operators over `DataModel` | — |
| `DataExchange` | one function, its server and a client; extends `UpdateList` | `function_data`, `DataExchangeProofs` |
| `Discovery` | what one device knows of the entities and use cases of another | `discovery`, `DiscoveryProofs` |
| `LocalEntity` | heartbeat, own links, callbacks and features of a local entity | `local_entity`, `LocalEntityProofs` |

`MC<Module>` gives the constants of a module their values for TLC. Operators
marked "Faulty" take part in no specification; they are the errors against which
the properties have been tried (`mutants` in `PROJECT.json`).

### RoundTrip

Each call of `RoundTrip` is an element of `Ops` with a program counter `pc`, a
request, a key, a disposition, a return value and a result channel of capacity 1
(`result`, where a send is enabled only when the channel is empty). The places
follow the code: `register` and `allocate` are the two halves of
`registerCorrelatedRoundTrip`, which are separate because ordinary sends
(`Senders`: `loadMsgNum`, `swapMsgNum`) move the counter without the mutex;
`admit`, `gate`, `write`, `finish` are the send with its two checks and the
writer gate; `wait` is the select; `failed` is `finishCorrelatedRoundTrip` by the
call itself, which either owns its outcome (`selfSend`) or must wait for the one
of somebody else (`drain`). A reader runs `admitIncomingSpineMessage`,
`prepareCorrelatedResponse`, `ProcessCmd` (one step that succeeds or fails),
`completeCorrelatedResponse`, `settle` and `deliver`; the lookup, the settlement
and the channel send are three steps because the mutex is released between them.
`Close` retires all pending keys in one step and tells the calls one by one
(`tellRetired`).

Abstractions: an answer is its counter, its address pair and a kind; the
tombstone ring is its length, the watermark decides; `retireCorrelatedKeysLocked`
takes a set of keys, as `Close` retires them in an order without consequences.
The load of the counter and the wrap flag in `getMsgCounter` are one step.

### RequestCache

`Callers` repeat `Request`: admission, lookup by content, allocation, write,
`finishSpineRequest`. A reader looks whether the counter of an answer is in the
cache and deletes it in a second step. `wire`, `returned` and `answered` are
histories. The hash is the content itself.

An answer may overtake the insertion: `Request` caches its counter after the
datagram is written (`spine/send.go:237`, `:240`), and an answer processed in
between leaves an answered request in the cache of "unanswered request messages"
(`:33`). The model has this; what is promised is therefore promised of answers
that come after their request has returned.

### WriteApproval

A write passes `handler` places new → insert → dispatch → done; its `timer` is
started before it is stored. Every callback asked gets a `vote` that runs
`ApproveOrDenyWrite` in the three critical sections of the code: look at the
pending timer (`called`), tally under `muxWriteReceived` (`tally`), settlement
(`settle`), where that mutex stays held between the last two. Both tables are
keyed by SKI and message counter as in the code, so connections of one SKI meet
in them. The tally with its map operations is one step; the data race of
`CleanWriteApprovalCaches` with it can only crash the process earlier.

The tables do not know the connection. When a peer uses a message counter again
after a reconnect, a vote for the old write counts for the new one
(`spine/feature_local.go:218`), against the note "ALL callbacks need to approve
the write" (`api/feature.go:60`). The run and the theorem have writes with
different counters.

### Links

A reader takes one request at a time and performs it in two steps: the lookups,
then the critical section of the manager. The removal of an entity and the
removal of a device drop subscriptions and bindings in steps of their own, in the
order of the code. `status` says how far a connection is. A peer names its own
device in its requests, and an entity has one client feature. The bound on
bindings of one server feature is checked in the first of the two steps, as in
the code, and the append does not repeat it.

### EventBus

Each element of `Events` is one call of `Publish`. An item of the list is a pair
of its handler and an identity, so that a handler that is removed and subscribes
again gets another object; an object nothing refers to any more may stand for a
new one, which keeps the model finite although handlers come and go for ever.
`publish` is the place of a publisher with the rest of its snapshot, `worker` the
goroutine of an item in `run`, `retiring` the number of those between the end of
the loop and `retire`. `log` and `dispatched` are histories.

### DataModel, Lists, UpdateList, DataExchange

`DataModel` has one record for each list of `model`: its keys in order, the field
that guards an item (`writecheck`), the fields selectors compare, and those the
order does not look at. All fields without such a part are one, `Rest`. Items are
functions of the fields that are set, so that a nil field is one outside the
domain. `UpdateList` follows `UpdateList`, `Merge`, `CopyNonNilDataFromItemToItem`,
`DeleteFilteredData` and `SortData` over them and says of a remote write whether
it was refused, and what it left behind. `Lists` has what such loops build from a
list: its items, the new list of those that are kept, one item's fields over
another's.

`DataExchange` puts two goroutines on the server's list, the application and the
reader, each in three steps as in the code: change under the lock, copy under
another, send. What `lossy` says is what notifications cannot carry: deletions
are not in a notification with a partial filter, with a selector the receiver
takes the first item of the whole list, and an overtaken notification is older
than its predecessor. The following is in the code and visible in the model:

- a write without any filter replaces the list whatever the guards say
  (`spine/function_data.go:59`);
- a copy to all or selected items may change the guard itself, although
  `model/update.go:186` says that items that do not allow it are left alone;
- a refused write keeps the changes it made to the items before the one it was
  refused for, and tells nobody.

Out of the model: selectors on fields that are no keys; a selector with an empty
list, which panics at `newData[0]` (the model ends there); an update by the
application with a delete and a partial filter whose conversion panics.

### Discovery

One device announces, one discovers. The first has `Callers` that add and remove
entities and use cases; the operations on use case data copy, change and set in
steps of their own (`call`), and announce in another. Its reader answers reads in
two steps: the entities are read, and the reply is sent. The second device
handles one message at a time; `asked` is the part of its request cache that
keeps it from asking twice. `style` lets the announcing device send the full list
instead of the one entity, which this code understands and never sends.

`lossy` names what the code loses, each at its step: calls for one entity that
overlap; what changes between the answer and the subscription, which
`DeviceLocal.HandleEvent` makes afterwards (`spine/device_local.go:98`); a reply
that was read before a removal and sent after its announcement, which brings the
entity back; a full notification with additions and removals, of which the
removal takes the added ones too (`nodemanagement_detaileddiscovery.go:264`).
Every discovery reply subscribes again and wipes the use case data, which is then
read again. Features that are added to an entity after `AddEntity` are announced
to nobody; here each entity has one from the beginning.

### LocalEntity

Init chooses a workload, the operations that the callers use; the workloads share
no state but the connection. `StartHeartbeat` and `StopHeartbeat` are the steps
between which the code holds no lock: the question whether a heartbeat runs, the
close of the channel, the new channel, the new goroutine. `ticker` has one entry
for each goroutine ever started; the counter is taken before the lock is, and so
a late tick of an old goroutine may set a smaller value. Two calls that overlap
may close a channel twice, which panics and ends the model (`panicked`), or leave
a goroutine that nobody can stop; the properties are about calls that do not
overlap. `StartHeartbeat` without a local feature would panic at its first tick
where `heartbeat_manager.go:81` speaks of an error, and is not called.

A call that links sends, then appends to the list; a call that unlinks sends,
then removes. The remote device answers, removes entities (`PeerRemovesEntity`),
and the connection breaks and returns. `RemoveAllRemoteSubscriptions` walks the
list that it copied (`todo`). The removal of a local entity removes its links at
remote devices and leaves the server-side subscriptions of its features in the
manager. A request takes a counter when it is sent and registers its callback in
a second step; a callback that is registered after its answer stays until a later
connection uses the counter again, which `CallbacksCalledOnce` says.


## 3. Runs

| Run | Instance | States | Shows |
|---|---|---|---|
| `roundtrip_safety` | 2 calls with any of three requests, 1 reader, 1 `Close`, five kinds of answer, 1 tombstone, counter to 2 | 1 628 102 | types, one holder of every outcome, keys pending or retired, nothing pending after `Close`, the response belongs to the request, the disposition is evidence |
| `roundtrip_wrap` | 3 calls, 1 ordinary sender, limit of 2 pending, counter wraps after 3 | 248 562 | unique keys across the wrap, limit of the pending table |
| `roundtrip_service` | 2 calls, 1 reader, 1 `Close`, with fairness | 72 174 | refinement of the service; cancelled and closed calls return |
| `request_cache` | 2 callers, 2 contents, 1 reader, limit 1, four counters | 2 520 801 | what suppresses a request was sent and is not answered since it returned; the bound; a closed cache only shrinks; an entry goes with its answer or as the oldest past the limit |
| `write_approval` | 2 writes of one connection, 2 callbacks of which one comes late, with fairness | 191 439 | all callbacks asked have approved, every write is settled |
| `write_approval_lost` | 2 writes, 2 callbacks | — | finding 1 |
| `links` | 2 devices with an equal entity address, 1 server feature, 2 connections of each | 1 603 622 | links have their entity, nothing is left behind, subscriptions survive others |
| `links_others` | the same with 1 connection of each | — | finding 2 |
| `event_bus` | 2 publishers, a core and an application handler with 2 objects each, with fairness | 16 236 | order, one call at a time, core first, busy items listed, every capture handled, retirement |
| `function_data` | 5 functions, 2 values of each key, 2 calls of the application, 1 request under way | 342 522 | unique keys and valid items, the copy converges, a write sent again settles, a remote write stays within guards and keys |
| `discovery` | 2 entities, 2 callers, 3 calls, 1 further read, partial and full announcements | 2 748 422 | entities and use cases follow, no use case without its entity |
| `local_entity` | 2 callers, 4 workloads, 2 targets, 3 calls, 2 heartbeats, 2 connections, with fairness | 323 530 | one heartbeat, which ends when stopped; links that agree with the remote device; callbacks called once |

The bounds suffice for the cases in question. Two calls are enough for any race
for one pending entry (call, reader, `Close`), and a limit of 2 with 3 calls
reaches it; three counters let a stale counter come back after a wrap while two
keys are in use. A cache limit of 1 gives a cache of two entries, so evictions
happen with four counters. Two writes are enough to disturb each other's count.
Two devices with the same entity address are the least for a removal to reach the
wrong one, and two connections for a reader that outlives its own. The order of
two events and two objects of one handler is all the event bus' properties speak
about. The five functions of `function_data` are one of each kind the code tells
apart: keyed with a guard, keyed without, keyed by several fields, and lists whose
order or copying differs; with two key values an item can be hit, missed and
added, and an update can reach one item it may change and one it may not. Two
entities let a notification name one and leave one; three calls add, remove and
add again while another goroutine is at its use case. Two callers and three calls
restart a heartbeat whose old goroutine has not ended, and two connections use a
message counter twice.

`CHECK_DEADLOCK FALSE` is set everywhere: when all calls have returned and the
counters are used up, nothing has to happen.

Fairness. `roundtrip_service`: a goroutine that is under way and can run does
(Go's scheduler and mutexes), and the SHIP writer returns; nobody has to call, to
cancel, to close or to answer. `write_approval`: while some goroutine or an armed
timer can make a step, one of them does; no callback has to vote. `event_bus`: a
publisher that has begun, a worker and a retirement go on, and `HandleEvent`
returns; nobody has to publish, subscribe or unsubscribe. `muHandle` needs weak
fairness only, as the calls of `Publish` are finitely many. `local_entity`: calls
that have begun go on, and a tick that has its number sets it; a goroutine whose
channel is closed takes that branch some time although its ticker may be ready
as often (strong fairness: `select` chooses at random among the ready cases).

## 4. Findings

1. `write_approval_lost`: the first vote for a write replaces the counts of all
   other writes of the device (`spine/feature_local.go:235`). Two overlapping
   writes approved by both callbacks may both time out.
2. `links_others`: `RemoveBindingsForEntity` does not compare the device
   (`spine/binding_manager.go:176`) and removes the bindings of other devices
   whose entity has the same address.

Section 2 mentions further behaviour of the code that the properties name as
exceptions: an answer that overtakes its request into the cache, a counter used
again by a later connection, replacement without regard to the guards, refused
writes that keep part of their changes, what notifications lose, announcements
that overlap, heartbeats that are started and stopped at once. Each exception is
a conjunct of the property or a history variable that is set where it arises
(`lossy`, `overlapped`, `raced`).

## 5. Proofs

Proved for every value of the constants that satisfies the assumptions of the
module; sets of actors, counters and limits are arbitrary.

| Module | Theorems | Property |
|---|---|---|
| `RoundTripProofs` | `TypeCorrect`, `InvCorrect`, `KeysUniqueCorrect`, `NothingPendingCorrect`, `OneHolderCorrect`, `PendingOrRetiredCorrect`, `DispositionCorrect`, `CapacityCorrect`, `ResponseCorrect`, `RefinementCorrect` | `TypeOK`, `IInv`, `KeysUnique`, `NothingPendingAfterClose`, `OneHolder`, `PendingOrRetired`, `DispositionIsEvidence`, `CapacityBound`, `ResponseMatchesRequest`, `ImplementsService` |
| `RequestCacheProofs` | `Invariance`, `TypeCorrect`, `Suppression`, `ClosedCache`, `Suppressed` | all of `request_cache` |
| `WriteApprovalProofs` | `TypeCorrect`, `ApprovalCorrect` | `TypeOK`, `ApprovedByAll` |
| `LinksProofs` | `Invariance`, `TypeCorrect`, `LinksCorrect`, `SurvivalCorrect` | all of `links` |
| `EventBusProofs` | `Invariance`, `TypeCorrect`, `OrderCorrect`, `OneCallCorrect`, `CoreFirstCorrect` | all invariants of `event_bus` |
| `DataExchangeProofs` | `DataTypesCorrect`, `WritesConfined`, `WritesSettle`, `CopyFollows` | all of `function_data` |
| `DiscoveryProofs` | `NodeTypesCorrect`, `EntitiesCorrect`, `UseCasesCorrect`, `UseCasesPlaced` | all of `discovery` |
| `LocalEntityProofs` | `TypeCorrect`, `HeartbeatCorrect`, `LinksCorrect`, `CallbacksCorrect` | all invariants of `local_entity` |

**RoundTrip.** `OneHolder` and `KeysUnique` are not inductive. `IInv` is the
conjunction of `TypeOK` and

- `MutexInv`: who holds the registration mutex is at `allocate`, and was admitted
  to a generation that is not closed;
- `KeyInv`: a key in use is below the watermark or pending under its own call, a
  pending entry is the key of its call, and unregistered calls have no key; this
  is what makes the wrap of the shared counter harmless;
- `OutcomeInv`: what readers, calls and channels carry is a real outcome;
- `HolderInv`: a case distinction of where the outcome of each call is, with the
  exclusions between the cases.

Each conjunct has a step lemma with one case for each action; `HolderStep` is long
because every action that moves an outcome takes it from one holder to exactly one
other. Further invariants are of what these leave open: `HandoffInv` (how far a call
is shows what it handed over), `RoomInv` (whoever is about to insert found room,
and nobody else can take it while the mutex is held) and `RightInv` (what a call,
a reader or a channel carries for a call is an answer to that call).

**Refinement.** `AbstractInv` says for each call what the mapping shows at each
place of the detailed call, and follows from `IInv`. Under `IInv` and `AbstractInv` every step of
`RoundTrip` is a step of `RoundTripService` or leaves its variables alone, with
one lemma for each kind of step: admission, rejection, the hand-over of an
outcome by reader, closer or call, the return. The bound on open calls of the
service follows from `RoomInv` by an injection of open calls into pending keys
(`AdmitSimulated`).

**RequestCache.** `IInv` adds to the properties where each caller is with which
counter (`CallerInv`), that a counter not given out is nowhere (`FreshInv`) and
what a reader has looked up (`ReaderInv`). Eviction takes the least counter; that
a finite set has one follows from the well-foundedness of inclusion on its initial
segments (`LeastElement`), as the induction theorems of the library take an
operator as a parameter.

**WriteApproval.** `AskedInv` says which votes exist, `CountInv` that the count
under a key is at most the number of votes counted for it, and `UnanimousInv`
that a vote which goes on to settle is the last of all asked. The heart is a
counting lemma (`LastApproval`): a count one below the number of callbacks, with
one more vote, is all of them. It needs two assumptions beyond the module's: that
there is a callback, and that no SKI uses a message counter twice
(`DistinctKeys`), without which the theorem is false (section 2).

**Links.** `IInv` is `TypeOK`, where each reader is with what it looked up
(`ReaderInv`), which device is under removal (`LifecycleInv`), that links have their
entity (`LinksHaveEntity`), and what a removal under way has taken already
(`RemovalInv`).

**EventBus.** `CaptureInv` is the equation that a test cannot see: the captures of
an item are the publishers on their way that hold it. From it and `WorkerInv`
follows that an item is listed while anyone holds or runs it (`BusyItemsListed`),
and so that a handler which returns gets its old object and no second call.
`StreamInv` gives each event one place of a handler (log, worker, queue, or a
publisher's rest) in order of dispatch; `CoreInv` has the core first; `RetireInv`
bounds the retirements by the calls.

**Function data.** The assumption about `Schemas` speaks of a table that is
written out in `DataModel`, so that TLC's evaluation of it is a complete check,
and `FunctionsAssumption` leaves out the lists whose items have no key. Values and the
numbers of calls are arbitrary. The proof has three layers.

- *Operators.* `SortData` puts every item at its rank; the ranks of a strict
  total order are a permutation (`RankGrows`, `RanksOnto`), so that sorting keeps
  the items and their keys apart. `KeptPlaces` says of a loop that keeps some items at
  which place each one ends, `MergeResult` of a merge which items its list has.
- *Commands.* `Effect` lists the eight things an update can do, by its kind and
  outcome; `EffectOf` shows that it does one of them. Types and unique keys, the
  bounds of a remote write (`WritesConfined`) and that the same write again
  changes nothing (`EffectSettles`, `WritesSettle`) are one case each. These are
  true of any interleaving of the two goroutines.
- *Messages.* `CopyFollows` needs to know what is on the way. `CallInv`: a call
  that is alone has no other beside it, and the message it has copied carries the
  data as they are unless another call came between. `ChainInv`: from a base,
  which is the copy or a complete message, over the partial messages after it
  each list is below the later ones and the server's, that is, every item of the
  lower one is in the upper one with at least the fields it has there and the
  keys it has; the last one has the server's items. A partial message merged into
  a list below its own gives its items (`MergeConverges`), so that the client
  arrives where the chain ends. Deletions break the order and are what `lossy` is
  about.

**Discovery.** The copy is behind by what is in the queue, and the invariants
speak of what it will be: `Will` whether an entity is known once all messages on
their way are handled, `Word` which use case list is the last one said. `ReadInv`
has at most one read of a kind under way, in a queue, with the reader, or
answered; `StartInv` what cannot have happened before the first reply and before
the subscription. `EntInv`: while calls for an entity do not overlap, it will be
known if it exists, unless its announcement is still to come. `UseInv` and
`ComingInv` say the same of use cases, where an answer that wipes them is followed
by one that has them. For `UseCasesHaveEntity` it is not enough that each list is
right when it was made: `HaveInv` adds that a removal in the queue has a message
before it that takes the use cases of its entity away (`Ordered`), which is the
order in which `DeviceLocal.RemoveEntity` works.

**LocalEntity.** `BeatInv` speaks of calls that do not overlap: at most one caller
is at the manager, the only open channel is the manager's, at most one goroutine
listens to an open channel, and each place of a call knows whether there is one.
`AnswerInv`: a request that is registered and not called is in the table, under
its counter, and a call without an answer of its own is of an earlier connection.
`LinkInv`: as long as link calls do not overlap, the remote device will have a
link, after the messages to it, exactly if the local list has it or is about to;
the exceptions are links it refuses and removals it has announced. `FeatureInv` bounds the
features by the callers, as whoever is about to create one has found none, and
`CountInv` the heartbeat counters by the ticks and calls. They are what `TypeOK`
needs; the callers are a finite set, as the goroutines of a process are.

Only model-checked: liveness (the prover cannot handle ENABLED), namely
`CancelledCallReturns`, `ClosedCallsReturn`, `EveryWriteSettled`,
`EveryCaptureHandled`, `UnsubscribedLeaves`, `StoppedHeartbeatEnds`.

The induction theorems of the library take an operator as a parameter. Where a
proof needs induction over positions or counts it has it in the form of sets: a
set that has 0 and with each number the next one has all (`SetInduction`), which
follows from the library's theorem that every set of numbers has a least
element. The recursive functions of the model are opened in this way, one lemma for
each; that is why the model keeps items with `KeptOf`, a recursive function, where
TLA+ has `SelectSeq`.

## 6. Plan

Done: all modules of section 2, the runs of section 3, the theorems of section 5.
What would come next:

1. the one-binding rule of a server feature, which two readers break between the
   check and the append (`spine/binding_manager.go:50`); `Links` has the two steps;
2. several features for each entity, in `Discovery` and in `Links`;
3. result callbacks and equal requests in `LocalEntity`; `SetWriteApprovalTimeout`.

## 7. Not modelled

- The scan for unknown fields (`spine/correlated_unknown_fields.go`): sequential
  parsing within a budget; `RoundTrip` takes its result as given.
- The conversions of times, durations, numbers and addresses in `model`, and the
  fields of the data model apart from those an update looks at: data without
  control.
- Errors for addresses and functions that do not exist, descriptions, operations
  and other fields with a getter and a setter.
- The LRU cache of sent notifications (a library), and SHIP itself: a writer that
  returns or fails, a reader that delivers one message at a time.
- Interfaces, mocks, tests, and the scripts that check provenance.
- Crashes of the process: nothing is persisted, so a restart is a new connection.
