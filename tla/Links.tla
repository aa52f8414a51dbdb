------------------------------- MODULE Links -------------------------------
(***************************************************************************)
(* The subscriptions and bindings that remote devices hold on the local    *)
(* server features (spine/subscription_manager.go, binding_manager.go),    *)
(* while remote entities come and go (nodemanagement_detaileddiscovery.go) *)
(* and remote devices connect and are removed (device_local.go).           *)
(*                                                                         *)
(* Actors: one SHIP reader per connection and the connection life cycle,   *)
(* which remoteLifecycleMux serialises.  Each manager's mutex makes one of *)
(* its critical sections one step.  A remote entity has one client feature *)
(* here, and a peer names its own device in its requests.                  *)
(***************************************************************************)
EXTENDS Integers, FiniteSets

CONSTANTS
    Devices,        \* remote devices, each with its own SKI and address
    Entities,       \* entity addresses, which different devices share
    Servers,        \* local server features
    MaxGeneration,  \* bound of the exploration: connections of one device
    NoEntity, NoServer, NoConnection

ASSUME GenerationAssumption == MaxGeneration \in Nat \ {0}
ASSUME NamesAssumption == /\ NoEntity \notin Entities
                          /\ NoServer \notin Servers

Connections == [device : Devices, generation : 1..MaxGeneration]
ASSUME ConnectionAssumption == NoConnection \notin Connections

(* An entry refers to the client feature object of its connection; two     *)
(* connections of a device have equal addresses and different objects.     *)
Entries == [connection : Connections, entity : Entities, server : Servers]

VARIABLES
    status,               \* connection -> new, open, closed (its Sender) or gone
    entities,             \* connection -> entities of the remote device object
    reader,               \* connection -> what its reader is at
    lifecycle,            \* the removal under way
    subscriptionEntries,
    bindingEntries,
    overlapped            \* connections removed while their reader was busy (history)

links == <<subscriptionEntries, bindingEntries>>
vars == <<status, entities, reader, lifecycle, links, overlapped>>

Tasks == {"idle", "addSubscription", "removeSubscription", "addBinding",
          "removeBinding", "dropSubscriptions", "dropBindings", "addEntity"}
ReaderStates == [task : Tasks, entity : Entities \cup {NoEntity},
                 server : Servers \cup {NoServer}]
IdleReader == [task |-> "idle", entity |-> NoEntity, server |-> NoServer]
LifecycleStates == [pc : {"idle", "listSubscriptions", "dropSubscriptions",
                          "listBindings", "dropBindings"},
                    connection : Connections \cup {NoConnection},
                    todo : SUBSET Entities]
IdleLifecycle == [pc |-> "idle", connection |-> NoConnection, todo |-> {}]

TypeOK == /\ status \in [Connections -> {"new", "open", "closed", "gone"}]
          /\ entities \in [Connections -> SUBSET Entities]
          /\ reader \in [Connections -> ReaderStates]
          /\ lifecycle \in LifecycleStates
          /\ subscriptionEntries \subseteq Entries
          /\ bindingEntries \subseteq Entries
          /\ overlapped \subseteq Connections

Init == /\ status = [c \in Connections |-> "new"]
        /\ entities = [c \in Connections |-> {}]
        /\ reader = [c \in Connections |-> IdleReader]
        /\ lifecycle = IdleLifecycle
        /\ subscriptionEntries = {}
        /\ bindingEntries = {}
        /\ overlapped = {}

-----------------------------------------------------------------------------
Entry(c, e, s) == [connection |-> c, entity |-> e, server |-> s]
SameAddress(en, c, e) == en.connection.device = c.device /\ en.entity = e

(* Faulty: the device is not compared.                                     *)
EntityAddressOnly(c, e) == {en \in subscriptionEntries : en.entity # e}

(* RemoveSubscriptionsForEntity keeps the subscriptions of other addresses.*)
SubscriptionsWithout(c, e) ==
    {en \in subscriptionEntries : ~SameAddress(en, c, e)}

(* RemoveBindingsForEntity compares the entity address only.               *)
BindingsWithout(c, e) == {en \in bindingEntries : en.entity # e}

(* A reader takes the next message; a closed Sender admits none.           *)
Admitted(c) == status[c] = "open" /\ reader[c].task = "idle"
Begin(c, task, e, s) ==
    reader' = [reader EXCEPT ![c] = [task |-> task, entity |-> e, server |-> s]]
At(c, task) == reader[c].task = task
Finish(c) == reader' = [reader EXCEPT ![c] = IdleReader]

(* AddEntityAndFeatures, for the discovery reply or a notify.              *)
AddEntityAndFeatures(c) ==
    \/ /\ Admitted(c)
       /\ \E e \in Entities \ entities[c] : Begin(c, "addEntity", e, NoServer)
       /\ UNCHANGED <<status, entities, lifecycle, links, overlapped>>
    \/ /\ At(c, "addEntity")
       /\ entities' = [entities EXCEPT ![c] = @ \cup {reader[c].entity}]
       /\ Finish(c)
       /\ UNCHANGED <<status, lifecycle, links, overlapped>>

(* A notify removes an entity: first from the device object.               *)
RemoveEntityByAddress(c) ==
    /\ Admitted(c)
    /\ \E e \in entities[c] :
          /\ entities' = [entities EXCEPT ![c] = @ \ {e}]
          /\ Begin(c, "dropSubscriptions", e, NoServer)
    /\ UNCHANGED <<status, lifecycle, links, overlapped>>

RemoveSubscriptionsForEntity(c) ==
    /\ At(c, "dropSubscriptions")
    /\ subscriptionEntries' = SubscriptionsWithout(c, reader[c].entity)
    /\ Begin(c, "dropBindings", reader[c].entity, NoServer)
    /\ UNCHANGED <<status, entities, lifecycle, bindingEntries, overlapped>>

RemoveBindingsForEntity(c) ==
    /\ At(c, "dropBindings")
    /\ bindingEntries' = BindingsWithout(c, reader[c].entity)
    /\ Finish(c)
    /\ UNCHANGED <<status, entities, lifecycle, subscriptionEntries, overlapped>>

(* Faulty: a client feature that is not found is not refused.              *)
AddSubscriptionUnchecked(c) ==
    \/ /\ Admitted(c)
       /\ \E e \in entities[c] \cup {NoEntity}, s \in Servers :
             Begin(c, "addSubscription", e, s)
       /\ UNCHANGED <<status, entities, lifecycle, links, overlapped>>
    \/ /\ At(c, "addSubscription")
       /\ subscriptionEntries' = subscriptionEntries
             \cup {Entry(c, reader[c].entity, reader[c].server)}
       /\ Finish(c)
       /\ UNCHANGED <<status, entities, lifecycle, bindingEntries, overlapped>>

(* AddSubscription: the features are looked up before the mutex is taken.  *)
(* An entry that is there already is refused, which the union says too.    *)
AddSubscription(c) ==
    \/ /\ Admitted(c)
       /\ \E e \in entities[c], s \in Servers : Begin(c, "addSubscription", e, s)
       /\ UNCHANGED <<status, entities, lifecycle, links, overlapped>>
    \/ /\ At(c, "addSubscription")
       /\ subscriptionEntries' = subscriptionEntries
             \cup {Entry(c, reader[c].entity, reader[c].server)}
       /\ Finish(c)
       /\ UNCHANGED <<status, entities, lifecycle, bindingEntries, overlapped>>

RemoveSubscription(c) ==
    \/ /\ Admitted(c)
       /\ \E e \in entities[c], s \in Servers : Begin(c, "removeSubscription", e, s)
       /\ UNCHANGED <<status, entities, lifecycle, links, overlapped>>
    \/ /\ At(c, "removeSubscription")
       /\ subscriptionEntries' =
             {en \in subscriptionEntries : \/ ~SameAddress(en, c, reader[c].entity)
                                           \/ en.server # reader[c].server}
       /\ Finish(c)
       /\ UNCHANGED <<status, entities, lifecycle, bindingEntries, overlapped>>

(* AddBinding: BindingsOnFeature and the lookups come before the mutex of  *)
(* the append, which checks nothing.                                       *)
AddBinding(c) ==
    \/ /\ Admitted(c)
       /\ \E e \in entities[c], s \in Servers :
             /\ \A en \in bindingEntries : en.server # s
             /\ Begin(c, "addBinding", e, s)
       /\ UNCHANGED <<status, entities, lifecycle, links, overlapped>>
    \/ /\ At(c, "addBinding")
       /\ bindingEntries' = bindingEntries
             \cup {Entry(c, reader[c].entity, reader[c].server)}
       /\ Finish(c)
       /\ UNCHANGED <<status, entities, lifecycle, subscriptionEntries, overlapped>>

(* RemoveBinding: after HasLocalFeatureRemoteBinding an entry stays only   *)
(* if both its client and its server differ from the requested ones.       *)
RemoveBinding(c) ==
    \/ /\ Admitted(c)
       /\ \E e \in entities[c], s \in Servers :
             /\ \E en \in bindingEntries : SameAddress(en, c, e) /\ en.server = s
             /\ Begin(c, "removeBinding", e, s)
       /\ UNCHANGED <<status, entities, lifecycle, links, overlapped>>
    \/ /\ At(c, "removeBinding")
       /\ bindingEntries' =
             {en \in bindingEntries : /\ ~SameAddress(en, c, reader[c].entity)
                                      /\ en.server # reader[c].server}
       /\ Finish(c)
       /\ UNCHANGED <<status, entities, lifecycle, subscriptionEntries, overlapped>>

-----------------------------------------------------------------------------
(* SetupRemoteDevice, once nothing of the SKI is left in remoteDevices.    *)
SetupRemoteDevice(c) ==
    /\ lifecycle.pc = "idle"
    /\ status[c] = "new"
    /\ \A b \in Connections : /\ b.device = c.device
                              /\ b.generation < c.generation
                              => status[b] = "gone"
    /\ status' = [status EXCEPT ![c] = "open"]
    /\ UNCHANGED <<entities, reader, lifecycle, links, overlapped>>

(* removeRemoteDevice: the Sender is closed, the reader may be at work.    *)
removeRemoteDevice(c) ==
    /\ lifecycle.pc = "idle"
    /\ status[c] = "open"
    /\ status' = [status EXCEPT ![c] = "closed"]
    /\ lifecycle' = [pc |-> "listSubscriptions", connection |-> c, todo |-> {}]
    /\ overlapped' = IF At(c, "idle") THEN overlapped ELSE overlapped \cup {c}
    /\ UNCHANGED <<entities, reader, links>>

(* RemoveSubscriptionsForDevice lists the entities, then drops the         *)
(* subscriptions of one after the other.                                   *)
RemoveSubscriptionsForDevice ==
    LET c == lifecycle.connection
    IN  \/ /\ lifecycle.pc = "listSubscriptions"
           /\ lifecycle' = [lifecycle EXCEPT !.pc = "dropSubscriptions",
                                             !.todo = entities[c]]
           /\ UNCHANGED <<status, entities, reader, links, overlapped>>
        \/ /\ lifecycle.pc = "dropSubscriptions"
           /\ \E e \in lifecycle.todo :
                 /\ subscriptionEntries' = SubscriptionsWithout(c, e)
                 /\ lifecycle' = [lifecycle EXCEPT !.todo = @ \ {e}]
           /\ UNCHANGED <<status, entities, reader, bindingEntries, overlapped>>
        \/ /\ lifecycle.pc = "dropSubscriptions"
           /\ lifecycle.todo = {}
           /\ lifecycle' = [lifecycle EXCEPT !.pc = "listBindings"]
           /\ UNCHANGED <<status, entities, reader, links, overlapped>>

(* Faulty: the bindings of the device stay.                                *)
KeepBindingsOfDevice ==
    /\ lifecycle.pc = "listBindings"
    /\ lifecycle' = IdleLifecycle
    /\ status' = [status EXCEPT ![lifecycle.connection] = "gone"]
    /\ UNCHANGED <<entities, reader, links, overlapped>>

(* RemoveBindingsForDevice does the same; the device then leaves the map.  *)
RemoveBindingsForDevice ==
    LET c == lifecycle.connection
    IN  \/ /\ lifecycle.pc = "listBindings"
           /\ lifecycle' = [lifecycle EXCEPT !.pc = "dropBindings",
                                             !.todo = entities[c]]
           /\ UNCHANGED <<status, entities, reader, links, overlapped>>
        \/ /\ lifecycle.pc = "dropBindings"
           /\ \E e \in lifecycle.todo :
                 /\ bindingEntries' = BindingsWithout(c, e)
                 /\ lifecycle' = [lifecycle EXCEPT !.todo = @ \ {e}]
           /\ UNCHANGED <<status, entities, reader, subscriptionEntries, overlapped>>
        \/ /\ lifecycle.pc = "dropBindings"
           /\ lifecycle.todo = {}
           /\ lifecycle' = IdleLifecycle
           /\ status' = [status EXCEPT ![c] = "gone"]
           /\ UNCHANGED <<entities, reader, links, overlapped>>

ReaderStep(c) == \/ AddEntityAndFeatures(c)
                 \/ RemoveEntityByAddress(c)
                 \/ RemoveSubscriptionsForEntity(c)
                 \/ RemoveBindingsForEntity(c)
                 \/ AddSubscription(c)
                 \/ RemoveSubscription(c)
                 \/ AddBinding(c)
                 \/ RemoveBinding(c)

Next == \/ \E c \in Connections : \/ ReaderStep(c)
                                  \/ SetupRemoteDevice(c)
                                  \/ removeRemoteDevice(c)
        \/ RemoveSubscriptionsForDevice
        \/ RemoveBindingsForDevice

Spec == Init /\ [][Next]_vars

-----------------------------------------------------------------------------
LinksHaveEntity ==
    /\ \A en \in subscriptionEntries : LET c == en.connection IN
          \/ en.entity \in entities[c]
          \/ At(c, "dropSubscriptions") /\ reader[c].entity = en.entity
    /\ \A en \in bindingEntries : LET c == en.connection IN
          \/ en.entity \in entities[c]
          \/ /\ At(c, "dropSubscriptions") \/ At(c, "dropBindings")
             /\ reader[c].entity = en.entity
LinksHaveDevice ==
    \A en \in subscriptionEntries \cup bindingEntries :
        status[en.connection] = "gone" => en.connection \in overlapped

(* Every subscription and binding belongs to an entity its remote device   *)
(* has, or to one whose removal is under way: removing an entity leaves no *)
(* link to it behind, whatever other devices and the life cycle do.  Nor   *)
(* does a removed device, unless its reader was inside a call when the     *)
(* removal began.                                                          *)
NothingLeftBehind == LinksHaveEntity /\ LinksHaveDevice

(* Whose reader or whose removal takes a step.                             *)
Acts(d) == \/ \E c \in Connections : c.device = d /\ reader'[c] # reader[c]
           \/ lifecycle.pc # "idle" /\ lifecycle.connection.device = d

(* A device loses a subscription only by its own request, by the removal   *)
(* of its entity or by its own removal.                                    *)
SubscriptionsSurviveOthers ==
    [][\A en \in subscriptionEntries \ subscriptionEntries' :
          Acts(en.connection.device)]_vars

(* The comments of RemoveBindingsForDevice and RemoveBindingsForEntity say *)
(* the same of bindings: those of the given device or entity go.           *)
BindingsSurviveOthers ==
    [][\A en \in bindingEntries \ bindingEntries' :
          Acts(en.connection.device)]_vars
=============================================================================
