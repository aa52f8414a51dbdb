---------------------------- MODULE LinksProofs ----------------------------
(***************************************************************************)
(* Theorems about Links for any devices, entities and servers and any      *)
(* number of connections.                                                  *)
(***************************************************************************)
EXTENDS Links, TLAPS

(* A reader that adds or removes a link works on an entity of its device:  *)
(* only the same reader takes entities away.                               *)
ReaderInv ==
    \A c \in Connections :
        /\ reader[c].task \notin {"idle"} => reader[c].entity \in Entities
        /\ reader[c].task \in {"addSubscription", "addBinding", "removeSubscription",
                               "removeBinding"} => /\ reader[c].entity \in entities[c]
                                                   /\ reader[c].server \in Servers

(* The device under removal is the one whose Sender is closed and which is *)
(* not gone.  A reader that was idle at that moment stays idle.            *)
Clean(c) == c \notin overlapped
LifecycleInv ==
    /\ lifecycle.pc # "idle" =>
          /\ lifecycle.connection \in Connections
          /\ status[lifecycle.connection] = "closed"
    /\ \A c \in Connections :
          /\ status[c] = "closed" => lifecycle.pc # "idle" /\ lifecycle.connection = c
          /\ status[c] \in {"closed", "gone"} /\ Clean(c) => At(c, "idle")

(* How far the removal has come.                                           *)
SubscriptionsIn(c, S) ==
    \A en \in subscriptionEntries : en.connection = c => en.entity \in S
BindingsIn(c, S) ==
    \A en \in bindingEntries : en.connection = c => en.entity \in S
RemovalInv ==
    /\ \A c \in Connections : status[c] = "closed" /\ Clean(c) =>
          /\ lifecycle.pc = "dropSubscriptions" => SubscriptionsIn(c, lifecycle.todo)
          /\ lifecycle.pc \in {"listBindings", "dropBindings"} => SubscriptionsIn(c, {})
          /\ lifecycle.pc = "dropBindings" => BindingsIn(c, lifecycle.todo)
    /\ \A c \in Connections : status[c] = "gone" /\ Clean(c) =>
          SubscriptionsIn(c, {}) /\ BindingsIn(c, {})

IInv == TypeOK /\ ReaderInv /\ LifecycleInv /\ LinksHaveEntity /\ RemovalInv

USE DEF links

-----------------------------------------------------------------------------
LEMMA IdleTypes ==
    /\ IdleReader \in ReaderStates
    /\ IdleLifecycle \in LifecycleStates
BY DEF IdleReader, ReaderStates, Tasks, IdleLifecycle, LifecycleStates

LEMMA InitInvariant == Init => IInv
<1> SUFFICES ASSUME Init
             PROVE  IInv
  OBVIOUS
<1>1. TypeOK
  BY IdleTypes DEF Init, TypeOK
<1>2. ReaderInv
  BY DEF Init, ReaderInv, IdleReader
<1>3. LifecycleInv
  BY DEF Init, LifecycleInv, IdleLifecycle
<1>4. LinksHaveEntity /\ RemovalInv
  BY DEF Init, LinksHaveEntity, RemovalInv
<1> QED
  BY <1>1, <1>2, <1>3, <1>4 DEF IInv

(* A reader takes its next place.                                          *)
LEMMA BeginAt ==
    ASSUME TypeOK, NEW c \in Connections, NEW task \in Tasks,
           NEW e \in Entities \cup {NoEntity}, NEW s \in Servers \cup {NoServer},
           Begin(c, task, e, s)
    PROVE  /\ reader' \in [Connections -> ReaderStates]
           /\ reader'[c] = [task |-> task, entity |-> e, server |-> s]
           /\ reader'[c].task = task /\ reader'[c].entity = e /\ reader'[c].server = s
           /\ \A d \in Connections \ {c} : reader'[d] = reader[d]
<1> DEFINE x == [task |-> task, entity |-> e, server |-> s]
<1>1. x \in ReaderStates /\ x.task = task /\ x.entity = e /\ x.server = s
  BY DEF ReaderStates
<1>2. reader' = [reader EXCEPT ![c] = x] /\ reader \in [Connections -> ReaderStates]
  BY DEF Begin, TypeOK
<1> HIDE DEF x
<1>3. reader' \in [Connections -> ReaderStates] /\ reader'[c] = x
      /\ \A d \in Connections \ {c} : reader'[d] = reader[d]
  BY <1>1, <1>2
<1> QED
  BY <1>1, <1>3 DEF x

LEMMA FinishAt ==
    ASSUME TypeOK, NEW c \in Connections, Finish(c)
    PROVE  /\ reader' \in [Connections -> ReaderStates]
           /\ reader'[c].task = "idle"
           /\ \A d \in Connections \ {c} : reader'[d] = reader[d]
<1>1. reader \in [Connections -> ReaderStates] /\ IdleReader.task = "idle"
  BY DEF TypeOK, IdleReader
<1>2. reader' = [reader EXCEPT ![c] = IdleReader]
  BY DEF Finish
<1>3. reader'[c] = IdleReader /\ \A d \in Connections \ {c} : reader'[d] = reader[d]
  BY <1>1, <1>2
<1> QED
  BY <1>1, <1>2, <1>3, IdleTypes

(* What every step of a reader has in common: it concerns one reader that  *)
(* is admitted or busy, keeps the life cycle, and adds links only to an    *)
(* entity that its device has.                                             *)
Frame(c) ==
    /\ reader' \in [Connections -> ReaderStates]
    /\ \A d \in Connections \ {c} : reader'[d] = reader[d] /\ entities'[d] = entities[d]
    /\ status[c] = "open" \/ reader[c].task # "idle"
    /\ UNCHANGED <<status, lifecycle, overlapped>>

LEMMA FrameKeeps ==
    ASSUME IInv, NEW c \in Connections, Frame(c),
           subscriptionEntries' \subseteq Entries, bindingEntries' \subseteq Entries,
           entities' \in [Connections -> SUBSET Entities],
           \A en \in subscriptionEntries' \ subscriptionEntries : en.connection = c,
           \A en \in bindingEntries' \ bindingEntries : en.connection = c
    PROVE  TypeOK' /\ LifecycleInv' /\ RemovalInv'
<1>1. TypeOK'
  BY DEF IInv, TypeOK, Frame
<1>2. status[c] \in {"closed", "gone"} => ~Clean(c)
  BY DEF IInv, LifecycleInv, Frame, At
<1>3. LifecycleInv'
  <2>1. \A d \in Connections : status[d] \in {"closed", "gone"} /\ Clean(d)
           => reader'[d] = reader[d]
    BY <1>2 DEF Frame
  <2> QED
    BY <2>1 DEF IInv, LifecycleInv, Frame, At, Clean
<1>4. \A d \in Connections, S \in SUBSET Entities :
         d # c => /\ SubscriptionsIn(d, S) => SubscriptionsIn(d, S)'
                  /\ BindingsIn(d, S) => BindingsIn(d, S)'
  BY DEF SubscriptionsIn, BindingsIn
<1>5. lifecycle.todo \in SUBSET Entities
  BY DEF IInv, TypeOK, LifecycleStates
<1>6. RemovalInv'
  BY <1>2, <1>4, <1>5 DEF IInv, RemovalInv, Frame, Clean
<1> QED
  BY <1>1, <1>3, <1>6

(* The links of other devices keep their entities.                         *)
Attached(c, en) ==
    \/ en.entity \in entities[c]
    \/ At(c, "dropSubscriptions") /\ reader[c].entity = en.entity
AttachedBinding(c, en) ==
    \/ en.entity \in entities[c]
    \/ /\ At(c, "dropSubscriptions") \/ At(c, "dropBindings")
       /\ reader[c].entity = en.entity

LEMMA AttachedDef ==
    LinksHaveEntity <=> /\ \A en \in subscriptionEntries : Attached(en.connection, en)
                        /\ \A en \in bindingEntries : AttachedBinding(en.connection, en)
BY DEF LinksHaveEntity, Attached, AttachedBinding

LEMMA FrameAttached ==
    ASSUME IInv, NEW c \in Connections, Frame(c),
           subscriptionEntries' \subseteq Entries, bindingEntries' \subseteq Entries,
           \A en \in subscriptionEntries' \ subscriptionEntries : en.connection = c,
           \A en \in bindingEntries' \ bindingEntries : en.connection = c,
           \A en \in subscriptionEntries' : en.connection = c => Attached(c, en)',
           \A en \in bindingEntries' : en.connection = c => AttachedBinding(c, en)'
    PROVE  LinksHaveEntity'
<1>1. ASSUME NEW en \in subscriptionEntries', en.connection # c
      PROVE  Attached(en.connection, en)'
  <2>1. en \in subscriptionEntries /\ en.connection \in Connections
    BY <1>1 DEF Entries
  <2>2. Attached(en.connection, en)
    BY <2>1, AttachedDef DEF IInv
  <2> QED
    BY <1>1, <2>1, <2>2 DEF Attached, At, Frame
<1>2. ASSUME NEW en \in bindingEntries', en.connection # c
      PROVE  AttachedBinding(en.connection, en)'
  <2>1. en \in bindingEntries /\ en.connection \in Connections
    BY <1>2 DEF Entries
  <2>2. AttachedBinding(en.connection, en)
    BY <2>1, AttachedDef DEF IInv
  <2> QED
    BY <1>2, <2>1, <2>2 DEF AttachedBinding, At, Frame
<1>3. /\ \A en \in subscriptionEntries' : Attached(en.connection, en)'
      /\ \A en \in bindingEntries' : AttachedBinding(en.connection, en)'
  BY <1>1, <1>2
<1> QED
  BY <1>3 DEF LinksHaveEntity, Attached, AttachedBinding, At

-----------------------------------------------------------------------------
(* The part of a step of a reader that a proof of each action adds: what   *)
(* becomes of the links of its own connection and of its place.            *)
LEMMA ReaderStepKeeps ==
    ASSUME IInv, NEW c \in Connections, Frame(c),
           subscriptionEntries' \subseteq Entries, bindingEntries' \subseteq Entries,
           entities' \in [Connections -> SUBSET Entities],
           \A en \in subscriptionEntries' \ subscriptionEntries : en.connection = c,
           \A en \in bindingEntries' \ bindingEntries : en.connection = c,
           \A en \in subscriptionEntries' : en.connection = c => Attached(c, en)',
           \A en \in bindingEntries' : en.connection = c => AttachedBinding(c, en)',
           reader'[c].task # "idle" => reader'[c].entity \in Entities,
           reader'[c].task \in {"addSubscription", "addBinding", "removeSubscription",
                                "removeBinding"} => /\ reader'[c].entity \in entities'[c]
                                                    /\ reader'[c].server \in Servers
    PROVE  IInv'
<1>1. ReaderInv'
  BY DEF IInv, ReaderInv, Frame
<1> QED
  BY <1>1, FrameKeeps, FrameAttached DEF IInv

(* The links that a reader's connection has before a step.                 *)
LEMMA OwnLinks ==
    ASSUME IInv, NEW c \in Connections
    PROVE  /\ reader[c] \in ReaderStates
           /\ entities \in [Connections -> SUBSET Entities]
           /\ subscriptionEntries \subseteq Entries /\ bindingEntries \subseteq Entries
           /\ \A en \in subscriptionEntries : en.connection = c => Attached(c, en)
           /\ \A en \in bindingEntries : en.connection = c => AttachedBinding(c, en)
BY AttachedDef DEF IInv, TypeOK

(* A reader takes up a task and changes nothing else.                      *)
LEMMA TakesUp ==
    ASSUME IInv, NEW c \in Connections, Admitted(c),
           NEW task \in Tasks \ {"idle"}, NEW e \in Entities,
           NEW s \in Servers \cup {NoServer}, Begin(c, task, e, s),
           task # "addEntity" => s \in Servers /\ e \in entities[c],
           UNCHANGED <<status, entities, lifecycle, links, overlapped>>
    PROVE  IInv'
<1>1. /\ reader' \in [Connections -> ReaderStates]
      /\ reader'[c].task = task /\ reader'[c].entity = e /\ reader'[c].server = s
      /\ \A d \in Connections \ {c} : reader'[d] = reader[d]
  BY BeginAt DEF IInv
<1>2. Frame(c)
  BY <1>1 DEF Frame, Admitted
<1>3. /\ \A en \in subscriptionEntries : en.connection = c => Attached(c, en)'
      /\ \A en \in bindingEntries : en.connection = c => AttachedBinding(c, en)'
  BY OwnLinks DEF Attached, AttachedBinding, At, Admitted
<1> QED
  BY <1>1, <1>2, <1>3, OwnLinks, ReaderStepKeeps

(* A busy reader finishes its task; its entities stay or grow.             *)
LEMMA Finishes ==
    ASSUME IInv, NEW c \in Connections, ~At(c, "idle"), Finish(c),
           UNCHANGED <<status, lifecycle, overlapped>>,
           entities' \in [Connections -> SUBSET Entities],
           \A d \in Connections \ {c} : entities'[d] = entities[d],
           subscriptionEntries' \subseteq Entries, bindingEntries' \subseteq Entries,
           \A en \in subscriptionEntries' \ subscriptionEntries : en.connection = c,
           \A en \in bindingEntries' \ bindingEntries : en.connection = c,
           \A en \in subscriptionEntries' \cup bindingEntries' :
              en.connection = c => en.entity \in entities'[c]
    PROVE  IInv'
<1>1. /\ reader' \in [Connections -> ReaderStates]
      /\ reader'[c].task = "idle"
      /\ \A d \in Connections \ {c} : reader'[d] = reader[d]
  BY FinishAt DEF IInv
<1>2. Frame(c)
  BY <1>1 DEF Frame, At
<1>3. /\ \A en \in subscriptionEntries' : en.connection = c => Attached(c, en)'
      /\ \A en \in bindingEntries' : en.connection = c => AttachedBinding(c, en)'
  BY DEF Attached, AttachedBinding
<1> QED
  BY <1>1, <1>2, <1>3, ReaderStepKeeps

(* While a reader is at a task other than a removal, its links have their  *)
(* entities.                                                               *)
LEMMA LinksAtTask ==
    ASSUME IInv, NEW c \in Connections,
           ~At(c, "dropSubscriptions"), ~At(c, "dropBindings")
    PROVE  \A en \in subscriptionEntries \cup bindingEntries :
              en.connection = c => en.entity \in entities[c]
BY OwnLinks DEF Attached, AttachedBinding

LEMMA EntryType ==
    ASSUME NEW c \in Connections, NEW e \in Entities, NEW s \in Servers
    PROVE  /\ Entry(c, e, s) \in Entries
           /\ Entry(c, e, s).connection = c /\ Entry(c, e, s).entity = e
BY DEF Entry, Entries

LEMMA AddEntityStep ==
    ASSUME IInv, NEW c \in Connections, AddEntityAndFeatures(c)
    PROVE  IInv'
<1>1. CASE /\ Admitted(c)
           /\ \E e \in Entities \ entities[c] : Begin(c, "addEntity", e, NoServer)
           /\ UNCHANGED <<status, entities, lifecycle, links, overlapped>>
  <2>1. PICK e \in Entities : Begin(c, "addEntity", e, NoServer)
    BY <1>1
  <2>2. "addEntity" \in Tasks \ {"idle"}
    BY DEF Tasks
  <2> QED
    BY <1>1, <2>1, <2>2, TakesUp
<1>2. CASE /\ At(c, "addEntity")
           /\ entities' = [entities EXCEPT ![c] = @ \cup {reader[c].entity}]
           /\ Finish(c)
           /\ UNCHANGED <<status, lifecycle, links, overlapped>>
  <2>1. reader[c].entity \in Entities
    BY <1>2 DEF IInv, ReaderInv, At
  <2>2. /\ entities' \in [Connections -> SUBSET Entities]
        /\ entities'[c] = entities[c] \cup {reader[c].entity}
        /\ \A d \in Connections \ {c} : entities'[d] = entities[d]
    BY <1>2, <2>1, OwnLinks
  <2>3. ~At(c, "dropSubscriptions") /\ ~At(c, "dropBindings") /\ ~At(c, "idle")
    BY <1>2 DEF At
  <2> QED
    BY <1>2, <2>2, <2>3, OwnLinks, LinksAtTask, Finishes
<1> QED
  BY <1>1, <1>2 DEF AddEntityAndFeatures

LEMMA RemoveEntityStep ==
    ASSUME IInv, NEW c \in Connections, RemoveEntityByAddress(c)
    PROVE  IInv'
<1>1. PICK e \in entities[c] :
         /\ entities' = [entities EXCEPT ![c] = @ \ {e}]
         /\ Begin(c, "dropSubscriptions", e, NoServer)
  BY DEF RemoveEntityByAddress
<1>2. e \in Entities /\ "dropSubscriptions" \in Tasks
  BY OwnLinks DEF Tasks
<1>3. /\ entities' \in [Connections -> SUBSET Entities]
      /\ entities'[c] = entities[c] \ {e}
      /\ \A d \in Connections \ {c} : entities'[d] = entities[d]
  BY <1>1, OwnLinks
<1>4. /\ reader' \in [Connections -> ReaderStates]
      /\ reader'[c].task = "dropSubscriptions" /\ reader'[c].entity = e
      /\ \A d \in Connections \ {c} : reader'[d] = reader[d]
  <2>1. TypeOK /\ Begin(c, "dropSubscriptions", e, NoServer)
    BY <1>1 DEF IInv
  <2>2. e \in Entities \cup {NoEntity} /\ NoServer \in Servers \cup {NoServer}
    BY <1>2
  <2>3. /\ reader' \in [Connections -> ReaderStates]
        /\ reader'[c].task = "dropSubscriptions" /\ reader'[c].entity = e
        /\ reader'[c].server = NoServer
        /\ \A d \in Connections \ {c} : reader'[d] = reader[d]
    BY ONLY <1>2, <2>1, <2>2, BeginAt, c \in Connections
  <2> QED
    BY <2>3
<1>5. Admitted(c) /\ UNCHANGED <<status, lifecycle, links, overlapped>>
  BY DEF RemoveEntityByAddress
<1>6. Frame(c)
  BY <1>3, <1>4, <1>5 DEF Frame, Admitted
<1>7. \A en \in subscriptionEntries \cup bindingEntries :
         en.connection = c => en.entity \in entities[c]
  BY <1>5, LinksAtTask DEF Admitted, At
<1>8. /\ \A en \in subscriptionEntries : en.connection = c => Attached(c, en)'
      /\ \A en \in bindingEntries : en.connection = c => AttachedBinding(c, en)'
  BY <1>3, <1>4, <1>7 DEF Attached, AttachedBinding, At
<1> QED
  BY <1>2, <1>3, <1>4, <1>5, <1>6, <1>8, OwnLinks, ReaderStepKeeps

LEMMA DropSubscriptionsStep ==
    ASSUME IInv, NEW c \in Connections, RemoveSubscriptionsForEntity(c)
    PROVE  IInv'
<1> DEFINE e == reader[c].entity
<1>1. /\ At(c, "dropSubscriptions")
      /\ subscriptionEntries' = SubscriptionsWithout(c, e)
      /\ Begin(c, "dropBindings", e, NoServer)
      /\ UNCHANGED <<status, entities, lifecycle, bindingEntries, overlapped>>
  BY DEF RemoveSubscriptionsForEntity
<1>2. e \in Entities /\ "dropBindings" \in Tasks
  BY <1>1 DEF IInv, ReaderInv, At, Tasks
<1>3. /\ reader' \in [Connections -> ReaderStates]
      /\ reader'[c].task = "dropBindings" /\ reader'[c].entity = e
      /\ \A d \in Connections \ {c} : reader'[d] = reader[d]
  BY <1>1, <1>2, BeginAt DEF IInv
<1>4. Frame(c)
  BY <1>1, <1>3 DEF Frame, At
<1>5. \A en \in subscriptionEntries' : en.connection = c => Attached(c, en)'
  BY <1>1, OwnLinks DEF Attached, SubscriptionsWithout, SameAddress
<1>6. \A en \in bindingEntries : en.connection = c => AttachedBinding(c, en)'
  BY <1>1, <1>3, OwnLinks DEF AttachedBinding, At
<1>7. subscriptionEntries' \subseteq subscriptionEntries
  BY <1>1 DEF SubscriptionsWithout
<1> HIDE DEF e
<1> QED
  BY <1>1, <1>2, <1>3, <1>4, <1>5, <1>6, <1>7, OwnLinks, ReaderStepKeeps

LEMMA DropBindingsStep ==
    ASSUME IInv, NEW c \in Connections, RemoveBindingsForEntity(c)
    PROVE  IInv'
<1>1. /\ At(c, "dropBindings") /\ Finish(c)
      /\ bindingEntries' = BindingsWithout(c, reader[c].entity)
      /\ UNCHANGED <<status, entities, lifecycle, subscriptionEntries, overlapped>>
  BY DEF RemoveBindingsForEntity
<1>2. \A en \in subscriptionEntries' \cup bindingEntries' :
         en.connection = c => en.entity \in entities'[c]
  BY <1>1, OwnLinks DEF Attached, AttachedBinding, BindingsWithout, At
<1>3. bindingEntries' \subseteq bindingEntries
  BY <1>1 DEF BindingsWithout
<1>4. ~At(c, "idle")
  BY <1>1 DEF At
<1> QED
  BY <1>1, <1>2, <1>3, <1>4, OwnLinks, Finishes

(* The end of a request that is about an entity the device has.            *)
LEMMA RequestEnds ==
    ASSUME IInv, NEW c \in Connections, Finish(c),
           reader[c].task \in {"addSubscription", "addBinding",
                               "removeSubscription", "removeBinding"},
           UNCHANGED <<status, entities, lifecycle, overlapped>>,
           subscriptionEntries' \subseteq
              subscriptionEntries \cup {Entry(c, reader[c].entity, reader[c].server)},
           bindingEntries' \subseteq
              bindingEntries \cup {Entry(c, reader[c].entity, reader[c].server)}
    PROVE  IInv'
<1>1. /\ reader[c].entity \in entities[c] /\ reader[c].server \in Servers
      /\ reader[c].entity \in Entities
  BY DEF IInv, ReaderInv
<1> DEFINE en0 == Entry(c, reader[c].entity, reader[c].server)
<1>2. en0 \in Entries /\ en0.connection = c /\ en0.entity = reader[c].entity
  BY <1>1, EntryType
<1>3. ~At(c, "dropSubscriptions") /\ ~At(c, "dropBindings") /\ ~At(c, "idle")
  BY DEF At
<1> HIDE DEF en0
<1>4. /\ subscriptionEntries' \subseteq subscriptionEntries \cup {en0}
      /\ bindingEntries' \subseteq bindingEntries \cup {en0}
  BY DEF en0
<1> QED
  BY <1>1, <1>2, <1>3, <1>4, OwnLinks, LinksAtTask, Finishes

LEMMA RequestStep ==
    ASSUME IInv, NEW c \in Connections,
           \/ AddSubscription(c) \/ RemoveSubscription(c)
           \/ AddBinding(c) \/ RemoveBinding(c)
    PROVE  IInv'
<1> DEFINE requests == {"addSubscription", "addBinding", "removeSubscription",
                        "removeBinding"}
<1>1. ASSUME Admitted(c), NEW task \in requests,
             \E e \in entities[c], s \in Servers : Begin(c, task, e, s),
             UNCHANGED <<status, entities, lifecycle, links, overlapped>>
      PROVE  IInv'
  <2>1. PICK e \in entities[c], s \in Servers : Begin(c, task, e, s)
    BY <1>1
  <2>2. e \in Entities /\ task \in Tasks \ {"idle"}
    BY OwnLinks DEF Tasks
  <2> QED
    BY <1>1, <2>1, <2>2, TakesUp
<1>2. CASE AddSubscription(c)
  BY <1>1, <1>2, RequestEnds DEF AddSubscription, At
<1>3. CASE RemoveSubscription(c)
  BY <1>1, <1>3, RequestEnds DEF RemoveSubscription, At
<1>4. CASE AddBinding(c)
  BY <1>1, <1>4, RequestEnds DEF AddBinding, At
<1>5. CASE RemoveBinding(c)
  BY <1>1, <1>5, RequestEnds DEF RemoveBinding, At
<1> QED
  BY <1>2, <1>3, <1>4, <1>5

-----------------------------------------------------------------------------
(* The life cycle leaves the readers and their devices alone and only      *)
(* removes links.                                                          *)
LEMMA LifecycleKeeps ==
    ASSUME IInv, UNCHANGED <<entities, reader>>,
           subscriptionEntries' \subseteq subscriptionEntries,
           bindingEntries' \subseteq bindingEntries
    PROVE  ReaderInv' /\ LinksHaveEntity'
BY DEF IInv, ReaderInv, LinksHaveEntity, At

LEMMA SetupStep ==
    ASSUME IInv, NEW c \in Connections, SetupRemoteDevice(c)
    PROVE  IInv'
<1>1. /\ status[c] = "new" /\ status' = [status EXCEPT ![c] = "open"]
      /\ UNCHANGED <<entities, reader, lifecycle, links, overlapped>>
  BY DEF SetupRemoteDevice
<1>2. TypeOK'
  BY <1>1 DEF IInv, TypeOK
<1>3. LifecycleInv'
  BY <1>1 DEF IInv, TypeOK, LifecycleInv, At, Clean
<1>4. RemovalInv'
  BY <1>1 DEF IInv, TypeOK, RemovalInv, SubscriptionsIn, BindingsIn, Clean
<1> QED
  BY <1>1, <1>2, <1>3, <1>4, LifecycleKeeps DEF IInv

LEMMA RemoveDeviceStep ==
    ASSUME IInv, NEW c \in Connections, removeRemoteDevice(c)
    PROVE  IInv'
<1>1. /\ lifecycle.pc = "idle" /\ status[c] = "open"
      /\ status' = [status EXCEPT ![c] = "closed"]
      /\ lifecycle' = [pc |-> "listSubscriptions", connection |-> c, todo |-> {}]
      /\ overlapped' = IF At(c, "idle") THEN overlapped ELSE overlapped \cup {c}
      /\ UNCHANGED <<entities, reader, links>>
  BY DEF removeRemoteDevice
<1>2. TypeOK'
  BY <1>1 DEF IInv, TypeOK, LifecycleStates
<1>3. LifecycleInv'
  BY <1>1 DEF IInv, TypeOK, LifecycleInv, At, Clean
<1>4. RemovalInv'
  BY <1>1 DEF IInv, TypeOK, RemovalInv, SubscriptionsIn, BindingsIn, Clean
<1> QED
  BY <1>1, <1>2, <1>3, <1>4, LifecycleKeeps DEF IInv

(* A device that is being removed, its reader idle from the beginning.     *)
LEMMA UnderRemoval ==
    ASSUME IInv, lifecycle.pc # "idle"
    PROVE  LET c == lifecycle.connection
           IN  /\ c \in Connections /\ status[c] = "closed"
               /\ \A d \in Connections : status[d] = "closed" => d = c
               /\ Clean(c) => SubscriptionsIn(c, entities[c]) /\ BindingsIn(c, entities[c])
<1> DEFINE c == lifecycle.connection
<1>1. /\ c \in Connections /\ status[c] = "closed"
      /\ \A d \in Connections : status[d] = "closed" => d = c
  BY DEF IInv, LifecycleInv
<1>2. ASSUME Clean(c)
      PROVE  SubscriptionsIn(c, entities[c]) /\ BindingsIn(c, entities[c])
  <2>1. At(c, "idle")
    BY <1>1, <1>2 DEF IInv, LifecycleInv
  <2>2. ~At(c, "dropSubscriptions") /\ ~At(c, "dropBindings")
    BY <2>1 DEF At
  <2> HIDE DEF c
  <2> QED
    BY <1>1, <2>2, LinksAtTask DEF SubscriptionsIn, BindingsIn
<1> QED
  BY <1>1, <1>2

(* A step within the removal: the device stays closed.                     *)
LEMMA RemovalStep ==
    ASSUME IInv, lifecycle.pc # "idle",
           UNCHANGED <<status, entities, reader, overlapped>>,
           subscriptionEntries' \subseteq subscriptionEntries,
           bindingEntries' \subseteq bindingEntries,
           lifecycle' \in LifecycleStates, lifecycle'.pc # "idle",
           lifecycle'.connection = lifecycle.connection,
           Clean(lifecycle.connection) =>
              /\ lifecycle'.pc = "dropSubscriptions" =>
                    SubscriptionsIn(lifecycle.connection, lifecycle.todo)'
              /\ lifecycle'.pc \in {"listBindings", "dropBindings"} =>
                    SubscriptionsIn(lifecycle.connection, {})'
              /\ lifecycle'.pc = "dropBindings" =>
                    BindingsIn(lifecycle.connection, lifecycle.todo)'
    PROVE  IInv'
<1>1. TypeOK'
  BY DEF IInv, TypeOK
<1>2. LifecycleInv'
  BY DEF IInv, LifecycleInv, At, Clean
<1>3. RemovalInv'
  BY UnderRemoval DEF IInv, RemovalInv, SubscriptionsIn, BindingsIn, Clean
<1> QED
  BY <1>1, <1>2, <1>3, LifecycleKeeps DEF IInv

LEMMA LifecycleMove ==
    ASSUME TypeOK,
           NEW p \in {"idle", "listSubscriptions", "dropSubscriptions",
                      "listBindings", "dropBindings"},
           NEW T \in SUBSET Entities
    PROVE  LET x == [lifecycle EXCEPT !.pc = p]
               y == [lifecycle EXCEPT !.pc = p, !.todo = T]
               z == [lifecycle EXCEPT !.todo = T]
           IN  /\ x \in LifecycleStates /\ x.pc = p /\ x.connection = lifecycle.connection
               /\ y \in LifecycleStates /\ y.pc = p /\ y.connection = lifecycle.connection
               /\ y.todo = T
               /\ z \in LifecycleStates /\ z.pc = lifecycle.pc
               /\ z.connection = lifecycle.connection /\ z.todo = T
BY DEF TypeOK, LifecycleStates

LEMMA RemoveSubscriptionsStep ==
    ASSUME IInv, RemoveSubscriptionsForDevice
    PROVE  IInv'
<1> DEFINE c == lifecycle.connection
           places == {"idle", "listSubscriptions", "dropSubscriptions",
                      "listBindings", "dropBindings"}
<1>0. lifecycle.pc # "idle" /\ TypeOK
  BY DEF RemoveSubscriptionsForDevice, IInv
<1>c. /\ c \in Connections /\ status[c] = "closed"
      /\ \A d \in Connections : status[d] = "closed" => d = c
      /\ Clean(c) => SubscriptionsIn(c, entities[c])
      /\ lifecycle.todo \in SUBSET Entities /\ entities[c] \in SUBSET Entities
  BY <1>0, UnderRemoval DEF IInv, TypeOK, LifecycleStates
<1>1. CASE /\ lifecycle.pc = "listSubscriptions"
           /\ lifecycle' = [lifecycle EXCEPT !.pc = "dropSubscriptions",
                                             !.todo = entities[c]]
           /\ UNCHANGED <<status, entities, reader, links, overlapped>>
  <2>1. /\ lifecycle' \in LifecycleStates /\ lifecycle'.pc = "dropSubscriptions"
        /\ lifecycle'.connection = c /\ lifecycle'.todo = entities[c]
    BY <1>0, <1>c, <1>1, LifecycleMove
  <2>2. Clean(c) => SubscriptionsIn(lifecycle.connection, lifecycle.todo)'
    BY <1>1, <1>c, <2>1 DEF SubscriptionsIn
  <2> QED
    BY <1>0, <1>1, <2>1, <2>2, RemovalStep
<1>2. CASE /\ lifecycle.pc = "dropSubscriptions"
           /\ \E e \in lifecycle.todo :
                 /\ subscriptionEntries' = SubscriptionsWithout(c, e)
                 /\ lifecycle' = [lifecycle EXCEPT !.todo = @ \ {e}]
           /\ UNCHANGED <<status, entities, reader, bindingEntries, overlapped>>
  <2>1. PICK e \in lifecycle.todo :
           /\ subscriptionEntries' = SubscriptionsWithout(c, e)
           /\ lifecycle' = [lifecycle EXCEPT !.todo = lifecycle.todo \ {e}]
    BY <1>2, <1>0 DEF TypeOK, LifecycleStates
  <2>2. /\ lifecycle' \in LifecycleStates /\ lifecycle'.pc = "dropSubscriptions"
        /\ lifecycle'.connection = c /\ lifecycle'.todo = lifecycle.todo \ {e}
    BY <1>0, <1>c, <1>2, <2>1, LifecycleMove
  <2>3. subscriptionEntries' \subseteq subscriptionEntries
    BY <2>1 DEF SubscriptionsWithout
  <2>4. Clean(c) => SubscriptionsIn(lifecycle.connection, lifecycle.todo)'
    <3>1. Clean(c) => SubscriptionsIn(c, lifecycle.todo)
      BY <1>2, <1>c DEF IInv, RemovalInv
    <3> QED
      BY <2>1, <2>2, <2>3, <3>1 DEF SubscriptionsIn, SubscriptionsWithout, SameAddress
  <2> QED
    BY <1>0, <1>2, <2>2, <2>3, <2>4, RemovalStep
<1>3. CASE /\ lifecycle.pc = "dropSubscriptions"
           /\ lifecycle.todo = {}
           /\ lifecycle' = [lifecycle EXCEPT !.pc = "listBindings"]
           /\ UNCHANGED <<status, entities, reader, links, overlapped>>
  <2>1. /\ lifecycle' \in LifecycleStates /\ lifecycle'.pc = "listBindings"
        /\ lifecycle'.connection = c
    BY <1>0, <1>c, <1>3, LifecycleMove
  <2>2. Clean(c) => SubscriptionsIn(lifecycle.connection, {})'
    <3>1. Clean(c) => SubscriptionsIn(c, {})
      BY <1>3, <1>c DEF IInv, RemovalInv
    <3> QED
      BY <1>3, <2>1, <3>1 DEF SubscriptionsIn
  <2> QED
    BY <1>0, <1>3, <2>1, <2>2, RemovalStep
<1> QED
  BY <1>1, <1>2, <1>3 DEF RemoveSubscriptionsForDevice

LEMMA RemoveBindingsStep ==
    ASSUME IInv, RemoveBindingsForDevice
    PROVE  IInv'
<1> DEFINE c == lifecycle.connection
<1>0. lifecycle.pc # "idle" /\ TypeOK
  BY DEF RemoveBindingsForDevice, IInv
<1>c. /\ c \in Connections /\ status[c] = "closed"
      /\ \A d \in Connections : status[d] = "closed" => d = c
      /\ Clean(c) => BindingsIn(c, entities[c])
      /\ lifecycle.pc \in {"listBindings", "dropBindings"} /\ Clean(c)
            => SubscriptionsIn(c, {})
      /\ lifecycle.pc = "dropBindings" /\ Clean(c) => BindingsIn(c, lifecycle.todo)
      /\ lifecycle.todo \in SUBSET Entities /\ entities[c] \in SUBSET Entities
  BY <1>0, UnderRemoval DEF IInv, TypeOK, LifecycleStates, RemovalInv
<1>1. CASE /\ lifecycle.pc = "listBindings"
           /\ lifecycle' = [lifecycle EXCEPT !.pc = "dropBindings",
                                             !.todo = entities[c]]
           /\ UNCHANGED <<status, entities, reader, links, overlapped>>
  <2>1. /\ lifecycle' \in LifecycleStates /\ lifecycle'.pc = "dropBindings"
        /\ lifecycle'.connection = c /\ lifecycle'.todo = entities[c]
    BY <1>0, <1>c, <1>1, LifecycleMove
  <2>2. Clean(c) => /\ SubscriptionsIn(lifecycle.connection, {})'
                    /\ BindingsIn(lifecycle.connection, lifecycle.todo)'
    BY <1>1, <1>c, <2>1 DEF SubscriptionsIn, BindingsIn
  <2> QED
    BY <1>0, <1>1, <2>1, <2>2, RemovalStep
<1>2. CASE /\ lifecycle.pc = "dropBindings"
           /\ \E e \in lifecycle.todo :
                 /\ bindingEntries' = BindingsWithout(c, e)
                 /\ lifecycle' = [lifecycle EXCEPT !.todo = @ \ {e}]
           /\ UNCHANGED <<status, entities, reader, subscriptionEntries, overlapped>>
  <2>1. PICK e \in lifecycle.todo :
           /\ bindingEntries' = BindingsWithout(c, e)
           /\ lifecycle' = [lifecycle EXCEPT !.todo = lifecycle.todo \ {e}]
    BY <1>2, <1>0 DEF TypeOK, LifecycleStates
  <2>2. /\ lifecycle' \in LifecycleStates /\ lifecycle'.pc = "dropBindings"
        /\ lifecycle'.connection = c /\ lifecycle'.todo = lifecycle.todo \ {e}
    BY <1>0, <1>c, <1>2, <2>1, LifecycleMove
  <2>3. bindingEntries' \subseteq bindingEntries
    BY <2>1 DEF BindingsWithout
  <2>4. Clean(c) => /\ SubscriptionsIn(lifecycle.connection, {})'
                    /\ BindingsIn(lifecycle.connection, lifecycle.todo)'
    BY <1>2, <1>c, <2>1, <2>2, <2>3 DEF SubscriptionsIn, BindingsIn, BindingsWithout
  <2> QED
    BY <1>0, <1>2, <2>2, <2>3, <2>4, RemovalStep
<1>3. CASE /\ lifecycle.pc = "dropBindings"
           /\ lifecycle.todo = {}
           /\ lifecycle' = IdleLifecycle
           /\ status' = [status EXCEPT ![c] = "gone"]
           /\ UNCHANGED <<entities, reader, links, overlapped>>
  <2>1. TypeOK'
    BY <1>0, <1>3, IdleTypes DEF TypeOK
  <2>2. /\ status'[c] = "gone" /\ \A d \in Connections \ {c} : status'[d] = status[d]
        /\ lifecycle'.pc = "idle"
    BY <1>0, <1>3, <1>c DEF TypeOK, IdleLifecycle
  <2>3. LifecycleInv'
    BY <1>3, <1>c, <2>2 DEF IInv, LifecycleInv, At, Clean
  <2>4. Clean(c) => SubscriptionsIn(c, {}) /\ BindingsIn(c, {})
    BY <1>3, <1>c
  <2>5. RemovalInv'
    BY <1>3, <1>c, <2>2, <2>4 DEF IInv, RemovalInv, SubscriptionsIn, BindingsIn, Clean
  <2> QED
    BY <1>3, <2>1, <2>3, <2>5, LifecycleKeeps DEF IInv
<1> QED
  BY <1>1, <1>2, <1>3 DEF RemoveBindingsForDevice

LEMMA NextInvariant ==
    IInv /\ [Next]_vars => IInv'
<1> SUFFICES ASSUME IInv, [Next]_vars
             PROVE  IInv'
  OBVIOUS
<1>1. CASE UNCHANGED vars
  BY <1>1 DEF IInv, TypeOK, ReaderInv, LifecycleInv, LinksHaveEntity, RemovalInv,
              SubscriptionsIn, BindingsIn, Clean, At, vars
<1>2. CASE Next
  BY <1>2, AddEntityStep, RemoveEntityStep, DropSubscriptionsStep, DropBindingsStep,
     RequestStep, SetupStep, RemoveDeviceStep, RemoveSubscriptionsStep,
     RemoveBindingsStep DEF Next, ReaderStep
<1> QED
  BY <1>1, <1>2

-----------------------------------------------------------------------------
(* The inductive invariant holds in every reachable state.                 *)
THEOREM Invariance == Spec => []IInv
<1> QED
  BY InitInvariant, NextInvariant, PTL DEF Spec

(* Devices, readers, the life cycle and the entries keep their types.      *)
THEOREM TypeCorrect == Spec => []TypeOK
<1>1. IInv => TypeOK
  BY DEF IInv
<1> QED
  BY <1>1, Invariance, PTL

(* However many devices share an entity address and however their readers  *)
(* and the life cycle interleave: a removed entity keeps no link, and a    *)
(* removed device none unless its reader was at work meanwhile.            *)
THEOREM LinksCorrect == Spec => []NothingLeftBehind
<1>1. IInv => NothingLeftBehind
  <2> SUFFICES ASSUME IInv
               PROVE  LinksHaveDevice
    BY DEF IInv, NothingLeftBehind
  <2> SUFFICES ASSUME NEW en \in subscriptionEntries \cup bindingEntries,
                      status[en.connection] = "gone", Clean(en.connection)
               PROVE  FALSE
    BY DEF LinksHaveDevice, Clean
  <2>1. en.connection \in Connections
    BY DEF IInv, TypeOK, Entries
  <2> QED
    BY <2>1 DEF IInv, RemovalInv, SubscriptionsIn, BindingsIn
<1> QED
  BY <1>1, Invariance, PTL

(* A device loses a subscription only by a step of its own reader or of    *)
(* its own removal.                                                        *)
THEOREM SurvivalCorrect == Spec => SubscriptionsSurviveOthers
<1>1. IInv /\ [Next]_vars =>
         [\A en \in subscriptionEntries \ subscriptionEntries' :
             Acts(en.connection.device)]_vars
  <2> SUFFICES ASSUME IInv, Next, NEW en \in subscriptionEntries \ subscriptionEntries'
               PROVE  Acts(en.connection.device)
    BY DEF vars
  <2>1. ASSUME NEW c \in Connections, RemoveSubscriptionsForEntity(c)
        PROVE  Acts(en.connection.device)
    <3>1. en.connection.device = c.device
      BY <2>1 DEF RemoveSubscriptionsForEntity, SubscriptionsWithout, SameAddress
    <3>2. reader'[c].task = "dropBindings" /\ reader[c].task = "dropSubscriptions"
      BY <2>1 DEF RemoveSubscriptionsForEntity, Begin, At, IInv, TypeOK
    <3> QED
      BY <3>1, <3>2 DEF Acts
  <2>2. ASSUME NEW c \in Connections, RemoveSubscription(c)
        PROVE  Acts(en.connection.device)
    <3>1. /\ en.connection.device = c.device /\ Finish(c)
          /\ reader[c].task = "removeSubscription"
      BY <2>2 DEF RemoveSubscription, SameAddress, At
    <3>2. reader'[c].task = "idle"
      BY <3>1, FinishAt DEF IInv
    <3> QED
      BY <3>1, <3>2 DEF Acts
  <2>3. ASSUME RemoveSubscriptionsForDevice
        PROVE  Acts(en.connection.device)
    BY <2>3 DEF RemoveSubscriptionsForDevice, SubscriptionsWithout, SameAddress, Acts
  <2>4. \/ \E c \in Connections : RemoveSubscriptionsForEntity(c) \/ RemoveSubscription(c)
        \/ RemoveSubscriptionsForDevice
    BY DEF Next, ReaderStep, AddEntityAndFeatures, RemoveEntityByAddress,
           RemoveBindingsForEntity, AddSubscription, AddBinding, RemoveBinding,
           SetupRemoteDevice, removeRemoteDevice, RemoveBindingsForDevice
  <2> QED
    BY <2>1, <2>2, <2>3, <2>4
<1> QED
  BY <1>1, Invariance, PTL DEF Spec, SubscriptionsSurviveOthers
=============================================================================
