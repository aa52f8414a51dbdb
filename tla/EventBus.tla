------------------------------ MODULE EventBus ------------------------------
(***************************************************************************)
(* The event bus (spine/events.go).  Publish takes a snapshot of the       *)
(* subscribed handlers, calls those of the core level itself and leaves    *)
(* the event in the queue of each application handler, whose worker calls  *)
(* it.  An unsubscribed handler leaves the list once nothing refers to it. *)
(*                                                                         *)
(* The critical sections of mu and dispatchMu are single steps; muHandle   *)
(* is held across the calls of core handlers and is a variable.  The order *)
(* of the handlers of one level is left open.                              *)
(***************************************************************************)
EXTENDS Integers, Sequences, FiniteSets, SequencesExt

CONSTANTS
    Events,     \* each stands for one call of Publish
    Core,       \* handlers of the core level
    Apps,       \* application handlers
    MaxItems,   \* items of one handler that may be alive at once
    NoEvent, NoItem

ASSUME EventsAssumption == IsFiniteSet(Events) /\ NoEvent \notin Events
ASSUME HandlersAssumption == Core \cap Apps = {}

Handlers == Core \cup Apps
Items == Handlers \X (1..MaxItems)  \* the objects, by handler and identity
ItemsOf(handlersOfLevel) == {i \in Items : i[1] \in handlersOfLevel}
ASSUME ItemsAssumption == MaxItems \in Nat /\ NoItem \notin Items

VARIABLES
    handlers,    \* the items in the list
    subscribed,  \* item.subscribed
    captures,    \* item.captures
    pending,     \* item.pending
    running,     \* item.running
    worker,      \* each item's goroutine in run and the event in its hands
    retiring,    \* number of goroutines of an item on their way to retire
    muHandle,    \* the publisher that holds it
    publish,     \* each publisher's place, rest of its snapshot, current item
    dispatched,  \* events in the order of muHandle (history)
    log          \* events each handler was called with (history)

list == <<handlers, subscribed>>
queue == <<pending, running>>
history == <<dispatched, log>>
vars == <<list, captures, queue, worker, retiring, muHandle, publish, history>>

Places == {"new", "lock", "next", "release", "done"}
Idle == [pc |-> "none", event |-> NoEvent]
Stream(s) == /\ s \in Seq(Events)
             /\ IsInjective(s)

TypeOK == /\ handlers \subseteq Items
          /\ subscribed \subseteq handlers
          /\ captures \in [Items -> 0..Cardinality(Events)]
          /\ \A i \in Items : Stream(pending[i])
          /\ running \subseteq ItemsOf(Apps)
          /\ worker \in [Items -> [pc : {"none", "take", "handle"},
                                   event : Events \cup {NoEvent}]]
          /\ retiring \in [Items -> 0..Cardinality(Events)]
          /\ muHandle \in Events \cup {NoEvent}
          /\ publish \in [Events -> [pc : Places, todo : SUBSET Items,
                                     item : Items \cup {NoItem}]]
          /\ Stream(dispatched)
          /\ \A h \in Handlers : Stream(log[h])

Init == /\ handlers = {}
        /\ subscribed = {}
        /\ captures = [i \in Items |-> 0]
        /\ pending = [i \in Items |-> <<>>]
        /\ running = {}
        /\ worker = [i \in Items |-> Idle]
        /\ retiring = [i \in Items |-> 0]
        /\ muHandle = NoEvent
        /\ publish = [e \in Events |-> [pc |-> "new", todo |-> {}, item |-> NoItem]]
        /\ dispatched = <<>>
        /\ log = [h \in Handlers |-> <<>>]

-----------------------------------------------------------------------------
(* Faulty: a handler that has subscribed again is removed.                 *)
RetireSubscribed(i, subs, caps) ==
    handlers' = IF caps[i] = 0 /\ i \notin running /\ pending[i] = <<>>
                THEN handlers \ {i}
                ELSE handlers

(* Faulty: a worker that has taken the last event is not looked at.        *)
RetireDespiteWorker(i, subs, caps) ==
    handlers' = IF i \notin subs /\ caps[i] = 0 /\ pending[i] = <<>>
                THEN handlers \ {i}
                ELSE handlers

(* retireLocked, with the values subscribed and captures have by then.     *)
retireLocked(i, subs, caps) ==
    handlers' = IF i \notin subs /\ caps[i] = 0 /\ i \notin running /\ pending[i] = <<>>
                THEN handlers \ {i}
                ELSE handlers

(* An object nothing refers to stands for the new one of Subscribe.        *)
Fresh(i) == /\ i \notin handlers
            /\ worker[i] = Idle
            /\ retiring[i] = 0
            /\ \A e \in Events : i \notin publish[e].todo \cup {publish[e].item}

subscribe(h) ==
    /\ \/ /\ \E i \in handlers \cap ItemsOf({h}) : subscribed' = subscribed \cup {i}
          /\ UNCHANGED handlers
       \/ /\ handlers \cap ItemsOf({h}) = {}
          /\ \E i \in ItemsOf({h}) : /\ Fresh(i)
                                    /\ handlers' = handlers \cup {i}
                                    /\ subscribed' = subscribed \cup {i}
    /\ UNCHANGED <<captures, queue, worker, retiring, muHandle, publish, history>>

unsubscribe(h) ==
    /\ \E i \in handlers \cap ItemsOf({h}) :
          /\ subscribed' = subscribed \ {i}
          /\ retireLocked(i, subscribed \ {i}, captures)
    /\ UNCHANGED <<captures, queue, worker, retiring, muHandle, publish, history>>

-----------------------------------------------------------------------------
(* Publish takes its snapshot.                                             *)
Publish(e) ==
    /\ publish[e].pc = "new"
    /\ publish' = [publish EXCEPT ![e].pc = "lock", ![e].todo = subscribed]
    /\ captures' = [i \in Items |-> IF i \in subscribed THEN captures[i] + 1
                                                        ELSE captures[i]]
    /\ UNCHANGED <<list, queue, worker, retiring, muHandle, history>>

lockMuHandle(e) ==
    /\ publish[e].pc = "lock"
    /\ muHandle = NoEvent
    /\ muHandle' = e
    /\ publish' = [publish EXCEPT ![e].pc = "next"]
    /\ dispatched' = Append(dispatched, e)
    /\ UNCHANGED <<list, captures, queue, worker, retiring, log>>

At(e, place) == publish[e].pc = place
Visit(e, i) == publish' = [publish EXCEPT ![e].pc = "release", ![e].item = i,
                                          ![e].todo = @ \ {i}]

(* The core handlers come first and are called by the publisher, which     *)
(* stays at "release" until the call returns.                              *)
handleCore(e) ==
    /\ At(e, "next")
    /\ \E i \in publish[e].todo \cap ItemsOf(Core) :
          /\ Visit(e, i)
          /\ log' = [log EXCEPT ![i[1]] = Append(@, e)]
    /\ UNCHANGED <<list, captures, queue, worker, retiring, muHandle, dispatched>>

(* Faulty: application handlers do not wait for the core level.            *)
DispatchAtOnce(e) ==
    /\ At(e, "next")
    /\ \E i \in publish[e].todo \cap ItemsOf(Apps) :
          /\ Visit(e, i)
          /\ pending' = [pending EXCEPT ![i] = Append(@, e)]
          /\ running' = running \cup {i}
          /\ worker' = IF i \in running THEN worker
                       ELSE [worker EXCEPT ![i].pc = "take"]
    /\ UNCHANGED <<list, captures, retiring, muHandle, history>>

(* Faulty: the newest event is put first.                                  *)
DispatchNewestFirst(e) ==
    /\ At(e, "next")
    /\ publish[e].todo \cap ItemsOf(Core) = {}
    /\ \E i \in publish[e].todo :
          /\ Visit(e, i)
          /\ pending' = [pending EXCEPT ![i] = <<e>> \o @]
          /\ running' = running \cup {i}
          /\ worker' = IF i \in running THEN worker
                       ELSE [worker EXCEPT ![i].pc = "take"]
    /\ UNCHANGED <<list, captures, retiring, muHandle, history>>

dispatch(e) ==
    /\ At(e, "next")
    /\ publish[e].todo \cap ItemsOf(Core) = {}
    /\ \E i \in publish[e].todo :
          /\ Visit(e, i)
          /\ pending' = [pending EXCEPT ![i] = Append(@, e)]
          /\ running' = running \cup {i}
          /\ worker' = IF i \in running THEN worker
                       ELSE [worker EXCEPT ![i].pc = "take"]
    /\ UNCHANGED <<list, captures, retiring, muHandle, history>>

(* Faulty: the release does not look whether the item can go now.          *)
ReleaseOnly(e) ==
    /\ At(e, "release")
    /\ LET i == publish[e].item
       IN  /\ captures' = [captures EXCEPT ![i] = @ - 1]
           /\ publish' = [publish EXCEPT ![e].pc = "next", ![e].item = NoItem]
    /\ UNCHANGED <<list, queue, worker, retiring, muHandle, history>>

releaseCapture(e) ==
    /\ At(e, "release")
    /\ LET i    == publish[e].item
           caps == [captures EXCEPT ![i] = @ - 1]
       IN  /\ captures' = caps
           /\ retireLocked(i, subscribed, caps)
           /\ publish' = [publish EXCEPT ![e].pc = "next", ![e].item = NoItem]
    /\ UNCHANGED <<subscribed, queue, worker, retiring, muHandle, history>>

unlockMuHandle(e) ==
    /\ At(e, "next")
    /\ publish[e].todo = {}
    /\ muHandle' = NoEvent
    /\ publish' = [publish EXCEPT ![e].pc = "done"]
    /\ UNCHANGED <<list, captures, queue, worker, retiring, history>>

-----------------------------------------------------------------------------
(* Faulty: the last event of the queue is left there.                      *)
RunLeavesLast(i) ==
    /\ worker[i].pc = "take"
    /\ \/ /\ Len(pending[i]) <= 1
          /\ running' = running \ {i}
          /\ worker' = [worker EXCEPT ![i] = Idle]
          /\ retiring' = [retiring EXCEPT ![i] = @ + 1]
          /\ UNCHANGED <<pending, log>>
       \/ /\ Len(pending[i]) > 1
          /\ LET e == Head(pending[i])
             IN  /\ pending' = [pending EXCEPT ![i] = Tail(@)]
                 /\ worker' = [worker EXCEPT ![i] = [pc |-> "handle", event |-> e]]
                 /\ log' = [log EXCEPT ![i[1]] = Append(@, e)]
          /\ UNCHANGED <<running, retiring>>
    /\ UNCHANGED <<list, captures, muHandle, publish, dispatched>>

(* The worker finds its queue empty and ends, or calls HandleEvent.        *)
run(i) ==
    /\ worker[i].pc = "take"
    /\ \/ /\ pending[i] = <<>>
          /\ running' = running \ {i}
          /\ worker' = [worker EXCEPT ![i] = Idle]
          /\ retiring' = [retiring EXCEPT ![i] = @ + 1]
          /\ UNCHANGED <<pending, log>>
       \/ /\ pending[i] # <<>>
          /\ LET e == Head(pending[i])
             IN  /\ pending' = [pending EXCEPT ![i] = Tail(@)]
                 /\ worker' = [worker EXCEPT ![i] = [pc |-> "handle", event |-> e]]
                 /\ log' = [log EXCEPT ![i[1]] = Append(@, e)]
          /\ UNCHANGED <<running, retiring>>
    /\ UNCHANGED <<list, captures, muHandle, publish, dispatched>>

HandleEventReturns(i) ==
    /\ worker[i].pc = "handle"
    /\ worker' = [worker EXCEPT ![i] = [pc |-> "take", event |-> NoEvent]]
    /\ UNCHANGED <<list, captures, queue, retiring, muHandle, publish, history>>

retire(i) ==
    /\ retiring[i] > 0
    /\ retiring' = [retiring EXCEPT ![i] = @ - 1]
    /\ retireLocked(i, subscribed, captures)
    /\ UNCHANGED <<subscribed, captures, queue, worker, muHandle, publish, history>>

Dispatching(e) == \/ lockMuHandle(e)
                  \/ handleCore(e)
                  \/ dispatch(e)
                  \/ releaseCapture(e)
                  \/ unlockMuHandle(e)

Next == \/ \E h \in Handlers : subscribe(h) \/ unsubscribe(h)
        \/ \E e \in Events : Publish(e) \/ Dispatching(e)
        \/ \E i \in Items : run(i) \/ HandleEventReturns(i) \/ retire(i)

Spec == Init /\ [][Next]_vars

(* Nobody has to subscribe or to publish.  A started Publish and a started *)
(* worker go on, and HandleEvent returns.                                  *)
Fairness == /\ \A e \in Events : WF_vars(Dispatching(e))
            /\ \A i \in Items : WF_vars(run(i)) /\ WF_vars(retire(i))
            /\ \A i \in ItemsOf(Apps) : WF_vars(HandleEventReturns(i))

FairSpec == Spec /\ Fairness

-----------------------------------------------------------------------------
Position(e) == CHOOSE n \in DOMAIN dispatched : dispatched[n] = e
Called(e, h) == e \in ToSet(log[h])

(* A handler sees events once and in the order of their dispatch, also     *)
(* when it leaves and returns while earlier events are still queued.       *)
HandledInOrder ==
    \A h \in Handlers : \A m, n \in DOMAIN log[h] :
        m < n => Position(log[h][m]) < Position(log[h][n])

BusyItemsListed ==
    /\ \A i \in Items : \/ captures[i] > 0
                        \/ i \in running
                        \/ pending[i] # <<>>
                        => i \in handlers
    /\ \A i, j \in handlers : i[1] = j[1] => i = j

(* HandleEvent of one handler is never running twice: unsubscribing and    *)
(* subscribing again does not give it a second worker.  For an item that   *)
(* has events queued, a worker or a publisher on its way to it stays in    *)
(* the list, where Subscribe finds it, and no handler has two items.       *)
OneCallAtATime ==
    /\ BusyItemsListed
    /\ \A i, j \in Items : /\ i[1] = j[1]
                           /\ worker[i].pc = "handle"
                           /\ worker[j].pc = "handle"
                           => i = j

(* What Publish promises the core: its handlers are done with an event     *)
(* before any application handler is called with it.                       *)
CoreBeforeApplication ==
    \A e \in Events, h \in Apps :
        Called(e, h) => (publish[e].todo \cup {publish[e].item}) \cap ItemsOf(Core) = {}

(* Every handler in the snapshot of a Publish is called with the event,    *)
(* although it unsubscribes meanwhile.                                     *)
EveryCaptureHandled ==
    \A e \in Events, i \in Items :
        (i \in publish[e].todo) ~> Called(e, i[1])

(* An unsubscribed handler that returns from its calls leaves the list,    *)
(* unless it subscribes again.                                             *)
UnsubscribedLeaves ==
    \A i \in Items :
        (i \in handlers \ subscribed) ~> (i \notin handlers \ subscribed)
=============================================================================
