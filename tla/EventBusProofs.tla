--------------------------- MODULE EventBusProofs ---------------------------
(***************************************************************************)
(* Theorems about EventBus for any number of events, handlers and items of *)
(* a handler.                                                              *)
(***************************************************************************)
EXTENDS EventBus, FiniteSetTheorems, TLAPS

(* The types that the steps need, with the domains of the functions.       *)
PublishStates == [pc : Places, todo : SUBSET Items, item : Items \cup {NoItem}]
WorkerStates == [pc : {"none", "take", "handle"}, event : Events \cup {NoEvent}]
TypeInv == /\ handlers \subseteq Items
           /\ subscribed \subseteq handlers
           /\ captures \in [Items -> Nat]
           /\ pending \in [Items -> Seq(Events)]
           /\ running \subseteq ItemsOf(Apps)
           /\ worker \in [Items -> WorkerStates]
           /\ retiring \in [Items -> Nat]
           /\ muHandle \in Events \cup {NoEvent}
           /\ publish \in [Events -> PublishStates]
           /\ dispatched \in Seq(Events)
           /\ log \in [Handlers -> Seq(Events)]

(* A publisher has one item of a handler in its snapshot, the item in its  *)
(* hands is no longer there, and an event is dispatched under the mutex.   *)
PublisherInv ==
    /\ \A e \in Events :
          /\ At(e, "release") <=> publish[e].item # NoItem
          /\ publish[e].item \notin publish[e].todo
          /\ \A i, j \in publish[e].todo : i[1] = j[1] => i = j
          /\ At(e, "new") => publish[e].todo = {}
          /\ muHandle = e <=> At(e, "next") \/ At(e, "release")
          /\ e \in ToSet(dispatched) <=> ~At(e, "new") /\ ~At(e, "lock")
    /\ muHandle # NoEvent => /\ dispatched # <<>>
                             /\ dispatched[Len(dispatched)] = muHandle

(* The count of captures is that of the publishers that refer to the item. *)
Holding(i) == {e \in Events : i \in publish[e].todo \cup {publish[e].item}}
CaptureInv == \A i \in Items : captures[i] = Cardinality(Holding(i))

(* A worker belongs to a running item, and only such an item has a queue.  *)
WorkerInv == \A i \in Items : /\ worker[i].pc # "none" <=> i \in running
                              /\ i \notin running => pending[i] = <<>>

(* An event is in one place of a handler, and all of them in the order of  *)
(* their dispatch.                                                         *)
Pos(d, e) == CHOOSE n \in DOMAIN d : d[n] = e
Sorted(d, s) == \A m, n \in DOMAIN s : m < n => Pos(d, s[m]) < Pos(d, s[n])
Ahead(d, s, t) == \A e \in ToSet(s), f \in ToSet(t) : Pos(d, e) < Pos(d, f)
Seen(e, h) == \/ e \in ToSet(log[h])
              \/ \E i \in Items : i[1] = h /\ e \in ToSet(pending[i])
StreamInv ==
    /\ Stream(dispatched)
    /\ \A h \in Handlers : Stream(log[h]) /\ Sorted(dispatched, log[h])
    /\ \A i \in Items : /\ Stream(pending[i]) /\ Sorted(dispatched, pending[i])
                        /\ Ahead(dispatched, log[i[1]], pending[i])
    /\ \A e \in Events, h \in Handlers : Seen(e, h) => e \in ToSet(dispatched)
    /\ \A e \in Events : \A i \in publish[e].todo : ~Seen(e, i[1])

(* No event is with an application handler before the core level is done.  *)
CoreInv ==
    \A e \in Events, h \in Apps :
        Seen(e, h) => (publish[e].todo \cup {publish[e].item}) \cap ItemsOf(Core) = {}

(* An item has retired once for each call at most.                         *)
RetireInv ==
    \A i \in Items :
        /\ retiring[i] <= Len(log[i[1]])
        /\ i \in running /\ pending[i] = <<>> => retiring[i] + 1 <= Len(log[i[1]])

IInv == /\ TypeInv
        /\ PublisherInv
        /\ CaptureInv
        /\ WorkerInv
        /\ BusyItemsListed
        /\ StreamInv
        /\ CoreInv
        /\ RetireInv

-----------------------------------------------------------------------------
USE DEF list, queue, history

LEMMA ItemFacts ==
    ASSUME NEW i \in Items
    PROVE  /\ i[1] \in Handlers
           /\ \A S : i \in ItemsOf(S) <=> i[1] \in S
           /\ \A j \in Items : \A S : j \in ItemsOf(S) <=> j[1] \in S
           /\ i \in ItemsOf(Core) <=> i[1] \notin Apps
           /\ i # NoItem
BY HandlersAssumption, ItemsAssumption DEF Items, ItemsOf, Handlers

LEMMA AppendEvent ==
    ASSUME NEW s \in Seq(Events), NEW e \in Events
    PROVE  /\ Append(s, e) \in Seq(Events)
           /\ ToSet(Append(s, e)) = ToSet(s) \cup {e}
           /\ Append(s, e) # <<>>
           /\ Len(Append(s, e)) = Len(s) + 1
           /\ Stream(s) /\ e \notin ToSet(s) => Stream(Append(s, e))
<1>1. /\ Append(s, e) \in Seq(Events) /\ Append(s, e) # <<>>
      /\ Len(Append(s, e)) = Len(s) + 1 /\ Len(s) \in Nat
      /\ DOMAIN s = 1..Len(s) /\ DOMAIN Append(s, e) = 1..(Len(s) + 1)
  OBVIOUS
<1>2. /\ \A n \in DOMAIN s : Append(s, e)[n] = s[n] /\ n \in DOMAIN Append(s, e)
      /\ Append(s, e)[Len(s) + 1] = e
      /\ \A n \in DOMAIN Append(s, e) : n \in DOMAIN s \/ n = Len(s) + 1
  OBVIOUS
<1> DEFINE t == Append(s, e)
<1> HIDE DEF t
<1>3. ToSet(t) = ToSet(s) \cup {e}
  <2>1. ToSet(t) = {t[n] : n \in DOMAIN t} /\ ToSet(s) = {s[n] : n \in DOMAIN s}
    BY DEF ToSet
  <2>2. Len(s) + 1 \in DOMAIN t
    BY <1>1 DEF t
  <2> QED
    BY <1>2, <2>1, <2>2 DEF t
<1>4. ASSUME Stream(s), e \notin ToSet(s)
      PROVE  Stream(t)
  <2>1. \A n \in DOMAIN s : s[n] # e
    BY <1>4 DEF ToSet
  <2>2. \A m, n \in DOMAIN t : t[m] = t[n] => m = n
    BY <1>2, <1>4, <2>1 DEF t, Stream, IsInjective
  <2> QED
    BY <1>1, <2>2 DEF Stream, IsInjective, t
<1> QED
  BY <1>1, <1>3, <1>4 DEF t

LEMMA TailEvent ==
    ASSUME NEW s \in Seq(Events), s # <<>>
    PROVE  /\ Head(s) \in ToSet(s) /\ Head(s) \in Events
           /\ Tail(s) \in Seq(Events)
           /\ ToSet(Tail(s)) \subseteq ToSet(s)
           /\ Stream(s) => Stream(Tail(s)) /\ Head(s) \notin ToSet(Tail(s))
BY DEF ToSet, Stream, IsInjective

(* The position of an event in the order of dispatch.                      *)
LEMMA PosOf ==
    ASSUME NEW d, Stream(d), NEW n \in DOMAIN d
    PROVE  Pos(d, d[n]) = n
<1>1. \A m \in DOMAIN d : d[m] = d[n] => m = n
  BY DEF Stream, IsInjective
<1> QED
  BY <1>1 DEF Pos

LEMMA PosIn ==
    ASSUME NEW d, Stream(d), NEW e \in ToSet(d)
    PROVE  Pos(d, e) \in 1..Len(d) /\ d[Pos(d, e)] = e
<1>1. PICK n \in DOMAIN d : d[n] = e
  BY DEF ToSet
<1>2. Pos(d, e) = n
  BY <1>1, PosOf
<1> QED
  BY <1>1, <1>2 DEF Stream

LEMMA PosAppended ==
    ASSUME NEW d, Stream(d), NEW e \in Events, e \notin ToSet(d)
    PROVE  \A f \in ToSet(d) : Pos(Append(d, e), f) = Pos(d, f)
<1>1. Stream(Append(d, e))
  BY AppendEvent DEF Stream
<1>2. ASSUME NEW f \in ToSet(d)
      PROVE  Pos(Append(d, e), f) = Pos(d, f)
  <2>1. Pos(d, f) \in 1..Len(d) /\ d[Pos(d, f)] = f
    BY PosIn
  <2>2. Pos(d, f) \in DOMAIN Append(d, e) /\ Append(d, e)[Pos(d, f)] = f
    BY <2>1 DEF Stream
  <2> QED
    BY <1>1, <2>2, PosOf
<1> QED
  BY <1>2

(* The event under the mutex was dispatched last.                          *)
LEMMA PosLast ==
    ASSUME Stream(dispatched), PublisherInv, NEW e \in Events, At(e, "next")
    PROVE  /\ e \in ToSet(dispatched)
           /\ \A f \in ToSet(dispatched) \ {e} : Pos(dispatched, f) < Pos(dispatched, e)
<1>1. dispatched # <<>> /\ dispatched[Len(dispatched)] = e /\ e \in ToSet(dispatched)
  BY EventsAssumption DEF PublisherInv, At
<1>2. Pos(dispatched, e) = Len(dispatched)
  BY <1>1, PosOf DEF Stream
<1>3. ASSUME NEW f \in ToSet(dispatched) \ {e}
      PROVE  Pos(dispatched, f) < Pos(dispatched, e)
  <2>1. Pos(dispatched, f) \in 1..Len(dispatched) /\ dispatched[Pos(dispatched, f)] = f
    BY PosIn
  <2> QED
    BY <1>1, <1>2, <2>1 DEF Stream
<1> QED
  BY <1>1, <1>3

LEMMA SortedAppend ==
    ASSUME NEW d, NEW s \in Seq(Events), Sorted(d, s), NEW e \in Events,
           \A f \in ToSet(s) : Pos(d, f) < Pos(d, e)
    PROVE  Sorted(d, Append(s, e))
<1> SUFFICES ASSUME NEW m \in DOMAIN Append(s, e), NEW n \in DOMAIN Append(s, e), m < n
             PROVE  Pos(d, Append(s, e)[m]) < Pos(d, Append(s, e)[n])
  BY DEF Sorted
<1>1. m \in DOMAIN s /\ Append(s, e)[m] = s[m] /\ s[m] \in ToSet(s)
  BY DEF ToSet
<1>2. CASE n = Len(s) + 1
  BY <1>1, <1>2
<1>3. CASE n # Len(s) + 1
  BY <1>1, <1>3 DEF Sorted
<1> QED
  BY <1>2, <1>3

LEMMA SortedTail ==
    ASSUME NEW d, NEW s \in Seq(Events), s # <<>>, Sorted(d, s)
    PROVE  /\ Sorted(d, Tail(s))
           /\ \A f \in ToSet(Tail(s)) : Pos(d, Head(s)) < Pos(d, f)
<1>1. \A n \in DOMAIN Tail(s) : /\ Tail(s)[n] = s[n + 1]
                               /\ n + 1 \in DOMAIN s /\ n \in Nat /\ 1 < n + 1
  OBVIOUS
<1>2. Sorted(d, Tail(s))
  BY <1>1 DEF Sorted
<1>3. \A f \in ToSet(Tail(s)) : Pos(d, Head(s)) < Pos(d, f)
  <2>1. 1 \in DOMAIN s /\ Head(s) = s[1]
    OBVIOUS
  <2> QED
    BY <1>1, <2>1 DEF Sorted, ToSet
<1> QED
  BY <1>2, <1>3

(* What the dispatch of one more event leaves as it is.                    *)
LEMMA SortedKept ==
    ASSUME NEW d, Stream(d), NEW e \in Events, e \notin ToSet(d),
           NEW s, ToSet(s) \subseteq ToSet(d)
    PROVE  /\ Sorted(d, s) => Sorted(Append(d, e), s)
           /\ \A t : ToSet(t) \subseteq ToSet(d) /\ Ahead(d, s, t)
                        => Ahead(Append(d, e), s, t)
<1>1. \A f \in ToSet(d) : Pos(Append(d, e), f) = Pos(d, f)
  BY PosAppended
<1>2. \A n \in DOMAIN s : s[n] \in ToSet(d)
  BY DEF ToSet
<1>3. Sorted(d, s) => Sorted(Append(d, e), s)
  BY <1>1, <1>2 DEF Sorted
<1> QED
  BY <1>1, <1>3 DEF Ahead

LEMMA HoldingFinite ==
    ASSUME NEW i
    PROVE  /\ Holding(i) \in SUBSET Events
           /\ IsFiniteSet(Holding(i)) /\ Cardinality(Holding(i)) \in Nat
           /\ Cardinality(Holding(i)) <= Cardinality(Events)
           /\ Holding(i) # {} => Cardinality(Holding(i)) > 0
<1>1. Holding(i) \in SUBSET Events
  BY DEF Holding
<1>2. /\ IsFiniteSet(Holding(i)) /\ Cardinality(Holding(i)) \in Nat
      /\ Cardinality(Holding(i)) <= Cardinality(Events)
  BY <1>1, EventsAssumption, FS_Subset, FS_CardinalityType
<1> QED
  BY <1>1, <1>2, FS_EmptySet

(* The length of a stream is bounded by the number of events.              *)
LEMMA StreamLength ==
    ASSUME NEW s, Stream(s)
    PROVE  Len(s) \in 0..Cardinality(Events)
<1>1. s \in Injection(1..Len(s), Events)
  BY DEF Stream, IsInjective, Injection
<1>2. Cardinality(1..Len(s)) <= Cardinality(Events)
  BY <1>1, EventsAssumption, FS_Injection
<1>3. Cardinality(1..Len(s)) = Len(s) /\ Len(s) \in Nat
  BY FS_Interval DEF Stream
<1> QED
  BY <1>2, <1>3, EventsAssumption, FS_CardinalityType

-----------------------------------------------------------------------------
(* The steps of a publisher, by what they make of its record.              *)
Moved(e, p, t, x) ==
    /\ publish' \in [Events -> PublishStates]
    /\ publish'[e].pc = p /\ publish'[e].todo = t /\ publish'[e].item = x
    /\ \A f \in Events \ {e} : publish'[f] = publish[f]

LEMMA RecordMoved ==
    ASSUME TypeInv, NEW e \in Events, NEW r \in PublishStates,
           publish' = [publish EXCEPT ![e] = r]
    PROVE  Moved(e, r.pc, r.todo, r.item)
BY DEF TypeInv, Moved

LEMMA PublishFields ==
    ASSUME TypeInv, NEW e \in Events
    PROVE  /\ publish[e] \in PublishStates
           /\ publish[e].pc \in Places /\ publish[e].todo \in SUBSET Items
           /\ publish[e].item \in Items \cup {NoItem}
BY DEF TypeInv, PublishStates

LEMMA PlaceFields ==
    ASSUME NEW s \in PublishStates, NEW p \in Places
    PROVE  LET r == [s EXCEPT !.pc = p]
           IN  r \in PublishStates /\ r.pc = p /\ r.todo = s.todo /\ r.item = s.item
BY DEF PublishStates

LEMMA SnapshotFields ==
    ASSUME NEW s \in PublishStates, NEW t \in SUBSET Items
    PROVE  LET r == [s EXCEPT !.pc = "lock", !.todo = t]
           IN  r \in PublishStates /\ r.pc = "lock" /\ r.todo = t /\ r.item = s.item
BY DEF PublishStates, Places

LEMMA ReleaseFields ==
    ASSUME NEW s \in PublishStates,
           NEW x \in Items \cup {NoItem}
    PROVE  LET r == [s EXCEPT !.pc = "next", !.item = x]
           IN  r \in PublishStates /\ r.pc = "next" /\ r.todo = s.todo /\ r.item = x
BY DEF PublishStates, Places

LEMMA SnapshotMoves ==
    ASSUME TypeInv, NEW e \in Events, Publish(e)
    PROVE  Moved(e, "lock", subscribed, publish[e].item)
<1> DEFINE r == [publish[e] EXCEPT !.pc = "lock", !.todo = subscribed]
<1>1. publish' = [publish EXCEPT ![e] = r]
  BY DEF Publish, TypeInv
<1>2. subscribed \in SUBSET Items /\ "lock" \in Places
  BY DEF TypeInv, Places
<1>3. /\ r \in PublishStates
      /\ r.pc = "lock" /\ r.todo = subscribed /\ r.item = publish[e].item
  BY <1>2, PublishFields, SnapshotFields
<1> HIDE DEF r
<1> QED
  BY <1>1, <1>3, RecordMoved

LEMMA PlaceMoves ==
    ASSUME TypeInv, NEW e \in Events, NEW p \in Places,
           publish' = [publish EXCEPT ![e].pc = p]
    PROVE  Moved(e, p, publish[e].todo, publish[e].item)
<1> DEFINE r == [publish[e] EXCEPT !.pc = p]
<1>1. publish' = [publish EXCEPT ![e] = r]
  BY DEF TypeInv
<1>2. /\ r \in PublishStates
      /\ r.pc = p /\ r.todo = publish[e].todo /\ r.item = publish[e].item
  BY PublishFields, PlaceFields
<1> HIDE DEF r
<1> QED
  BY <1>1, <1>2, RecordMoved

LEMMA VisitMoves ==
    ASSUME TypeInv, NEW e \in Events, NEW i \in Items, Visit(e, i)
    PROVE  Moved(e, "release", publish[e].todo \ {i}, i)
<1>1. PICK t \in SUBSET Items : t = publish[e].todo \ {i}
  BY PublishFields
<1> DEFINE r == [publish[e] EXCEPT !.pc = "release", !.item = i, !.todo = t]
<1>2. publish' = [publish EXCEPT ![e] = r]
  BY <1>1 DEF Visit, TypeInv
<1>3. publish[e] \in PublishStates /\ i \in Items \cup {NoItem}
  BY PublishFields
<1>4. r \in PublishStates /\ r.pc = "release" /\ r.todo = t /\ r.item = i
  BY <1>3 DEF PublishStates, Places
<1> HIDE DEF r
<1> QED
  BY <1>1, <1>2, <1>4, RecordMoved

LEMMA ReleaseMoves ==
    ASSUME TypeInv, NEW e \in Events, releaseCapture(e)
    PROVE  Moved(e, "next", publish[e].todo, NoItem)
<1> DEFINE r == [publish[e] EXCEPT !.pc = "next", !.item = NoItem]
<1>1. publish' = [publish EXCEPT ![e] = r]
  BY DEF releaseCapture, TypeInv
<1>2. "next" \in Places
  BY DEF Places
<1>3. r \in PublishStates /\ r.pc = "next" /\ r.todo = publish[e].todo /\ r.item = NoItem
  BY <1>2, PublishFields, ReleaseFields
<1> HIDE DEF r
<1> QED
  BY <1>1, <1>3, RecordMoved

(* A call of a core handler, and an event left for an application handler. *)
Visiting(e, i) == /\ At(e, "next")
                  /\ i \in publish[e].todo
                  /\ Moved(e, "release", publish[e].todo \ {i}, i)
                  /\ UNCHANGED <<list, captures, retiring, muHandle, dispatched>>
CoreVisit(e, i) == /\ Visiting(e, i)
                   /\ i[1] \notin Apps
                   /\ log' = [log EXCEPT ![i[1]] = Append(@, e)]
                   /\ UNCHANGED <<pending, running, worker>>
AppVisit(e, i) == /\ Visiting(e, i)
                  /\ i[1] \in Apps
                  /\ publish[e].todo \cap ItemsOf(Core) = {}
                  /\ pending' = [pending EXCEPT ![i] = Append(@, e)]
                  /\ running' = running \cup {i}
                  /\ worker' = IF i \in running THEN worker
                               ELSE [worker EXCEPT ![i].pc = "take"]
                  /\ UNCHANGED log

LEMMA DispatchVisits ==
    ASSUME TypeInv, NEW e \in Events, handleCore(e) \/ dispatch(e)
    PROVE  \E i \in Items : CoreVisit(e, i) \/ AppVisit(e, i)
<1>1. CASE handleCore(e)
  <2>1. PICK i \in publish[e].todo \cap ItemsOf(Core) :
           /\ Visit(e, i)
           /\ log' = [log EXCEPT ![i[1]] = Append(@, e)]
    BY <1>1 DEF handleCore
  <2>2. i \in Items /\ i[1] \notin Apps
    BY <2>1, PublishFields, ItemFacts
  <2> QED
    BY <1>1, <2>1, <2>2, VisitMoves DEF handleCore, Visiting, CoreVisit
<1>2. CASE dispatch(e)
  <2>1. PICK i \in publish[e].todo :
           /\ Visit(e, i)
           /\ pending' = [pending EXCEPT ![i] = Append(@, e)]
           /\ running' = running \cup {i}
           /\ worker' = IF i \in running THEN worker
                        ELSE [worker EXCEPT ![i].pc = "take"]
    BY <1>2 DEF dispatch
  <2>2. publish[e].todo \cap ItemsOf(Core) = {}
    BY <1>2 DEF dispatch
  <2>3. i \in Items /\ i[1] \in Apps
    BY <2>1, <2>2, PublishFields, ItemFacts
  <2> QED
    BY <1>2, <2>1, <2>2, <2>3, VisitMoves DEF dispatch, Visiting, AppVisit
<1> QED
  BY <1>1, <1>2

LEMMA LogMoves ==
    ASSUME TypeInv, NEW h \in Handlers, NEW s \in Seq(Events),
           log' = [log EXCEPT ![h] = s]
    PROVE  /\ log' \in [Handlers -> Seq(Events)]
           /\ log'[h] = s
           /\ \A g \in Handlers \ {h} : log'[g] = log[g]
BY DEF TypeInv

LEMMA PendingMoves ==
    ASSUME TypeInv, NEW i \in Items, NEW s \in Seq(Events),
           pending' = [pending EXCEPT ![i] = s]
    PROVE  /\ pending' \in [Items -> Seq(Events)]
           /\ pending'[i] = s
           /\ \A j \in Items \ {i} : pending'[j] = pending[j]
BY DEF TypeInv

LEMMA LogAppends ==
    ASSUME TypeInv, NEW h \in Handlers, NEW e \in Events,
           log' = [log EXCEPT ![h] = Append(@, e)]
    PROVE  /\ log' \in [Handlers -> Seq(Events)]
           /\ log'[h] = Append(log[h], e)
           /\ \A g \in Handlers \ {h} : log'[g] = log[g]
<1>1. log[h] \in Seq(Events)
  BY DEF TypeInv
<1>2. Append(log[h], e) \in Seq(Events)
  BY <1>1
<1>3. log' = [log EXCEPT ![h] = Append(log[h], e)]
  BY DEF TypeInv
<1> QED
  BY <1>2, <1>3, LogMoves

LEMMA PendingAppends ==
    ASSUME TypeInv, NEW i \in Items, NEW e \in Events,
           pending' = [pending EXCEPT ![i] = Append(@, e)]
    PROVE  /\ pending' \in [Items -> Seq(Events)]
           /\ pending'[i] = Append(pending[i], e)
           /\ \A j \in Items \ {i} : pending'[j] = pending[j]
<1>1. pending[i] \in Seq(Events)
  BY DEF TypeInv
<1>2. Append(pending[i], e) \in Seq(Events)
  BY <1>1
<1>3. pending' = [pending EXCEPT ![i] = Append(pending[i], e)]
  BY DEF TypeInv
<1> QED
  BY <1>2, <1>3, PendingMoves

(* A worker takes the next event of its queue.                             *)
Takes(i) == /\ pending[i] # <<>>
            /\ pending' = [pending EXCEPT ![i] = Tail(@)]
            /\ worker' = [worker EXCEPT ![i] = [pc |-> "handle", event |-> Head(pending[i])]]
            /\ log' = [log EXCEPT ![i[1]] = Append(@, Head(pending[i]))]
            /\ UNCHANGED <<running, retiring>>
Ends(i) == /\ pending[i] = <<>>
           /\ running' = running \ {i}
           /\ worker' = [worker EXCEPT ![i] = Idle]
           /\ retiring' = [retiring EXCEPT ![i] = @ + 1]
           /\ UNCHANGED <<pending, log>>

LEMMA RunSteps ==
    ASSUME NEW i \in Items, run(i)
    PROVE  /\ Takes(i) \/ Ends(i)
           /\ worker[i].pc = "take"
           /\ UNCHANGED <<list, captures, muHandle, publish, dispatched>>
BY DEF run, Takes, Ends

LEMMA TakesMoves ==
    ASSUME TypeInv, NEW i \in Items, Takes(i)
    PROVE  /\ pending' \in [Items -> Seq(Events)]
           /\ pending'[i] = Tail(pending[i])
           /\ \A j \in Items \ {i} : pending'[j] = pending[j]
           /\ Head(pending[i]) \in Events
           /\ log' \in [Handlers -> Seq(Events)]
           /\ log'[i[1]] = Append(log[i[1]], Head(pending[i]))
           /\ \A g \in Handlers \ {i[1]} : log'[g] = log[g]
           /\ pending[i] \in Seq(Events) /\ log[i[1]] \in Seq(Events)
<1>1. Head(pending[i]) \in Events /\ i[1] \in Handlers /\ pending[i] \in Seq(Events)
      /\ log[i[1]] \in Seq(Events) /\ Tail(pending[i]) \in Seq(Events)
  BY TailEvent, ItemFacts DEF TypeInv, Takes
<1>2. pending' = [pending EXCEPT ![i] = Tail(pending[i])]
  BY DEF Takes, TypeInv
<1>3. log' = [log EXCEPT ![i[1]] = Append(@, Head(pending[i]))]
  BY DEF Takes
<1> QED
  BY <1>1, <1>2, <1>3, LogAppends, PendingMoves

LEMMA WorkerTypes ==
    /\ Idle \in WorkerStates /\ Idle.pc = "none"
    /\ \A e \in Events \cup {NoEvent}, p \in {"none", "take", "handle"} :
          /\ [pc |-> p, event |-> e] \in WorkerStates
          /\ [pc |-> p, event |-> e].pc = p
    /\ \A s \in WorkerStates : /\ [s EXCEPT !.pc = "take"] \in WorkerStates
                              /\ [s EXCEPT !.pc = "take"].pc = "take"
BY DEF Idle, WorkerStates

(* A worker takes its next state.                                          *)
LEMMA WorkerMoves ==
    ASSUME TypeInv, NEW i \in Items, NEW s \in WorkerStates,
           worker' = [worker EXCEPT ![i] = s]
    PROVE  /\ worker' \in [Items -> WorkerStates]
           /\ worker'[i] = s
           /\ \A j \in Items \ {i} : worker'[j] = worker[j]
BY DEF TypeInv

LEMMA WorkerStarts ==
    ASSUME TypeInv, NEW i \in Items, worker' = [worker EXCEPT ![i].pc = "take"]
    PROVE  /\ worker' \in [Items -> WorkerStates]
           /\ worker'[i].pc = "take"
           /\ \A j \in Items \ {i} : worker'[j] = worker[j]
<1>1. worker[i] \in WorkerStates /\ worker \in [Items -> WorkerStates]
  BY DEF TypeInv
<1>2. worker' = [worker EXCEPT ![i] = [worker[i] EXCEPT !.pc = "take"]]
  BY <1>1
<1> DEFINE s == [worker[i] EXCEPT !.pc = "take"]
<1>3. s \in WorkerStates /\ s.pc = "take"
  BY <1>1, WorkerTypes
<1> HIDE DEF s
<1> QED
  BY <1>1, <1>2, <1>3, WorkerMoves DEF s

-----------------------------------------------------------------------------
(* What the list may lose.                                                 *)
LEMMA RetireTakes ==
    ASSUME NEW i, NEW subs, NEW caps, retireLocked(i, subs, caps)
    PROVE  \/ handlers' = handlers
           \/ /\ handlers' = handlers \ {i}
              /\ i \notin subs /\ caps[i] = 0 /\ i \notin running /\ pending[i] = <<>>
BY DEF retireLocked

LEMMA Nonnegative ==
    ASSUME TypeInv, PublisherInv, CaptureInv, NEW e \in Events, releaseCapture(e)
    PROVE  /\ publish[e].item \in Items
           /\ captures' = [captures EXCEPT ![publish[e].item] = @ - 1]
           /\ captures' \in [Items -> Nat]
<1>1. publish[e].item \in Items
  BY PublishFields DEF releaseCapture, PublisherInv
<1>2. e \in Holding(publish[e].item)
  BY DEF Holding
<1>3. captures[publish[e].item] \in Nat \ {0}
  BY <1>1, <1>2, HoldingFinite DEF CaptureInv
<1>4. captures' = [captures EXCEPT ![publish[e].item] = @ - 1]
  BY DEF releaseCapture
<1> QED
  BY <1>1, <1>3, <1>4 DEF TypeInv

LEMMA TypeStep ==
    ASSUME TypeInv, PublisherInv, CaptureInv, WorkerInv, [Next]_vars
    PROVE  TypeInv'
<1>1. ASSUME NEW h \in Handlers, subscribe(h) \/ unsubscribe(h) PROVE TypeInv'
  <2>1. handlers' \subseteq Items /\ subscribed' \subseteq handlers'
    <3>1. CASE subscribe(h)
      BY <3>1 DEF subscribe, TypeInv, ItemsOf
    <3>2. CASE unsubscribe(h)
      <4>1. PICK i \in handlers : /\ subscribed' = subscribed \ {i}
                                  /\ retireLocked(i, subscribed \ {i}, captures)
        BY <3>2 DEF unsubscribe
      <4> QED
        BY <4>1, RetireTakes DEF TypeInv
    <3> QED
      BY <1>1, <3>1, <3>2
  <2>2. UNCHANGED <<captures, queue, worker, retiring, muHandle, publish, history>>
    BY <1>1 DEF subscribe, unsubscribe
  <2> QED
    BY <2>1, <2>2 DEF TypeInv
<1>2. ASSUME NEW e \in Events, Publish(e) PROVE TypeInv'
  <2>1. publish' \in [Events -> PublishStates]
    BY <1>2, SnapshotMoves DEF Moved
  <2>2. captures' \in [Items -> Nat]
    BY <1>2 DEF Publish, TypeInv
  <2> QED
    BY <1>2, <2>1, <2>2 DEF Publish, TypeInv
<1>3. ASSUME NEW e \in Events, lockMuHandle(e) PROVE TypeInv'
  <2>1. publish' \in [Events -> PublishStates]
    BY <1>3, PlaceMoves DEF Moved, lockMuHandle, Places
  <2>2. dispatched' \in Seq(Events)
    BY <1>3, AppendEvent DEF lockMuHandle, TypeInv
  <2> QED
    BY <1>3, <2>1, <2>2 DEF lockMuHandle, TypeInv
<1>4. ASSUME NEW e \in Events, handleCore(e) \/ dispatch(e) PROVE TypeInv'
  <2>1. PICK i \in Items : CoreVisit(e, i) \/ AppVisit(e, i)
    BY <1>4, DispatchVisits
  <2>2. publish' \in [Events -> PublishStates]
    BY <2>1 DEF Moved, Visiting, CoreVisit, AppVisit
  <2>3. log' \in [Handlers -> Seq(Events)] /\ pending' \in [Items -> Seq(Events)]
    BY <2>1, LogAppends, PendingAppends, ItemFacts DEF TypeInv, CoreVisit, AppVisit
  <2>4. worker' \in [Items -> WorkerStates]
    BY <2>1, WorkerStarts DEF TypeInv, CoreVisit, AppVisit
  <2>5. running' \subseteq ItemsOf(Apps)
    BY <2>1, ItemFacts DEF TypeInv, CoreVisit, AppVisit
  <2> QED
    BY <2>1, <2>2, <2>3, <2>4, <2>5 DEF Visiting, CoreVisit, AppVisit, TypeInv
<1>5. ASSUME NEW e \in Events, releaseCapture(e) PROVE TypeInv'
  <2>1. publish' \in [Events -> PublishStates]
    BY <1>5, ReleaseMoves DEF Moved
  <2>2. handlers' \subseteq Items /\ subscribed \subseteq handlers'
    <3>1. PICK i, caps : retireLocked(i, subscribed, caps)
      BY <1>5 DEF releaseCapture
    <3> QED
      BY <3>1, RetireTakes DEF TypeInv
  <2> QED
    BY <1>5, <2>1, <2>2, Nonnegative DEF releaseCapture, TypeInv
<1>6. ASSUME NEW e \in Events, unlockMuHandle(e) PROVE TypeInv'
  <2>1. publish' \in [Events -> PublishStates]
    BY <1>6, PlaceMoves DEF Moved, unlockMuHandle, Places
  <2> QED
    BY <1>6, <2>1 DEF unlockMuHandle, TypeInv
<1>7. ASSUME NEW i \in Items, run(i) PROVE TypeInv'
  <2>1. CASE Ends(i)
    <3>1. worker' \in [Items -> WorkerStates]
      BY <2>1, WorkerTypes, WorkerMoves DEF Ends
    <3>2. retiring' \in [Items -> Nat] /\ running' \subseteq ItemsOf(Apps)
      BY <2>1 DEF Ends, TypeInv
    <3>3. UNCHANGED <<list, captures, muHandle, publish, dispatched, pending, log>>
      BY <1>7, <2>1, RunSteps DEF Ends
    <3> QED
      BY <3>1, <3>2, <3>3 DEF TypeInv
  <2>2. CASE Takes(i)
    <3>1. worker' \in [Items -> WorkerStates]
      BY <2>2, TakesMoves, WorkerTypes, WorkerMoves DEF Takes
    <3> QED
      BY <1>7, <2>2, <3>1, RunSteps, TakesMoves DEF Takes, TypeInv
  <2> QED
    BY <1>7, <2>1, <2>2, RunSteps
<1>8. ASSUME NEW i \in Items, HandleEventReturns(i) PROVE TypeInv'
  <2>1. worker' \in [Items -> WorkerStates]
    BY <1>8, WorkerTypes, WorkerMoves DEF HandleEventReturns
  <2> QED
    BY <1>8, <2>1 DEF HandleEventReturns, TypeInv
<1>9. ASSUME NEW i \in Items, retire(i) PROVE TypeInv'
  <2>1. handlers' \subseteq Items /\ subscribed \subseteq handlers'
    BY <1>9, RetireTakes DEF retire, TypeInv
  <2>2. retiring' \in [Items -> Nat]
    BY <1>9 DEF retire, TypeInv
  <2> QED
    BY <1>9, <2>1, <2>2 DEF retire, TypeInv
<1>10. CASE UNCHANGED vars
  BY <1>10 DEF vars, TypeInv
<1> QED
  BY <1>1, <1>2, <1>3, <1>4, <1>5, <1>6, <1>7, <1>8, <1>9, <1>10 DEF Next, Dispatching

-----------------------------------------------------------------------------
PublisherPart(e) ==
    /\ At(e, "release") <=> publish[e].item # NoItem
    /\ publish[e].item \notin publish[e].todo
    /\ \A i, j \in publish[e].todo : i[1] = j[1] => i = j
    /\ At(e, "new") => publish[e].todo = {}
    /\ muHandle = e <=> At(e, "next") \/ At(e, "release")
    /\ e \in ToSet(dispatched) <=> ~At(e, "new") /\ ~At(e, "lock")
LastPart == muHandle # NoEvent => /\ dispatched # <<>>
                                  /\ dispatched[Len(dispatched)] = muHandle

LEMMA PublisherStep ==
    ASSUME TypeInv, PublisherInv, BusyItemsListed, [Next]_vars
    PROVE  PublisherInv'
<1> USE EventsAssumption
<1>p. (\A e \in Events : PublisherPart(e)) /\ LastPart
  BY DEF PublisherInv, PublisherPart, LastPart
<1>q. (\A e \in Events : PublisherPart(e)') /\ LastPart' => PublisherInv'
  BY DEF PublisherInv, PublisherPart, LastPart
<1>o. ASSUME NEW e \in Events, NEW f \in Events \ {e}, publish'[f] = publish[f],
             muHandle' = f <=> muHandle = f,
             f \in ToSet(dispatched') <=> f \in ToSet(dispatched)
      PROVE  PublisherPart(f)'
  BY <1>o, <1>p DEF PublisherPart, At
<1>1. ASSUME NEW e \in Events, Publish(e) PROVE PublisherInv'
  <2>1. Moved(e, "lock", subscribed, publish[e].item) /\ At(e, "new")
        /\ UNCHANGED <<muHandle, dispatched>>
    BY <1>1, SnapshotMoves DEF Publish, At
  <2>2. \A f \in Events \ {e} : PublisherPart(f)'
    BY <2>1, <1>o DEF Moved
  <2>3. \A i, j \in subscribed : i[1] = j[1] => i = j
    BY DEF BusyItemsListed, TypeInv
  <2>4. publish[e].item = NoItem /\ NoItem \notin subscribed
    BY <1>p, <2>1, ItemsAssumption DEF PublisherPart, At, TypeInv
  <2>5. PublisherPart(e)'
    BY <1>p, <2>1, <2>3, <2>4 DEF PublisherPart, Moved, At
  <2> QED
    BY <1>p, <1>q, <2>1, <2>2, <2>5 DEF LastPart
<1>2. ASSUME NEW e \in Events, lockMuHandle(e) PROVE PublisherInv'
  <2>1. Moved(e, "next", publish[e].todo, publish[e].item) /\ At(e, "lock")
        /\ muHandle = NoEvent /\ muHandle' = e /\ dispatched' = Append(dispatched, e)
    BY <1>2, PlaceMoves DEF lockMuHandle, Places, At
  <2>2. dispatched \in Seq(Events)
    BY DEF TypeInv
  <2>3. ToSet(dispatched') = ToSet(dispatched) \cup {e}
    BY <2>1, <2>2, AppendEvent
  <2>4. \A f \in Events \ {e} : PublisherPart(f)'
    BY <2>1, <2>3, <1>o DEF Moved
  <2>5. PublisherPart(e)'
    BY <1>p, <2>1, <2>3 DEF PublisherPart, Moved, At
  <2>6. dispatched' # <<>> /\ dispatched'[Len(dispatched')] = e
    BY <2>1, <2>2
  <2> QED
    BY <1>q, <2>1, <2>4, <2>5, <2>6 DEF LastPart
<1>3. ASSUME NEW e \in Events, handleCore(e) \/ dispatch(e) PROVE PublisherInv'
  <2>1. PICK i \in Items : Visiting(e, i)
    BY <1>3, DispatchVisits DEF CoreVisit, AppVisit
  <2>2. \A f \in Events \ {e} : PublisherPart(f)'
    BY <2>1, <1>o DEF Visiting, Moved
  <2>3. PublisherPart(e)'
    BY <1>p, <2>1, ItemFacts DEF PublisherPart, Visiting, Moved, At
  <2> QED
    BY <1>p, <1>q, <2>1, <2>2, <2>3 DEF LastPart, Visiting
<1>4. ASSUME NEW e \in Events, releaseCapture(e) PROVE PublisherInv'
  <2>1. Moved(e, "next", publish[e].todo, NoItem) /\ At(e, "release")
        /\ UNCHANGED <<muHandle, dispatched>>
    BY <1>4, ReleaseMoves DEF releaseCapture
  <2>2. \A f \in Events \ {e} : PublisherPart(f)'
    BY <2>1, <1>o DEF Moved
  <2>3. NoItem \notin publish[e].todo
    BY PublishFields, ItemsAssumption
  <2>4. PublisherPart(e)'
    BY <1>p, <2>1, <2>3 DEF PublisherPart, Moved, At
  <2> QED
    BY <1>p, <1>q, <2>1, <2>2, <2>4 DEF LastPart
<1>5. ASSUME NEW e \in Events, unlockMuHandle(e) PROVE PublisherInv'
  <2>1. Moved(e, "done", publish[e].todo, publish[e].item) /\ At(e, "next")
        /\ muHandle' = NoEvent /\ UNCHANGED dispatched
    BY <1>5, PlaceMoves DEF unlockMuHandle, Places
  <2>2. muHandle = e
    BY <1>p, <2>1 DEF PublisherPart
  <2>3. \A f \in Events \ {e} : PublisherPart(f)'
    BY <2>1, <2>2, <1>o DEF Moved
  <2>4. PublisherPart(e)'
    BY <1>p, <2>1 DEF PublisherPart, Moved, At
  <2> QED
    BY <1>q, <2>1, <2>3, <2>4 DEF LastPart
<1>6. ASSUME \/ \E h \in Handlers : subscribe(h) \/ unsubscribe(h)
             \/ \E i \in Items : run(i) \/ HandleEventReturns(i) \/ retire(i)
             \/ UNCHANGED vars
      PROVE  PublisherInv'
  <2>1. UNCHANGED <<publish, muHandle, dispatched>>
    BY <1>6 DEF subscribe, unsubscribe, run, HandleEventReturns, retire, vars
  <2> QED
    BY <2>1 DEF PublisherInv, At
<1> QED
  BY <1>1, <1>2, <1>3, <1>4, <1>5, <1>6 DEF Next, Dispatching

(* The publishers that refer to an item, as one of them takes it up or     *)
(* lets go of it.                                                          *)
LEMMA CaptureStep ==
    ASSUME TypeInv, PublisherInv, CaptureInv, [Next]_vars
    PROVE  CaptureInv'
<1>s. ASSUME NEW i \in Items, Holding(i)' = Holding(i), captures'[i] = captures[i]
      PROVE  captures'[i] = Cardinality(Holding(i)')
  BY <1>s DEF CaptureInv
<1>u. ASSUME NEW e \in Events, \A f \in Events \ {e} : publish'[f] = publish[f],
             UNCHANGED captures,
             publish'[e].todo \cup {publish'[e].item} =
                publish[e].todo \cup {publish[e].item}
      PROVE  CaptureInv'
  <2>1. \A i \in Items : Holding(i)' = Holding(i)
    BY <1>u DEF Holding
  <2> QED
    BY <2>1, <1>u, <1>s DEF CaptureInv
<1>1. ASSUME NEW e \in Events, Publish(e) PROVE CaptureInv'
  <2>1. Moved(e, "lock", subscribed, publish[e].item) /\ At(e, "new")
    BY <1>1, SnapshotMoves DEF Publish, At
  <2>2. publish[e].item = NoItem /\ publish[e].todo = {}
    BY <2>1 DEF PublisherInv, At
  <2>3. ASSUME NEW i \in Items
        PROVE  captures'[i] = Cardinality(Holding(i)')
    <3>0. captures'[i] = IF i \in subscribed THEN captures[i] + 1 ELSE captures[i]
      BY <1>1 DEF Publish
    <3>1. CASE i \in subscribed
      <4>1. e \notin Holding(i)
        BY <2>2, ItemFacts DEF Holding
      <4>2. Holding(i)' = Holding(i) \cup {e}
        BY <2>1, <3>1 DEF Holding, Moved
      <4>3. Cardinality(Holding(i) \cup {e}) = Cardinality(Holding(i)) + 1
        BY <4>1, HoldingFinite, FS_AddElement
      <4> QED
        BY <3>0, <3>1, <4>2, <4>3 DEF CaptureInv
    <3>2. CASE i \notin subscribed
      <4>1. Holding(i)' = Holding(i)
        BY <2>1, <2>2, <3>2, ItemFacts DEF Holding, Moved
      <4> QED
        BY <3>0, <3>2, <4>1, <1>s
    <3> QED
      BY <3>1, <3>2
  <2> QED
    BY <2>3 DEF CaptureInv
<1>2. ASSUME NEW e \in Events, lockMuHandle(e) \/ unlockMuHandle(e) PROVE CaptureInv'
  <2>1. \E p : Moved(e, p, publish[e].todo, publish[e].item)
    BY <1>2, PlaceMoves DEF lockMuHandle, unlockMuHandle, Places
  <2>2. UNCHANGED captures
    BY <1>2 DEF lockMuHandle, unlockMuHandle
  <2> QED
    BY <2>1, <2>2, <1>u DEF Moved
<1>3. ASSUME NEW e \in Events, handleCore(e) \/ dispatch(e) PROVE CaptureInv'
  <2>1. PICK i \in Items : Visiting(e, i)
    BY <1>3, DispatchVisits DEF CoreVisit, AppVisit
  <2>2. publish[e].item = NoItem
    BY <2>1 DEF Visiting, PublisherInv, At
  <2>3. \A j \in Items : Holding(j)' = Holding(j)
    BY <2>1, <2>2, ItemFacts DEF Holding, Visiting, Moved
  <2> QED
    BY <2>1, <2>3, <1>s DEF CaptureInv, Visiting
<1>4. ASSUME NEW e \in Events, releaseCapture(e) PROVE CaptureInv'
  <2>1. Moved(e, "next", publish[e].todo, NoItem)
    BY <1>4, ReleaseMoves
  <2>2. PICK i \in Items : /\ i = publish[e].item
                           /\ captures' = [captures EXCEPT ![i] = @ - 1]
    BY <1>4, Nonnegative
  <2>3. i \notin publish[e].todo
    BY <2>2 DEF PublisherInv
  <2>4. e \in Holding(i) /\ Holding(i)' = Holding(i) \ {e}
    BY <2>1, <2>2, <2>3, ItemFacts DEF Holding, Moved
  <2>5. Cardinality(Holding(i) \ {e}) = Cardinality(Holding(i)) - 1
    BY <2>4, HoldingFinite, FS_RemoveElement
  <2>6. captures'[i] = Cardinality(Holding(i)')
    BY <2>2, <2>4, <2>5 DEF CaptureInv, TypeInv
  <2>7. ASSUME NEW j \in Items \ {i}
        PROVE  captures'[j] = Cardinality(Holding(j)')
    <3>1. Holding(j)' = Holding(j)
      BY <2>1, <2>2, ItemFacts DEF Holding, Moved
    <3>2. captures'[j] = captures[j]
      BY <2>2 DEF TypeInv
    <3> QED
      BY <3>1, <3>2, <1>s
  <2> QED
    BY <2>6, <2>7 DEF CaptureInv
<1>5. ASSUME \/ \E h \in Handlers : subscribe(h) \/ unsubscribe(h)
             \/ \E i \in Items : run(i) \/ HandleEventReturns(i) \/ retire(i)
             \/ UNCHANGED vars
      PROVE  CaptureInv'
  <2>1. UNCHANGED <<publish, captures>>
    BY <1>5 DEF subscribe, unsubscribe, run, HandleEventReturns, retire, vars
  <2> QED
    BY <2>1 DEF CaptureInv, Holding
<1> QED
  BY <1>1, <1>2, <1>3, <1>4, <1>5 DEF Next, Dispatching

-----------------------------------------------------------------------------
LEMMA WorkerStep ==
    ASSUME TypeInv, WorkerInv, [Next]_vars
    PROVE  WorkerInv'
<1>1. ASSUME NEW e \in Events, handleCore(e) \/ dispatch(e) PROVE WorkerInv'
  <2>1. PICK i \in Items : CoreVisit(e, i) \/ AppVisit(e, i)
    BY <1>1, DispatchVisits
  <2>2. CASE CoreVisit(e, i)
    BY <2>2 DEF CoreVisit, WorkerInv
  <2>3. CASE AppVisit(e, i)
    <3>1. pending'[i] = Append(pending[i], e)
          /\ \A j \in Items \ {i} : pending'[j] = pending[j]
      BY <2>3, PendingAppends DEF AppVisit
    <3>2. worker'[i].pc # "none" /\ \A j \in Items \ {i} : worker'[j] = worker[j]
      BY <2>3, WorkerStarts DEF AppVisit, WorkerInv
    <3> QED
      BY <2>3, <3>1, <3>2 DEF AppVisit, WorkerInv
  <2> QED
    BY <2>1, <2>2, <2>3
<1>2. ASSUME NEW i \in Items, run(i) PROVE WorkerInv'
  <2>1. CASE Ends(i)
    <3>1. worker'[i].pc = "none" /\ \A j \in Items \ {i} : worker'[j] = worker[j]
      BY <2>1, WorkerTypes, WorkerMoves DEF Ends
    <3> QED
      BY <2>1, <3>1 DEF Ends, WorkerInv
  <2>2. CASE Takes(i)
    <3>1. worker'[i].pc = "handle" /\ \A j \in Items \ {i} : worker'[j] = worker[j]
      BY <2>2, TakesMoves, WorkerTypes, WorkerMoves DEF Takes
    <3>2. i \in running
      BY <1>2, RunSteps DEF WorkerInv
    <3> QED
      BY <2>2, <3>1, <3>2, TakesMoves DEF Takes, WorkerInv
  <2> QED
    BY <1>2, <2>1, <2>2, RunSteps
<1>3. ASSUME NEW i \in Items, HandleEventReturns(i) PROVE WorkerInv'
  <2>1. worker'[i].pc = "take" /\ \A j \in Items \ {i} : worker'[j] = worker[j]
    BY <1>3, WorkerTypes, WorkerMoves DEF HandleEventReturns
  <2> QED
    BY <1>3, <2>1 DEF HandleEventReturns, WorkerInv
<1>4. ASSUME \/ \E h \in Handlers : subscribe(h) \/ unsubscribe(h)
             \/ \E e \in Events : \/ Publish(e) \/ lockMuHandle(e)
                                  \/ releaseCapture(e) \/ unlockMuHandle(e)
             \/ \E i \in Items : retire(i)
             \/ UNCHANGED vars
      PROVE  WorkerInv'
  <2>1. UNCHANGED <<worker, running, pending>>
    BY <1>4 DEF subscribe, unsubscribe, Publish, lockMuHandle, releaseCapture,
       unlockMuHandle, retire, vars
  <2> QED
    BY <2>1 DEF WorkerInv
<1> QED
  BY <1>1, <1>2, <1>3, <1>4 DEF Next, Dispatching

(* An item that is referred to, busy or has a queue is in the list.        *)
Busy(i) == captures[i] > 0 \/ i \in running \/ pending[i] # <<>>

LEMMA ListStep ==
    ASSUME TypeInv, PublisherInv, CaptureInv, WorkerInv, BusyItemsListed, [Next]_vars
    PROVE  BusyItemsListed'
<1>b. \A i \in Items : Busy(i) => i \in handlers
  BY DEF BusyItemsListed, Busy
<1>l. \A i, j \in handlers : i[1] = j[1] => i = j
  BY DEF BusyItemsListed
<1>q. ASSUME \A i \in Items : Busy(i)' => i \in handlers',
             \A i, j \in handlers' : i[1] = j[1] => i = j
      PROVE  BusyItemsListed'
  BY <1>q DEF BusyItemsListed, Busy
<1>u. ASSUME UNCHANGED handlers, \A i \in Items : Busy(i)' => i \in handlers
      PROVE  BusyItemsListed'
  BY <1>u, <1>l, <1>q
<1>1. ASSUME NEW h \in Handlers, subscribe(h) PROVE BusyItemsListed'
  <2>1. UNCHANGED <<captures, running, pending>>
    BY <1>1 DEF subscribe
  <2>2. \A i \in Items : Busy(i)' => i \in handlers
    BY <2>1, <1>b DEF Busy
  <2>3. CASE UNCHANGED handlers
    BY <2>2, <2>3, <1>u
  <2>4. ASSUME handlers \cap ItemsOf({h}) = {}, NEW i \in ItemsOf({h}),
               handlers' = handlers \cup {i}
        PROVE  BusyItemsListed'
    <3>1. i \in Items /\ i[1] = h /\ \A j \in handlers : j[1] # h
      BY <2>4 DEF ItemsOf, TypeInv
    <3> QED
      BY <2>2, <2>4, <3>1, <1>l, <1>q
  <2> QED
    BY <1>1, <2>3, <2>4 DEF subscribe
<1>r. ASSUME NEW i, NEW subs, NEW caps, retireLocked(i, subs, caps),
             caps[i] = captures'[i], UNCHANGED <<running, pending>>,
             \A j \in Items : captures'[j] <= captures[j], captures' \in [Items -> Nat]
      PROVE  BusyItemsListed'
  <2>1. \A j \in Items : Busy(j)' => Busy(j)
    BY <1>r DEF Busy, TypeInv
  <2>2. \/ handlers' = handlers
        \/ /\ handlers' = handlers \ {i}
           /\ captures'[i] = 0 /\ i \notin running' /\ pending'[i] = <<>>
    BY <1>r, RetireTakes
  <2>3. \A j \in Items : Busy(j)' => j \in handlers'
    BY <2>1, <2>2, <1>b DEF Busy
  <2> QED
    BY <2>2, <2>3, <1>l, <1>q
<1>2. ASSUME NEW h \in Handlers, unsubscribe(h) PROVE BusyItemsListed'
  <2>1. PICK i, subs : retireLocked(i, subs, captures)
    BY <1>2 DEF unsubscribe
  <2>2. UNCHANGED <<captures, running, pending>>
    BY <1>2 DEF unsubscribe
  <2>3. /\ \A j \in Items : captures'[j] <= captures[j]
        /\ captures' \in [Items -> Nat]
    BY <2>2 DEF TypeInv
  <2> QED
    BY <2>1, <2>2, <2>3, <1>r
<1>3. ASSUME NEW e \in Events, Publish(e) PROVE BusyItemsListed'
  <2>1. UNCHANGED <<handlers, running, pending>>
    BY <1>3 DEF Publish
  <2>2. \A i \in Items : captures'[i] = IF i \in subscribed THEN captures[i] + 1
                                                           ELSE captures[i]
    BY <1>3 DEF Publish
  <2>3. \A i \in Items : Busy(i)' => i \in handlers
    BY <2>1, <2>2, <1>b DEF Busy, TypeInv
  <2> QED
    BY <2>1, <2>3, <1>u
<1>4. ASSUME NEW e \in Events, handleCore(e) \/ dispatch(e) PROVE BusyItemsListed'
  <2>1. PICK i \in Items : CoreVisit(e, i) \/ AppVisit(e, i)
    BY <1>4, DispatchVisits
  <2>2. i \in handlers
    <3>1. e \in Holding(i)
      BY <2>1 DEF Holding, CoreVisit, AppVisit, Visiting
    <3>2. captures[i] > 0
      BY <3>1, HoldingFinite DEF CaptureInv
    <3> QED
      BY <3>2, <1>b DEF Busy
  <2>3. UNCHANGED <<handlers, captures>>
    BY <2>1 DEF CoreVisit, AppVisit, Visiting
  <2>4. \A j \in Items \ {i} : Busy(j)' => Busy(j)
    <3>1. CASE CoreVisit(e, i)
      BY <2>3, <3>1 DEF CoreVisit, Busy
    <3>2. CASE AppVisit(e, i)
      <4>1. \A j \in Items \ {i} : pending'[j] = pending[j]
        BY <3>2, PendingAppends DEF AppVisit
      <4> QED
        BY <2>3, <3>2, <4>1 DEF AppVisit, Busy
    <3> QED
      BY <2>1, <3>1, <3>2
  <2> QED
    BY <2>2, <2>3, <2>4, <1>b, <1>u
<1>5. ASSUME NEW e \in Events, releaseCapture(e) PROVE BusyItemsListed'
  <2>1. PICK i \in Items : /\ i = publish[e].item
                           /\ captures' = [captures EXCEPT ![i] = @ - 1]
                           /\ captures' \in [Items -> Nat]
    BY <1>5, Nonnegative
  <2>2. retireLocked(i, subscribed, captures') /\ UNCHANGED <<running, pending>>
    BY <1>5, <2>1 DEF releaseCapture
  <2>3. \A j \in Items : captures'[j] <= captures[j]
    BY <2>1 DEF TypeInv
  <2> QED
    BY <2>1, <2>2, <2>3, <1>r
<1>6. ASSUME NEW i \in Items, run(i) PROVE BusyItemsListed'
  <2>1. UNCHANGED <<handlers, captures>>
    BY <1>6, RunSteps
  <2>2. \A j \in Items : Busy(j)' => Busy(j)
    <3>1. CASE Ends(i)
      BY <2>1, <3>1 DEF Ends, Busy
    <3>2. CASE Takes(i)
      BY <2>1, <3>2, TakesMoves DEF Takes, Busy
    <3> QED
      BY <1>6, <3>1, <3>2, RunSteps
  <2> QED
    BY <2>1, <2>2, <1>b, <1>u
<1>7. ASSUME NEW i \in Items, retire(i) PROVE BusyItemsListed'
  <2>1. retireLocked(i, subscribed, captures) /\ UNCHANGED <<captures, running, pending>>
    BY <1>7 DEF retire
  <2>2. /\ \A j \in Items : captures'[j] <= captures[j]
        /\ captures' \in [Items -> Nat]
    BY <2>1 DEF TypeInv
  <2> QED
    BY <2>1, <2>2, <1>r
<1>8. ASSUME \/ \E e \in Events : lockMuHandle(e) \/ unlockMuHandle(e)
             \/ \E i \in Items : HandleEventReturns(i)
             \/ UNCHANGED vars
      PROVE  BusyItemsListed'
  <2>1. UNCHANGED <<handlers, captures, running, pending>>
    BY <1>8 DEF lockMuHandle, unlockMuHandle, HandleEventReturns, vars
  <2> QED
    BY <2>1, <1>b, <1>u DEF Busy
<1> QED
  BY <1>1, <1>2, <1>3, <1>4, <1>5, <1>6, <1>7, <1>8 DEF Next, Dispatching

-----------------------------------------------------------------------------
(* StreamInv by handler and item.                                          *)
LogPart(h) == Stream(log[h]) /\ Sorted(dispatched, log[h])
QueuePart(i) == /\ Stream(pending[i]) /\ Sorted(dispatched, pending[i])
                /\ Ahead(dispatched, log[i[1]], pending[i])
SeenPart == /\ \A e \in Events, h \in Handlers : Seen(e, h) => e \in ToSet(dispatched)
            /\ \A e \in Events : \A i \in publish[e].todo : ~Seen(e, i[1])

LEMMA EmptyStream ==
    /\ ToSet(<<>>) = {}
    /\ Stream(<<>>)
    /\ \A d : Sorted(d, <<>>)
    /\ \A d, s : Ahead(d, s, <<>>)
BY DEF ToSet, Stream, IsInjective, Sorted, Ahead

LEMMA SeenIn ==
    ASSUME StreamInv, TypeInv
    PROVE  /\ \A h \in Handlers : ToSet(log[h]) \subseteq ToSet(dispatched)
           /\ \A i \in Items : ToSet(pending[i]) \subseteq ToSet(dispatched)
           /\ \A i \in Items : i[1] \in Handlers
           /\ \A h \in Handlers : ToSet(log[h]) \subseteq Events
           /\ \A i \in Items : ToSet(pending[i]) \subseteq Events
<1>1. \A i \in Items : i[1] \in Handlers
  BY ItemFacts
<1>2. \A h \in Handlers : ToSet(log[h]) \subseteq Events
  BY DEF TypeInv, ToSet
<1>3. \A i \in Items : ToSet(pending[i]) \subseteq Events
  BY DEF TypeInv, ToSet
<1> QED
  BY <1>1, <1>2, <1>3 DEF StreamInv, Seen

(* With a queue, an item is the only one of its handler that has one.      *)
LEMMA OneQueue ==
    ASSUME TypeInv, WorkerInv, BusyItemsListed, NEW i \in Items,
           i \in handlers \/ i[1] \notin Apps,
           NEW j \in Items \ {i}, j[1] = i[1]
    PROVE  pending[j] = <<>>
<1>1. CASE i[1] \notin Apps
  <2>1. j \notin running
    BY <1>1, ItemFacts DEF TypeInv
  <2> QED
    BY <2>1 DEF WorkerInv
<1>2. CASE i \in handlers
  BY <1>2 DEF BusyItemsListed
<1> QED
  BY <1>1, <1>2

LEMMA StreamStep ==
    ASSUME TypeInv, PublisherInv, CaptureInv, WorkerInv, BusyItemsListed,
           StreamInv, [Next]_vars
    PROVE  StreamInv'
<1>p. /\ Stream(dispatched) /\ dispatched \in Seq(Events)
      /\ \A h \in Handlers : LogPart(h)
      /\ \A i \in Items : QueuePart(i)
      /\ SeenPart
  BY DEF StreamInv, LogPart, QueuePart, SeenPart, TypeInv
<1>q. ASSUME Stream(dispatched'), \A h \in Handlers : LogPart(h)',
             \A i \in Items : QueuePart(i)', SeenPart'
      PROVE  StreamInv'
  BY <1>q DEF StreamInv, LogPart, QueuePart, SeenPart
<1>u. ASSUME UNCHANGED <<dispatched, log, pending>>,
             \A e \in Events : \A i \in publish'[e].todo :
                i \in publish[e].todo \/ ~Seen(e, i[1])
      PROVE  StreamInv'
  <2>1. \A e, h : Seen(e, h)' <=> Seen(e, h)
    BY <1>u DEF Seen
  <2> QED
    BY <1>p, <1>q, <1>u, <2>1 DEF LogPart, QueuePart, SeenPart
<1>1. ASSUME NEW e \in Events, Publish(e) PROVE StreamInv'
  <2>1. Moved(e, "lock", subscribed, publish[e].item) /\ At(e, "new")
        /\ UNCHANGED <<dispatched, log, pending>>
    BY <1>1, SnapshotMoves DEF Publish, At
  <2>2. \A h \in Handlers : ~Seen(e, h)
    BY <2>1, <1>p DEF PublisherInv, SeenPart
  <2>3. \A i \in subscribed : i[1] \in Handlers
    BY ItemFacts DEF TypeInv
  <2>4. \A f \in Events : \A i \in publish'[f].todo :
           i \in publish[f].todo \/ ~Seen(f, i[1])
    BY <2>1, <2>2, <2>3 DEF Moved
  <2> QED
    BY <2>1, <2>4, <1>u
<1>2. ASSUME NEW e \in Events, lockMuHandle(e) PROVE StreamInv'
  <2>1. Moved(e, "next", publish[e].todo, publish[e].item) /\ At(e, "lock")
        /\ dispatched' = Append(dispatched, e) /\ UNCHANGED <<log, pending>>
    BY <1>2, PlaceMoves DEF lockMuHandle, Places, At
  <2>2. e \notin ToSet(dispatched)
    BY <2>1 DEF PublisherInv
  <2>3. Stream(dispatched') /\ ToSet(dispatched') = ToSet(dispatched) \cup {e}
    BY <2>1, <2>2, <1>p, AppendEvent
  <2>4. ASSUME NEW h \in Handlers PROVE LogPart(h)'
    BY <2>1, <2>2, <1>p, SeenIn, SortedKept DEF LogPart
  <2>5. ASSUME NEW i \in Items PROVE QueuePart(i)'
    <3>1. /\ ToSet(log[i[1]]) \subseteq ToSet(dispatched)
          /\ ToSet(pending[i]) \subseteq ToSet(dispatched)
      BY SeenIn
    <3>2. Sorted(dispatched', pending[i])
      BY <2>1, <2>2, <3>1, <1>p, SortedKept DEF QueuePart
    <3>3. Ahead(dispatched', log[i[1]], pending[i])
      BY <2>1, <2>2, <3>1, <1>p, SortedKept DEF QueuePart
    <3> QED
      BY <2>1, <3>2, <3>3, <1>p DEF QueuePart
  <2>6. SeenPart'
    <3>1. \A f, h : Seen(f, h)' <=> Seen(f, h)
      BY <2>1 DEF Seen
    <3>2. \A f \in Events : publish'[f].todo = publish[f].todo
      BY <2>1 DEF Moved
    <3> QED
      BY <2>3, <3>1, <3>2, <1>p DEF SeenPart
  <2> QED
    BY <2>3, <2>4, <2>5, <2>6, <1>q
<1>v. ASSUME NEW e \in Events, NEW i \in Items, Visiting(e, i),
             \A f \in Events, h \in Handlers :
                Seen(f, h)' => Seen(f, h) \/ (f = e /\ h = i[1])
      PROVE  SeenPart'
  <2>1. e \in ToSet(dispatched) /\ UNCHANGED dispatched
    BY <1>v, <1>p, PosLast DEF Visiting
  <2>2. \A f \in Events, h \in Handlers : Seen(f, h)' => f \in ToSet(dispatched)'
    BY <1>v, <2>1, <1>p DEF SeenPart
  <2>3. \A j \in publish[e].todo \ {i} : j[1] # i[1]
    BY <1>v DEF PublisherInv, Visiting
  <2>4. \A f \in Events : \A j \in publish'[f].todo :
           j \in publish[f].todo /\ (f = e => j[1] # i[1])
    BY <1>v, <2>3 DEF Visiting, Moved
  <2>5. \A f \in Events : \A j \in publish[f].todo : j \in Items /\ j[1] \in Handlers
    BY PublishFields, ItemFacts
  <2>6. \A f \in Events : \A j \in publish'[f].todo : ~Seen(f, j[1])'
    BY <1>v, <2>4, <2>5, <1>p DEF SeenPart
  <2> QED
    BY <2>2, <2>6 DEF SeenPart
<1>3. ASSUME NEW e \in Events, NEW i \in Items, CoreVisit(e, i) PROVE StreamInv'
  <2> DEFINE h == i[1]
  <2>1. /\ h \in Handlers /\ h \notin Apps
        /\ At(e, "next") /\ ~Seen(e, h)
        /\ UNCHANGED <<dispatched, pending>>
    BY <1>3, <1>p, ItemFacts DEF CoreVisit, Visiting, SeenPart
  <2>2. /\ log'[h] = Append(log[h], e)
        /\ \A g \in Handlers \ {h} : log'[g] = log[g]
        /\ log[h] \in Seq(Events)
    BY <1>3, <2>1, LogAppends DEF CoreVisit, TypeInv
  <2>3. e \notin ToSet(log[h]) /\ ToSet(log[h]) \subseteq ToSet(dispatched)
    BY <2>1, SeenIn DEF Seen
  <2>4. ToSet(log'[h]) = ToSet(log[h]) \cup {e} /\ Stream(log'[h])
    BY <2>1, <2>2, <2>3, <1>p, AppendEvent DEF LogPart
  <2>5. Sorted(dispatched, log'[h])
    <3>1. \A f \in ToSet(log[h]) : Pos(dispatched, f) < Pos(dispatched, e)
      BY <2>1, <2>3, <1>p, PosLast
    <3> QED
      BY <2>1, <2>2, <3>1, <1>p, SortedAppend DEF LogPart
  <2>6. ASSUME NEW g \in Handlers PROVE LogPart(g)'
    BY <2>1, <2>2, <2>4, <2>5, <1>p DEF LogPart
  <2>7. ASSUME NEW j \in Items PROVE QueuePart(j)'
    <3>1. CASE j[1] # h
      <4>1. j[1] \in Handlers
        BY ItemFacts
      <4> QED
        BY <2>1, <2>2, <3>1, <4>1, <1>p DEF QueuePart
    <3>2. CASE j[1] = h
      <4>1. j \notin running
        BY <2>1, <3>2, ItemFacts DEF TypeInv
      <4>2. pending'[j] = <<>>
        BY <2>1, <4>1 DEF WorkerInv
      <4> QED
        BY <4>2, EmptyStream DEF QueuePart
    <3> QED
      BY <3>1, <3>2
  <2>8. \A f \in Events, g \in Handlers : Seen(f, g)' => Seen(f, g) \/ (f = e /\ g = h)
    BY <2>1, <2>2, <2>4 DEF Seen
  <2>9. SeenPart'
    BY <1>3, <2>8, <1>v DEF CoreVisit
  <2> QED
    BY <2>1, <2>6, <2>7, <2>9, <1>p, <1>q
<1>4. ASSUME NEW e \in Events, NEW i \in Items, AppVisit(e, i) PROVE StreamInv'
  <2>1. /\ i[1] \in Handlers /\ At(e, "next") /\ ~Seen(e, i[1])
        /\ UNCHANGED <<dispatched, log>>
    BY <1>4, <1>p, ItemFacts DEF AppVisit, Visiting, SeenPart
  <2>2. /\ pending'[i] = Append(pending[i], e)
        /\ \A j \in Items \ {i} : pending'[j] = pending[j]
        /\ pending[i] \in Seq(Events)
    BY <1>4, PendingAppends DEF AppVisit, TypeInv
  <2>3. /\ e \notin ToSet(pending[i]) /\ e \notin ToSet(log[i[1]])
        /\ ToSet(pending[i]) \subseteq ToSet(dispatched)
        /\ ToSet(log[i[1]]) \subseteq ToSet(dispatched)
    BY <2>1, SeenIn DEF Seen
  <2>4. ToSet(pending'[i]) = ToSet(pending[i]) \cup {e} /\ Stream(pending'[i])
    BY <2>2, <2>3, <1>p, AppendEvent DEF QueuePart
  <2>5. \A f \in ToSet(dispatched) \ {e} : Pos(dispatched, f) < Pos(dispatched, e)
    BY <2>1, <1>p, PosLast
  <2>6. Sorted(dispatched, pending'[i])
    BY <2>2, <2>3, <2>5, <1>p, SortedAppend DEF QueuePart
  <2>7. Ahead(dispatched, log[i[1]], pending'[i])
    BY <2>3, <2>4, <2>5, <1>p DEF QueuePart, Ahead
  <2>8. ASSUME NEW j \in Items PROVE QueuePart(j)'
    BY <2>1, <2>2, <2>4, <2>6, <2>7, <1>p DEF QueuePart
  <2>9. ASSUME NEW g \in Handlers PROVE LogPart(g)'
    BY <2>1, <1>p DEF LogPart
  <2>10. \A f \in Events, g \in Handlers :
            Seen(f, g)' => Seen(f, g) \/ (f = e /\ g = i[1])
    BY <2>1, <2>2, <2>4 DEF Seen
  <2>11. SeenPart'
    BY <1>4, <2>10, <1>v DEF AppVisit
  <2> QED
    BY <2>1, <2>8, <2>9, <2>11, <1>p, <1>q
<1>5. ASSUME NEW i \in Items, run(i), Takes(i) PROVE StreamInv'
  <2>1. PICK x \in Events, h \in Handlers : x = Head(pending[i]) /\ h = i[1]
    BY <1>5, TakesMoves, ItemFacts
  <2>2. /\ UNCHANGED <<dispatched, publish>> /\ pending[i] # <<>>
        /\ pending'[i] = Tail(pending[i])
        /\ \A j \in Items \ {i} : pending'[j] = pending[j]
        /\ log'[h] = Append(log[h], x)
        /\ \A g \in Handlers \ {h} : log'[g] = log[g]
        /\ pending[i] \in Seq(Events) /\ log[h] \in Seq(Events)
    BY <1>5, <2>1, TakesMoves, RunSteps DEF Takes
  <2>3. /\ x \in ToSet(pending[i])
        /\ ToSet(pending'[i]) \subseteq ToSet(pending[i])
        /\ Stream(pending'[i])
    BY <2>1, <2>2, <1>p, TailEvent DEF QueuePart
  <2>4. \A f \in ToSet(log[h]) : Pos(dispatched, f) < Pos(dispatched, x)
    BY <2>1, <2>3, <1>p DEF QueuePart, Ahead
  <2>5. x \notin ToSet(log[h])
    <3>1. Pos(dispatched, x) \in Int
      BY <2>3, SeenIn, PosIn, <1>p
    <3> QED
      BY <2>4, <3>1
  <2>6. ToSet(log'[h]) = ToSet(log[h]) \cup {x} /\ Stream(log'[h])
    BY <2>2, <2>5, <1>p, AppendEvent DEF LogPart
  <2>7. Sorted(dispatched, log'[h])
    BY <2>2, <2>4, <1>p, SortedAppend DEF LogPart
  <2>8. Sorted(dispatched, pending'[i])
        /\ \A f \in ToSet(pending'[i]) : Pos(dispatched, x) < Pos(dispatched, f)
    BY <2>1, <2>2, <1>p, SortedTail DEF QueuePart
  <2>9. Ahead(dispatched, log'[h], pending'[i])
    BY <2>1, <2>3, <2>6, <2>8, <1>p DEF QueuePart, Ahead
  <2>10. ASSUME NEW g \in Handlers PROVE LogPart(g)'
    BY <2>2, <2>6, <2>7, <1>p DEF LogPart
  <2>11. ASSUME NEW j \in Items PROVE QueuePart(j)'
    <3>1. CASE j = i
      BY <2>1, <2>2, <2>3, <2>8, <2>9, <3>1 DEF QueuePart
    <3>2. CASE j # i /\ j[1] = h
      <4>1. i \in handlers
        BY <2>2 DEF BusyItemsListed
      <4>2. pending'[j] = <<>>
        BY <2>1, <2>2, <3>2, <4>1, OneQueue
      <4> QED
        BY <4>2, EmptyStream DEF QueuePart
    <3>3. CASE j # i /\ j[1] # h
      <4>1. j[1] \in Handlers
        BY ItemFacts
      <4> QED
        BY <2>2, <3>3, <4>1, <1>p DEF QueuePart
    <3> QED
      BY <3>1, <3>2, <3>3
  <2>12. \A f \in Events, g \in Handlers : Seen(f, g)' => Seen(f, g)
    BY <2>1, <2>2, <2>3, <2>6 DEF Seen
  <2>13. SeenPart'
    <3>1. \A f \in Events : \A j \in publish[f].todo : j[1] \in Handlers
      BY PublishFields, ItemFacts
    <3> QED
      BY <2>2, <2>12, <3>1, <1>p DEF SeenPart
  <2> QED
    BY <2>2, <2>10, <2>11, <2>13, <1>p, <1>q
<1>6. ASSUME NEW e \in Events, releaseCapture(e) \/ unlockMuHandle(e) PROVE StreamInv'
  <2>1. \E p, x : Moved(e, p, publish[e].todo, x)
    BY <1>6, ReleaseMoves, PlaceMoves DEF unlockMuHandle, Places
  <2>2. UNCHANGED <<dispatched, log, pending>>
    BY <1>6 DEF releaseCapture, unlockMuHandle
  <2> QED
    BY <2>1, <2>2, <1>u DEF Moved
<1>7. ASSUME \/ \E h \in Handlers : subscribe(h) \/ unsubscribe(h)
             \/ \E i \in Items : \/ run(i) /\ Ends(i)
                                 \/ HandleEventReturns(i)
                                 \/ retire(i)
             \/ UNCHANGED vars
      PROVE  StreamInv'
  <2>1. UNCHANGED <<dispatched, log, pending, publish>>
    BY <1>7, RunSteps DEF subscribe, unsubscribe, Ends, HandleEventReturns, retire, vars
  <2> QED
    BY <2>1, <1>u
<1>8. ASSUME NEW e \in Events, handleCore(e) \/ dispatch(e) PROVE StreamInv'
  BY <1>8, <1>3, <1>4, DispatchVisits
<1> QED
  BY <1>1, <1>2, <1>5, <1>6, <1>7, <1>8, RunSteps DEF Next, Dispatching

-----------------------------------------------------------------------------
LEMMA CoreStep ==
    ASSUME TypeInv, PublisherInv, StreamInv, CoreInv, [Next]_vars
    PROVE  CoreInv'
<1> DEFINE Free(e) == (publish[e].todo \cup {publish[e].item}) \cap ItemsOf(Core) = {}
<1>n. NoItem \notin ItemsOf(Core) /\ Apps \subseteq Handlers
  BY ItemsAssumption DEF ItemsOf, Handlers
<1>u. ASSUME \A e \in Events, h \in Apps : Seen(e, h)' => Seen(e, h),
             \A e \in Events :
                \/ publish'[e].todo \cup {publish'[e].item} \subseteq
                      publish[e].todo \cup {publish[e].item, NoItem}
                \/ \A h \in Apps : ~Seen(e, h)
      PROVE  CoreInv'
  BY <1>u, <1>n DEF CoreInv
<1>1. ASSUME NEW e \in Events, Publish(e) PROVE CoreInv'
  <2>1. Moved(e, "lock", subscribed, publish[e].item) /\ At(e, "new")
        /\ UNCHANGED <<log, pending>>
    BY <1>1, SnapshotMoves DEF Publish, At
  <2>2. \A h \in Apps : ~Seen(e, h)
    BY <2>1, <1>n DEF PublisherInv, StreamInv
  <2>3. \A f, h : Seen(f, h)' <=> Seen(f, h)
    BY <2>1 DEF Seen
  <2> QED
    BY <2>1, <2>2, <2>3, <1>u DEF Moved
<1>2. ASSUME NEW e \in Events,
             lockMuHandle(e) \/ releaseCapture(e) \/ unlockMuHandle(e)
      PROVE  CoreInv'
  <2>1. \E p : \E x \in {publish[e].item, NoItem} : Moved(e, p, publish[e].todo, x)
    BY <1>2, ReleaseMoves, PlaceMoves DEF lockMuHandle, unlockMuHandle, Places
  <2>2. UNCHANGED <<log, pending>>
    BY <1>2 DEF lockMuHandle, releaseCapture, unlockMuHandle
  <2>3. \A f, h : Seen(f, h)' <=> Seen(f, h)
    BY <2>2 DEF Seen
  <2> QED
    BY <2>1, <2>3, <1>u DEF Moved
<1>3. ASSUME NEW e \in Events, NEW i \in Items, CoreVisit(e, i) PROVE CoreInv'
  <2>1. i[1] \in Handlers /\ i[1] \notin Apps /\ i \in ItemsOf(Core)
        /\ i \in publish[e].todo /\ UNCHANGED pending
    BY <1>3, ItemFacts DEF CoreVisit, Visiting
  <2>2. \A h \in Apps : log'[h] = log[h]
    BY <1>3, <1>n, <2>1, LogAppends DEF CoreVisit
  <2>3. \A f \in Events, h \in Apps : Seen(f, h)' => Seen(f, h)
    BY <2>1, <2>2 DEF Seen
  <2>4. \A h \in Apps : ~Seen(e, h)
    BY <2>1 DEF CoreInv
  <2> QED
    BY <1>3, <2>3, <2>4, <1>u DEF CoreVisit, Visiting, Moved
<1>4. ASSUME NEW e \in Events, NEW i \in Items, AppVisit(e, i) PROVE CoreInv'
  <2>1. /\ pending'[i] = Append(pending[i], e)
        /\ \A j \in Items \ {i} : pending'[j] = pending[j]
        /\ pending[i] \in Seq(Events) /\ UNCHANGED log
    BY <1>4, PendingAppends DEF AppVisit, TypeInv
  <2>2. ToSet(pending'[i]) = ToSet(pending[i]) \cup {e}
    BY <2>1, AppendEvent
  <2>3. \A f \in Events \ {e}, h \in Apps : Seen(f, h)' => Seen(f, h)
    BY <2>1, <2>2 DEF Seen
  <2>4. (publish'[e].todo \cup {publish'[e].item}) \cap ItemsOf(Core) = {}
    BY <1>4, ItemFacts DEF AppVisit, Visiting, Moved
  <2>5. \A f \in Events \ {e} : publish'[f] = publish[f]
    BY <1>4 DEF AppVisit, Visiting, Moved
  <2> QED
    BY <2>3, <2>4, <2>5 DEF CoreInv
<1>5. ASSUME NEW i \in Items, run(i), Takes(i) PROVE CoreInv'
  <2>1. PICK x \in Events, g \in Handlers : x = Head(pending[i]) /\ g = i[1]
    BY <1>5, TakesMoves, ItemFacts
  <2>2. /\ UNCHANGED publish /\ x \in ToSet(pending[i])
        /\ ToSet(pending'[i]) \subseteq ToSet(pending[i])
        /\ \A j \in Items \ {i} : pending'[j] = pending[j]
        /\ ToSet(log'[g]) = ToSet(log[g]) \cup {x}
        /\ \A h \in Handlers \ {g} : log'[h] = log[h]
    <3>1. /\ pending[i] # <<>> /\ pending[i] \in Seq(Events) /\ log[g] \in Seq(Events)
          /\ pending'[i] = Tail(pending[i]) /\ log'[g] = Append(log[g], x)
          /\ UNCHANGED publish
          /\ \A j \in Items \ {i} : pending'[j] = pending[j]
          /\ \A h \in Handlers \ {g} : log'[h] = log[h]
      BY <1>5, <2>1, TakesMoves, RunSteps DEF Takes
    <3>2. ToSet(log'[g]) = ToSet(log[g]) \cup {x}
      BY <3>1, AppendEvent
    <3> QED
      BY <2>1, <3>1, <3>2, TailEvent
  <2>3. \A f \in Events, h \in Handlers : Seen(f, h)' => Seen(f, h)
    BY <2>1, <2>2 DEF Seen
  <2> QED
    BY <2>2, <2>3, <1>n, <1>u
<1>6. ASSUME \/ \E h \in Handlers : subscribe(h) \/ unsubscribe(h)
             \/ \E i \in Items : \/ run(i) /\ Ends(i)
                                 \/ HandleEventReturns(i)
                                 \/ retire(i)
             \/ UNCHANGED vars
      PROVE  CoreInv'
  <2>1. UNCHANGED <<log, pending, publish>>
    BY <1>6, RunSteps DEF subscribe, unsubscribe, Ends, HandleEventReturns, retire, vars
  <2>2. \A f, h : Seen(f, h)' <=> Seen(f, h)
    BY <2>1 DEF Seen
  <2> QED
    BY <2>1, <2>2, <1>u
<1>7. ASSUME NEW e \in Events, handleCore(e) \/ dispatch(e) PROVE CoreInv'
  BY <1>7, <1>3, <1>4, DispatchVisits
<1> QED
  BY <1>1, <1>2, <1>5, <1>6, <1>7, RunSteps DEF Next, Dispatching

LEMMA RetireStep ==
    ASSUME TypeInv, WorkerInv, RetireInv, [Next]_vars
    PROVE  RetireInv'
<1> DEFINE Part(i) == /\ retiring[i] <= Len(log[i[1]])
                      /\ i \in running /\ pending[i] = <<>>
                            => retiring[i] + 1 <= Len(log[i[1]])
<1>t. \A i \in Items : /\ i[1] \in Handlers
                       /\ retiring[i] \in Nat /\ Len(log[i[1]]) \in Nat
  BY ItemFacts DEF TypeInv
<1>u. ASSUME \A i \in Items : /\ retiring'[i] = retiring[i]
                              /\ Len(log'[i[1]]) \in Nat
                              /\ Len(log[i[1]]) <= Len(log'[i[1]])
                              /\ i \in running' /\ pending'[i] = <<>>
                                   => i \in running /\ pending[i] = <<>>
      PROVE  RetireInv'
  BY <1>t, <1>u DEF RetireInv
<1>1. ASSUME NEW e \in Events, NEW i \in Items, CoreVisit(e, i) PROVE RetireInv'
  <2>1. PICK g \in Handlers : g = i[1]
    BY ItemFacts
  <2>2. /\ log'[g] = Append(log[g], e) /\ log[g] \in Seq(Events)
        /\ \A h \in Handlers \ {g} : log'[h] = log[h]
    BY <1>1, <2>1, LogAppends DEF CoreVisit, TypeInv
  <2>3. Len(log'[g]) = Len(log[g]) + 1
    BY <2>2
  <2>4. \A j \in Items : /\ Len(log'[j[1]]) \in Nat
                         /\ Len(log[j[1]]) <= Len(log'[j[1]])
    BY <1>t, <2>1, <2>2, <2>3
  <2>5. UNCHANGED <<running, pending, retiring>>
    BY <1>1 DEF CoreVisit, Visiting
  <2> QED
    BY <2>4, <2>5, <1>u
<1>2. ASSUME NEW e \in Events, NEW i \in Items, AppVisit(e, i) PROVE RetireInv'
  <2>1. /\ pending'[i] = Append(pending[i], e)
        /\ \A j \in Items \ {i} : pending'[j] = pending[j]
        /\ pending[i] \in Seq(Events)
    BY <1>2, PendingAppends DEF AppVisit, TypeInv
  <2>2. pending'[i] # <<>>
    BY <2>1, AppendEvent
  <2>3. running' = running \cup {i} /\ UNCHANGED <<log, retiring>>
    BY <1>2 DEF AppVisit, Visiting
  <2> QED
    BY <2>1, <2>2, <2>3, <1>t, <1>u
<1>3. ASSUME NEW i \in Items, run(i), Takes(i) PROVE RetireInv'
  <2>1. PICK x \in Events, g \in Handlers : x = Head(pending[i]) /\ g = i[1]
    BY <1>3, TakesMoves, ItemFacts
  <2>2. /\ log'[g] = Append(log[g], x) /\ log[g] \in Seq(Events)
        /\ \A h \in Handlers \ {g} : log'[h] = log[h]
        /\ \A j \in Items \ {i} : pending'[j] = pending[j]
        /\ UNCHANGED <<running, retiring>>
    BY <1>3, <2>1, TakesMoves DEF Takes
  <2>3. Len(log'[g]) = Len(log[g]) + 1 /\ Len(log[g]) \in Nat
    BY <2>2
  <2>4. \A j \in Items : /\ Len(log'[j[1]]) \in Nat
                         /\ Len(log[j[1]]) <= Len(log'[j[1]])
    BY <1>t, <2>2, <2>3
  <2>5. ASSUME NEW j \in Items
        PROVE  /\ retiring'[j] <= Len(log'[j[1]])
               /\ j \in running' /\ pending'[j] = <<>>
                     => retiring'[j] + 1 <= Len(log'[j[1]])
    <3>1. CASE j = i
      BY <1>t, <2>1, <2>2, <2>3, <3>1 DEF RetireInv
    <3>2. CASE j # i
      <4>1. retiring[j] <= Len(log[j[1]])
            /\ (j \in running /\ pending[j] = <<>> => retiring[j] + 1 <= Len(log[j[1]]))
        BY DEF RetireInv
      <4> QED
        BY <1>t, <2>2, <2>4, <3>2, <4>1
    <3> QED
      BY <3>1, <3>2
  <2> QED
    BY <2>5 DEF RetireInv
<1>4. ASSUME NEW i \in Items, run(i), Ends(i) PROVE RetireInv'
  <2>1. /\ pending[i] = <<>> /\ running' = running \ {i}
        /\ retiring'[i] = retiring[i] + 1
        /\ \A j \in Items \ {i} : retiring'[j] = retiring[j]
        /\ UNCHANGED <<pending, log>>
    BY <1>4 DEF Ends, TypeInv
  <2>2. i \in running
    BY <1>4, RunSteps DEF WorkerInv
  <2> QED
    BY <2>1, <2>2, <1>t DEF RetireInv
<1>5. ASSUME NEW i \in Items, retire(i) PROVE RetireInv'
  <2>1. /\ retiring'[i] = retiring[i] - 1
        /\ \A j \in Items \ {i} : retiring'[j] = retiring[j]
        /\ UNCHANGED <<pending, log, running>>
    BY <1>5 DEF retire, TypeInv
  <2>2. \A j \in Items : retiring'[j] \in Int /\ retiring'[j] <= retiring[j]
    BY <2>1, <1>t
  <2> QED
    BY <2>1, <2>2, <1>t DEF RetireInv
<1>6. ASSUME \/ \E h \in Handlers : subscribe(h) \/ unsubscribe(h)
             \/ \E e \in Events : \/ Publish(e) \/ lockMuHandle(e)
                                  \/ releaseCapture(e) \/ unlockMuHandle(e)
             \/ \E i \in Items : HandleEventReturns(i)
             \/ UNCHANGED vars
      PROVE  RetireInv'
  <2>1. UNCHANGED <<running, pending, retiring, log>>
    BY <1>6 DEF subscribe, unsubscribe, Publish, lockMuHandle, releaseCapture,
       unlockMuHandle, HandleEventReturns, vars
  <2> QED
    BY <2>1 DEF RetireInv
<1>7. ASSUME NEW e \in Events, handleCore(e) \/ dispatch(e) PROVE RetireInv'
  BY <1>7, <1>1, <1>2, DispatchVisits
<1> QED
  BY <1>3, <1>4, <1>5, <1>6, <1>7, RunSteps DEF Next, Dispatching

-----------------------------------------------------------------------------
LEMMA InitInvariant == Init => IInv
<1> SUFFICES ASSUME Init PROVE IInv
  OBVIOUS
<1>1. TypeInv
  <2>1. [pc |-> "new", todo |-> {}, item |-> NoItem] \in PublishStates
    BY DEF PublishStates, Places
  <2>2. <<>> \in Seq(Events) /\ 0 \in Nat
    OBVIOUS
  <2> QED
    BY <2>1, <2>2, WorkerTypes DEF Init, TypeInv
<1>2. PublisherInv
  BY EventsAssumption, EmptyStream DEF Init, PublisherInv, At
<1>3. CaptureInv
  <2>1. ASSUME NEW i \in Items PROVE captures[i] = Cardinality(Holding(i))
    <3>1. Holding(i) = {}
      BY ItemFacts DEF Init, Holding
    <3>2. captures[i] = 0
      BY DEF Init
    <3> QED
      BY <3>1, <3>2, FS_EmptySet
  <2> QED
    BY <2>1 DEF CaptureInv
<1>4. WorkerInv
  BY WorkerTypes DEF Init, WorkerInv
<1>5. BusyItemsListed
  BY DEF Init, BusyItemsListed
<1>6. \A e, h : ~Seen(e, h) \/ h \notin Handlers
  BY EmptyStream DEF Init, Seen
<1>7. \A i \in Items : i[1] \in Handlers
  BY ItemFacts
<1>8. StreamInv
  BY <1>6, <1>7, EmptyStream DEF Init, StreamInv
<1>9. CoreInv
  BY <1>6 DEF CoreInv, Handlers
<1>10. RetireInv
  <2>1. Len(<<>>) = 0
    OBVIOUS
  <2> QED
    BY <1>7, <2>1 DEF Init, RetireInv
<1> QED
  BY <1>1, <1>2, <1>3, <1>4, <1>5, <1>8, <1>9, <1>10 DEF IInv

LEMMA NextInvariant == IInv /\ [Next]_vars => IInv'
BY TypeStep, PublisherStep, CaptureStep, WorkerStep, ListStep, StreamStep,
   CoreStep, RetireStep DEF IInv

(* The inductive invariant: the types, the count of captures, which items  *)
(* are busy and listed, and where each event is in the order of dispatch.  *)
THEOREM Invariance == Spec => []IInv
<1>1. Init => IInv
  BY InitInvariant
<1>2. IInv /\ [Next]_vars => IInv'
  BY NextInvariant
<1> QED
  BY <1>1, <1>2, PTL DEF Spec

(* The fields of the items and of the publishers keep their types: no item *)
(* is captured or retires more often than there are calls of Publish, and  *)
(* no queue and no handler has an event twice.                             *)
THEOREM TypeCorrect == Spec => []TypeOK
<1>1. IInv => TypeOK
  <2> SUFFICES ASSUME IInv PROVE TypeOK
    OBVIOUS
  <2>1. ASSUME NEW i \in Items PROVE captures[i] \in 0..Cardinality(Events)
    <3>1. captures[i] = Cardinality(Holding(i))
      BY DEF IInv, CaptureInv
    <3> QED
      BY <3>1, HoldingFinite, EventsAssumption, FS_CardinalityType
  <2>2. captures \in [Items -> 0..Cardinality(Events)]
    BY <2>1 DEF IInv, TypeInv
  <2>3. ASSUME NEW i \in Items PROVE retiring[i] \in 0..Cardinality(Events)
    <3>1. PICK h \in Handlers : h = i[1]
      BY ItemFacts
    <3>2. Len(log[h]) \in 0..Cardinality(Events)
      BY StreamLength DEF IInv, StreamInv
    <3>3. retiring[i] \in Nat /\ retiring[i] <= Len(log[h])
      BY <3>1 DEF IInv, TypeInv, RetireInv
    <3> QED
      BY <3>2, <3>3, EventsAssumption, FS_CardinalityType
  <2>4. retiring \in [Items -> 0..Cardinality(Events)]
    BY <2>3 DEF IInv, TypeInv
  <2>5. TypeInv /\ StreamInv
    BY DEF IInv
  <2> QED
    BY <2>2, <2>4, <2>5 DEF TypeInv, StreamInv, TypeOK, WorkerStates, PublishStates
<1> QED
  BY <1>1, Invariance, PTL

(* No handler is called with events in another order than that in which    *)
(* Publish dispatched them, nor twice with one event.                      *)
THEOREM OrderCorrect == Spec => []HandledInOrder
<1>1. IInv => HandledInOrder
  <2>1. \A e : Position(e) = Pos(dispatched, e)
    BY DEF Position, Pos
  <2> QED
    BY <2>1 DEF IInv, StreamInv, Sorted, HandledInOrder
<1> QED
  BY <1>1, Invariance, PTL

(* An item that is busy stays in the list, and so HandleEvent of a handler *)
(* is never called while it is running.                                    *)
THEOREM OneCallCorrect == Spec => []OneCallAtATime
<1>1. IInv => OneCallAtATime
  <2> SUFFICES ASSUME IInv PROVE OneCallAtATime
    OBVIOUS
  <2>1. \A i \in Items : worker[i].pc = "handle" => i \in handlers
    BY DEF IInv, WorkerInv, BusyItemsListed
  <2> QED
    BY <2>1 DEF OneCallAtATime, IInv, BusyItemsListed
<1> QED
  BY <1>1, Invariance, PTL

(* When an application handler is called, no core handler still has to be  *)
(* called with the event.                                                  *)
THEOREM CoreFirstCorrect == Spec => []CoreBeforeApplication
<1>1. IInv => CoreBeforeApplication
  BY DEF IInv, CoreInv, Seen, Called, CoreBeforeApplication
<1> QED
  BY <1>1, Invariance, PTL
=============================================================================
