------------------------- MODULE LocalEntityProofs -------------------------
(***************************************************************************)
(* Theorems about the types, the heartbeat, the links and the callbacks in *)
(* LocalEntity for any number of callers, calls, ticks and connections.    *)
(***************************************************************************)
EXTENDS LocalEntity, WellFoundedInduction, FiniteSetTheorems, TLAPS

(* What the calls are made of; the fields that no step here looks at may   *)
(* have any value.                                                         *)
IsCall(r) == r = [op |-> r.op, step |-> r.step, target |-> r.target,
                  todo |-> r.todo, request |-> r.request]
TickerStates == [channel : Nat, step : {"select", "tick", "ended"}, counter : Nat]

TypeInv ==
    /\ call = [c \in Callers |-> call[c]]
    /\ \A c \in Callers : IsCall(call[c])
    /\ channel \in Seq({"open", "closed"})
    /\ stopHeartbeatC \in 0..Len(channel)
    /\ ticker \in Seq(TickerStates)
    /\ \A i \in DOMAIN ticker : ticker[i].channel \in DOMAIN channel
    /\ heartBeatNum \in Nat
    /\ overlapped \in BOOLEAN
    /\ \A c \in Callers : call[c].step \in {"close", "go"} => stopHeartbeatC # 0

(* The calls that use the heartbeat manager, or will.                      *)
BeatSteps == {"stop", "close", "make", "go"}
Owner(c) == call[c].step \in BeatSteps \/ call[c].op = "RemoveEntity"

(* Without overlapping calls the manager knows the only channel that is    *)
(* open, and one goroutine waits for it unless it is about to be started.  *)
BeatInv == ~overlapped =>
    /\ ~panicked
    /\ \A c, d \in Callers : Owner(c) /\ Owner(d) => c = d
    /\ \A n \in DOMAIN channel : channel[n] = "open" => n = stopHeartbeatC
    /\ \A i, j \in DOMAIN ticker : Beating(i) /\ Beating(j) => i = j
    /\ \A c \in Callers :
          /\ call[c].step = "close" => IsHeartbeatRunning
          /\ call[c].step = "make" => ~IsHeartbeatRunning
          /\ call[c].step = "go" => /\ IsHeartbeatRunning
                                    /\ \A i \in DOMAIN ticker : ~Beating(i)
    /\ \/ \E c \in Callers : call[c].step = "go"
       \/ IsHeartbeatRunning => \E i \in DOMAIN ticker : Beating(i)

IInv == TypeInv /\ BeatInv

-----------------------------------------------------------------------------
USE DEF beats, peer, lists, answers

(* A call moves on.                                                        *)
CallMoves(c, op, step) ==
    /\ call' = [d \in Callers |-> call'[d]]
    /\ IsCall(call'[c])
    /\ call'[c].op = op /\ call'[c].step = step
    /\ \A d \in Callers \ {c} : call'[d] = call[d]

LEMMA NoCallFields == /\ IsCall(NoCall)
                       /\ NoCall.op = "none" /\ NoCall.step = "idle"
                       /\ NoCall.request = 0
BY DEF IsCall, NoCall

(* Several fields are changed one after the other.                         *)
Begun(r, op, step, target, todo) ==
    [r EXCEPT !.op = op, !.step = step, !.target = target, !.todo = todo]
Taken(r, target, todo, step) ==
    [r EXCEPT !.target = target, !.todo = todo, !.step = step]

LEMMA FieldOp ==
    ASSUME NEW r, IsCall(r), NEW v
    PROVE  [r EXCEPT !.op = v] = [op |-> v, step |-> r.step, target |-> r.target,
                                  todo |-> r.todo, request |-> r.request]
BY DEF IsCall

LEMMA FieldStep ==
    ASSUME NEW r, IsCall(r), NEW v
    PROVE  [r EXCEPT !.step = v] = [op |-> r.op, step |-> v, target |-> r.target,
                                    todo |-> r.todo, request |-> r.request]
BY DEF IsCall

LEMMA FieldTarget ==
    ASSUME NEW r, IsCall(r), NEW v
    PROVE  [r EXCEPT !.target = v] = [op |-> r.op, step |-> r.step, target |-> v,
                                      todo |-> r.todo, request |-> r.request]
BY DEF IsCall

LEMMA FieldTodo ==
    ASSUME NEW r, IsCall(r), NEW v
    PROVE  [r EXCEPT !.todo = v] = [op |-> r.op, step |-> r.step,
                                    target |-> r.target, todo |-> v,
                                    request |-> r.request]
BY DEF IsCall

LEMMA FieldsBegun ==
    ASSUME NEW r, IsCall(r), NEW op, NEW step, NEW target, NEW todo, NEW q,
           q = Begun(r, op, step, target, todo)
    PROVE  /\ IsCall(q) /\ q.op = op /\ q.step = step
           /\ q.target = target /\ q.todo = todo
<1>1. PICK r1 : r1 = [r EXCEPT !.op = op]
  OBVIOUS
<1>2. IsCall(r1) /\ r1.op = op /\ r1.request = r.request
  BY <1>1, FieldOp DEF IsCall
<1>3. PICK r2 : r2 = [r1 EXCEPT !.step = step]
  OBVIOUS
<1>4. IsCall(r2) /\ r2.op = op /\ r2.step = step /\ r2.request = r.request
  BY <1>2, <1>3, FieldStep DEF IsCall
<1>5. PICK r3 : r3 = [r2 EXCEPT !.target = target]
  OBVIOUS
<1>6. /\ IsCall(r3) /\ r3.op = op /\ r3.step = step /\ r3.target = target
      /\ r3.request = r.request
  BY <1>4, <1>5, FieldTarget DEF IsCall
<1>7. PICK r4 : r4 = [r3 EXCEPT !.todo = todo]
  OBVIOUS
<1>8. /\ IsCall(r4) /\ r4.op = op /\ r4.step = step
      /\ r4.target = target /\ r4.todo = todo
  BY <1>6, <1>7, FieldTodo DEF IsCall
<1>9. q = r4
  BY <1>1, <1>3, <1>5, <1>7, Zenon DEF Begun
<1> QED
  BY <1>8, <1>9

LEMMA FieldsTaken ==
    ASSUME NEW r, IsCall(r), NEW target, NEW todo, NEW step, NEW q,
           q = Taken(r, target, todo, step)
    PROVE  /\ IsCall(q) /\ q.op = r.op /\ q.step = step
           /\ q.target = target /\ q.todo = todo
<1>1. PICK r1 : r1 = [r EXCEPT !.target = target]
  OBVIOUS
<1>2. IsCall(r1) /\ r1.op = r.op /\ r1.target = target
  BY <1>1, FieldTarget DEF IsCall
<1>3. PICK r2 : r2 = [r1 EXCEPT !.todo = todo]
  OBVIOUS
<1>4. IsCall(r2) /\ r2.op = r.op /\ r2.target = target /\ r2.todo = todo
  BY <1>2, <1>3, FieldTodo DEF IsCall
<1>5. PICK r3 : r3 = [r2 EXCEPT !.step = step]
  OBVIOUS
<1>6. /\ IsCall(r3) /\ r3.op = r.op /\ r3.step = step
      /\ r3.target = target /\ r3.todo = todo
  BY <1>4, <1>5, FieldStep DEF IsCall
<1>7. q = r3
  BY <1>1, <1>3, <1>5, Zenon DEF Taken
<1> QED
  BY <1>6, <1>7

LEMMA BecomesMoves ==
    ASSUME TypeInv, NEW c \in Callers, NEW r, IsCall(r),
           call' = [call EXCEPT ![c] = r]
    PROVE  CallMoves(c, r.op, r.step) /\ call'[c] = r
BY DEF TypeInv, CallMoves

LEMMA BeginMoves ==
    ASSUME TypeInv, NEW c \in Callers, NEW op, NEW step, NEW target, NEW todo,
           Begin(c, op, step, target, todo)
    PROVE  /\ CallMoves(c, op, step) /\ call[c] = NoCall
           /\ call'[c].target = target /\ call'[c].todo = todo
<1>1. PICK r : r = Begun(NoCall, op, step, target, todo)
  OBVIOUS
<1>2. /\ IsCall(r) /\ r.op = op /\ r.step = step
      /\ r.target = target /\ r.todo = todo
  BY <1>1, NoCallFields, FieldsBegun
<1>3. call' = [call EXCEPT ![c] = r]
  BY <1>1, Zenon DEF Begin, Begun
<1>4. CallMoves(c, r.op, r.step) /\ call'[c] = r
  BY <1>2, <1>3, BecomesMoves
<1> QED
  BY <1>2, <1>4 DEF Begin

LEMMA GoToFields ==
    ASSUME NEW r, IsCall(r), NEW step
    PROVE  LET q == [r EXCEPT !.step = step]
           IN  /\ IsCall(q) /\ q.op = r.op /\ q.step = step
               /\ q.target = r.target /\ q.todo = r.todo
<1> DEFINE q == [op |-> r.op, step |-> step, target |-> r.target, todo |-> r.todo,
                 request |-> r.request]
<1>1. [r EXCEPT !.step = step] = q
  BY DEF IsCall
<1>2. /\ IsCall(q) /\ q.op = r.op /\ q.step = step
      /\ q.target = r.target /\ q.todo = r.todo
  BY DEF IsCall
<1> QED
  BY <1>1, <1>2

LEMMA GoToMoves ==
    ASSUME TypeInv, NEW c \in Callers, NEW step, GoTo(c, step)
    PROVE  /\ CallMoves(c, call[c].op, step)
           /\ call'[c].target = call[c].target /\ call'[c].todo = call[c].todo
<1> DEFINE r == [call[c] EXCEPT !.step = step]
<1>1. /\ IsCall(r) /\ r.op = call[c].op /\ r.step = step
      /\ r.target = call[c].target /\ r.todo = call[c].todo
  BY GoToFields DEF TypeInv
<1>2. call' = [call EXCEPT ![c] = r]
  BY DEF GoTo, TypeInv
<1> HIDE DEF r
<1> QED
  BY <1>1, <1>2, BecomesMoves

LEMMA ReturnMoves ==
    ASSUME TypeInv, NEW c \in Callers, Return(c)
    PROVE  CallMoves(c, "none", "idle") /\ call'[c] = NoCall
<1>1. /\ IsCall(NoCall) /\ NoCall.op = "none" /\ NoCall.step = "idle"
  BY NoCallFields
<1>2. call' = [call EXCEPT ![c] = NoCall]
  BY DEF Return
<1>3. CallMoves(c, NoCall.op, NoCall.step) /\ call'[c] = NoCall
  BY <1>1, <1>2, BecomesMoves
<1> QED
  BY <1>1, <1>3

(* RemoveNext takes the next link.                                         *)
LEMMA NextMoves ==
    ASSUME TypeInv, NEW c \in Callers, RemoveNext(c)
    PROVE  /\ CallMoves(c, call[c].op, IF connection = "open" THEN "drop" ELSE "next")
           /\ call'[c].target = Head(call[c].todo)
           /\ call'[c].todo = Tail(call[c].todo)
<1> DEFINE step == IF connection = "open" THEN "drop" ELSE "next"
<1> DEFINE old == call[c]
<1>1. PICK r : r = Taken(old, Head(old.todo), Tail(old.todo), step)
  OBVIOUS
<1>2. /\ IsCall(r) /\ r.op = old.op /\ r.step = step
      /\ r.target = Head(old.todo) /\ r.todo = Tail(old.todo)
  <2>1. IsCall(old)
    BY DEF TypeInv
  <2> QED
    BY <1>1, <2>1, FieldsTaken
<1>3. call' = [call EXCEPT ![c] = r]
  BY <1>1, Zenon DEF RemoveNext, Taken
<1>4. CallMoves(c, r.op, r.step) /\ call'[c] = r
  BY <1>2, <1>3, BecomesMoves
<1> QED
  BY <1>2, <1>4

-----------------------------------------------------------------------------
(* Steps that leave the channels and the goroutines alone.                 *)
Apart == UNCHANGED <<channel, stopHeartbeatC, ticker, panicked>>

LEMMA ApartKeeps ==
    ASSUME TypeInv, Apart, heartBeatNum' \in Nat, overlapped' \in BOOLEAN,
           NEW c \in Callers, NEW op, NEW step, CallMoves(c, op, step),
           step \in {"close", "go"} => stopHeartbeatC # 0
    PROVE  TypeInv'
<1>1. \A d \in Callers : IsCall(call'[d])
  BY DEF TypeInv, CallMoves
<1>2. \A d \in Callers : call'[d].step \in {"close", "go"} => stopHeartbeatC # 0
  BY DEF TypeInv, CallMoves
<1> QED
  BY <1>1, <1>2 DEF TypeInv, CallMoves, Apart

(* ...and none of whose callers goes on with what it does there.           *)
LEMMA ApartBeats ==
    ASSUME BeatInv, Apart, overlapped => overlapped',
           \A d \in Callers : call'[d].step \in {"close", "make", "go"} \/ call[d].step = "go"
                             => call'[d].step = call[d].step,
           ~overlapped' => \A c, d \in Callers : Owner(c)' /\ Owner(d)' => c = d
    PROVE  BeatInv'
<1> SUFFICES ASSUME ~overlapped' PROVE BeatInv'
  BY DEF BeatInv
<1>1. \A i : Beating(i)' <=> Beating(i)
  BY DEF Beating, Apart
<1>2. IsHeartbeatRunning' <=> IsHeartbeatRunning
  BY DEF IsHeartbeatRunning, Apart
<1>3. \A d \in Callers : call'[d].step = "go" <=> call[d].step = "go"
  OBVIOUS
<1>4. ~overlapped
  OBVIOUS
<1> QED
  BY <1>1, <1>2, <1>3, <1>4 DEF BeatInv, Apart

LEMMA OwnersKept ==
    ASSUME BeatInv, overlapped => overlapped', \A d \in Callers : Owner(d)' => Owner(d)
    PROVE  ~overlapped' => \A c, d \in Callers : Owner(c)' /\ Owner(d)' => c = d
BY DEF BeatInv

LEMMA OwnerAlone ==
    ASSUME NEW c \in Callers, NEW op, NEW step, CallMoves(c, op, step),
           Others(c) = {}
    PROVE  \A a, b \in Callers : Owner(a)' /\ Owner(b)' => a = b
<1>1. \A d \in Callers \ {c} : call'[d] = NoCall
  BY DEF CallMoves, Others
<1>2. \A d \in Callers \ {c} : ~Owner(d)'
  BY <1>1, NoCallFields DEF Owner, BeatSteps
<1> QED
  BY <1>2

(* A call begins; one that will use the heartbeat manager looks for others.*)
LEMMA BeginStep ==
    ASSUME TypeInv, BeatInv, Apart, heartBeatNum' \in Nat, overlapped' \in BOOLEAN,
           overlapped => overlapped',
           NEW c \in Callers, NEW op, NEW step, CallMoves(c, op, step),
           call[c] = NoCall, step \notin {"close", "make", "go"},
           step = "stop" \/ op = "RemoveEntity" => overlapped' \/ Others(c) = {}
    PROVE  TypeInv' /\ BeatInv'
<1>1. TypeInv'
  BY ApartKeeps
<1>2. ~overlapped' => \A a, b \in Callers : Owner(a)' /\ Owner(b)' => a = b
  <2>1. CASE step = "stop" \/ op = "RemoveEntity"
    BY <2>1, OwnerAlone
  <2>2. CASE ~(step = "stop" \/ op = "RemoveEntity")
    <3>1. \A d \in Callers : Owner(d)' => Owner(d)
      BY <2>2 DEF CallMoves, Owner, BeatSteps
    <3> QED
      BY <3>1, OwnersKept
  <2> QED
    BY <2>1, <2>2
<1>3. \A d \in Callers :
         call'[d].step \in {"close", "make", "go"} \/ call[d].step = "go"
         => call'[d].step = call[d].step
  BY NoCallFields DEF CallMoves
<1> QED
  BY <1>1, <1>2, <1>3, ApartBeats

(* A call goes on, away from the heartbeat manager or up to it.            *)
LEMMA GoOnStep ==
    ASSUME TypeInv, BeatInv, Apart, UNCHANGED <<heartBeatNum, overlapped>>,
           NEW c \in Callers, NEW op, NEW step, CallMoves(c, op, step),
           call[c].step # "go", step \notin {"close", "make", "go"},
           step = "stop" \/ op = "RemoveEntity" => Owner(c)
    PROVE  TypeInv' /\ BeatInv'
<1>1. TypeInv'
  BY ApartKeeps DEF TypeInv
<1>2. \A d \in Callers : Owner(d)' => Owner(d)
  BY DEF CallMoves, Owner, BeatSteps
<1>3. ~overlapped' => \A a, b \in Callers : Owner(a)' /\ Owner(b)' => a = b
  BY <1>2, OwnersKept
<1>4. \A d \in Callers :
         call'[d].step \in {"close", "make", "go"} \/ call[d].step = "go"
         => call'[d].step = call[d].step
  BY DEF CallMoves
<1> QED
  BY <1>1, <1>3, <1>4, ApartBeats

-----------------------------------------------------------------------------
(* Nothing changes that the invariant is about.                            *)
LEMMA StillStep ==
    ASSUME TypeInv, BeatInv, UNCHANGED <<call, beats>>
    PROVE  TypeInv' /\ BeatInv'
<1>1. \A i : Beating(i)' <=> Beating(i)
  BY DEF Beating
<1>2. IsHeartbeatRunning' <=> IsHeartbeatRunning
  BY DEF IsHeartbeatRunning
<1>3. \A c \in Callers : Owner(c)' <=> Owner(c)
  BY DEF Owner
<1>4. TypeInv'
  BY DEF TypeInv
<1> QED
  BY <1>1, <1>2, <1>3, <1>4 DEF BeatInv

LEMMA StillSteps ==
    ASSUME TypeInv, BeatInv,
           \/ HandleAnswer \/ CleanRemoteEntityCaches \/ PeerStep
           \/ Disconnect \/ CleanRemoteDeviceCaches \/ SetupRemoteDevice
    PROVE  TypeInv' /\ BeatInv'
<1>1. UNCHANGED <<call, beats>>
  <2>1. CASE HandleAnswer
    BY <2>1 DEF HandleAnswer
  <2>2. CASE CleanRemoteEntityCaches
    BY <2>2 DEF CleanRemoteEntityCaches
  <2>3. CASE PeerLinks
    BY <2>3 DEF PeerLinks
  <2>4. CASE \E kinds : PeerAnswers(kinds)
    BY <2>4 DEF PeerAnswers
  <2>5. CASE \E t \in Targets : PeerRemovesEntity(t)
    BY <2>5 DEF PeerRemovesEntity
  <2>6. CASE Disconnect
    BY <2>6 DEF Disconnect
  <2>7. CASE CleanRemoteDeviceCaches
    BY <2>7 DEF CleanRemoteDeviceCaches
  <2>8. CASE SetupRemoteDevice
    BY <2>8 DEF SetupRemoteDevice
  <2> QED
    BY <2>1, <2>2, <2>3, <2>4, <2>5, <2>6, <2>7, <2>8 DEF PeerStep
<1> QED
  BY <1>1, StillStep

-----------------------------------------------------------------------------
(* Calls begin: those of the heartbeat...                                  *)
LEMMA HeartbeatCallStep ==
    ASSUME TypeInv, BeatInv, NEW c \in Callers, NEW op, HeartbeatCall(c, op),
           heartBeatNum' \in Nat
    PROVE  TypeInv' /\ BeatInv'
<1>1. CallMoves(c, op, "stop") /\ call[c] = NoCall
  BY BeginMoves DEF HeartbeatCall
<1>2. Apart /\ overlapped' = (overlapped \/ Others(c) # {})
  BY DEF HeartbeatCall, Apart
<1>3. overlapped' \in BOOLEAN
  BY <1>2 DEF TypeInv
<1> QED
  BY <1>1, <1>2, <1>3, BeginStep

LEMMA HeartbeatCalls ==
    ASSUME TypeInv, BeatInv, NEW c \in Callers,
           SetLocalFeature(c) \/ StartHeartbeat(c) \/ StopHeartbeat(c)
    PROVE  TypeInv' /\ BeatInv'
<1>1. heartBeatNum' \in Nat
  BY DEF SetLocalFeature, StartHeartbeat, StopHeartbeat, TypeInv
<1>2. \E op : HeartbeatCall(c, op)
  BY DEF SetLocalFeature, StartHeartbeat, StopHeartbeat
<1> QED
  BY <1>1, <1>2, HeartbeatCallStep

(* ...of features...                                                       *)
LEMMA FeatureCall ==
    ASSUME TypeInv, BeatInv, NEW c \in Callers, GetOrAddFeature(c)
    PROVE  TypeInv' /\ BeatInv'
<1>1. PICK step \in {"create", "found"} :
         Begin(c, "GetOrAddFeature", step, NoTarget, <<>>)
  BY DEF GetOrAddFeature
<1>2. CallMoves(c, "GetOrAddFeature", step) /\ call[c] = NoCall
  BY <1>1, BeginMoves
<1>3. /\ Apart /\ overlapped' = (overlapped \/ Others(c) # {})
      /\ heartBeatNum' = heartBeatNum
  BY DEF GetOrAddFeature, Apart
<1>4. heartBeatNum' \in Nat /\ overlapped' \in BOOLEAN
  BY <1>3 DEF TypeInv
<1> QED
  BY <1>2, <1>3, <1>4, BeginStep

(* ...of links and data...                                                 *)
LEMMA PeerCall ==
    ASSUME TypeInv, BeatInv, NEW c \in Callers, NEW op, NEW step, NEW t, NEW todo,
           Begin(c, op, step, t, todo), op # "RemoveEntity",
           step \in {"append", "drop", "register"}, UNCHANGED beats
    PROVE  TypeInv' /\ BeatInv'
<1>1. CallMoves(c, op, step) /\ call[c] = NoCall
  BY BeginMoves
<1>2. Apart /\ overlapped' = overlapped /\ heartBeatNum' = heartBeatNum
  BY DEF Apart
<1>3. heartBeatNum' \in Nat /\ overlapped' \in BOOLEAN
  BY <1>2 DEF TypeInv
<1> QED
  BY <1>1, <1>2, <1>3, BeginStep

LEMMA PeerCalls ==
    ASSUME TypeInv, BeatInv, NEW c \in Callers,
           \/ RequestRemoteData(c)
           \/ \E t \in Targets : \/ SubscribeToRemote(c, t) \/ BindToRemote(c, t)
                                 \/ RemoveRemoteSubscription(c, t)
                                 \/ RemoveRemoteBinding(c, t)
    PROVE  TypeInv' /\ BeatInv'
<1>1. CASE RequestRemoteData(c)
  BY <1>1, PeerCall DEF RequestRemoteData
<1>2. ASSUME NEW t \in Targets, SubscribeToRemote(c, t)
      PROVE  TypeInv' /\ BeatInv'
  BY <1>2, PeerCall DEF SubscribeToRemote
<1>3. ASSUME NEW t \in Targets, BindToRemote(c, t)
      PROVE  TypeInv' /\ BeatInv'
  BY <1>3, PeerCall DEF BindToRemote
<1>4. ASSUME NEW t \in Targets, RemoveRemoteSubscription(c, t)
      PROVE  TypeInv' /\ BeatInv'
  BY <1>4, PeerCall DEF RemoveRemoteSubscription
<1>5. ASSUME NEW t \in Targets, RemoveRemoteBinding(c, t)
      PROVE  TypeInv' /\ BeatInv'
  BY <1>5, PeerCall DEF RemoveRemoteBinding
<1> QED
  BY <1>1, <1>2, <1>3, <1>4, <1>5

(* ...and the removal of all links, with which that of an entity begins.   *)
LEMMA RemoveAllStep ==
    ASSUME TypeInv, BeatInv, NEW c \in Callers, NEW op, RemoveAll(c, op)
    PROVE  TypeInv' /\ BeatInv'
<1>1. CallMoves(c, op, "next") /\ call[c] = NoCall
  BY BeginMoves DEF RemoveAll
<1>2. /\ Apart /\ heartBeatNum' = heartBeatNum
      /\ overlapped' = (overlapped \/ (op = "RemoveEntity" /\ Others(c) # {}))
  BY DEF RemoveAll, Apart
<1>3. heartBeatNum' \in Nat /\ overlapped' \in BOOLEAN
  BY <1>2 DEF TypeInv
<1> QED
  BY <1>1, <1>2, <1>3, BeginStep

-----------------------------------------------------------------------------
(* Calls go on, and those that are not at the heartbeat return.            *)
LEMMA ReturnStep ==
    ASSUME TypeInv, BeatInv, NEW c \in Callers, Return(c), UNCHANGED beats,
           call[c].step # "go"
    PROVE  TypeInv' /\ BeatInv'
<1>1. CallMoves(c, "none", "idle")
  BY ReturnMoves
<1>2. Apart
  BY DEF Apart
<1> QED
  BY <1>1, <1>2, GoOnStep

LEMMA GoToStep ==
    ASSUME TypeInv, BeatInv, NEW c \in Callers, NEW step, GoTo(c, step),
           UNCHANGED beats, call[c].step # "go",
           step = "next" \/ (step = "stop" /\ call[c].op = "RemoveEntity")
    PROVE  TypeInv' /\ BeatInv'
<1>1. CallMoves(c, call[c].op, step)
  BY GoToMoves
<1>2. Apart
  BY DEF Apart
<1>3. call[c].op = "RemoveEntity" => Owner(c)
  BY DEF Owner
<1> QED
  BY <1>1, <1>2, <1>3, GoOnStep

LEMMA LinkSteps ==
    ASSUME TypeInv, BeatInv, NEW c \in Callers,
           \/ CreateFeature(c) \/ AppendLink(c) \/ DropLink(c) \/ RemoveNext(c)
           \/ RemovedAll(c) \/ AddResponseCallback(c)
    PROVE  TypeInv' /\ BeatInv'
<1>1. CASE CreateFeature(c)
  BY <1>1, ReturnStep DEF CreateFeature
<1>2. CASE AppendLink(c)
  BY <1>2, ReturnStep DEF AppendLink
<1>3. CASE DropLink(c)
  <2>1. UNCHANGED beats /\ call[c].step # "go"
    BY <1>3 DEF DropLink
  <2>2. CASE Return(c)
    BY <2>1, <2>2, ReturnStep
  <2>3. CASE GoTo(c, "next")
    BY <2>1, <2>3, GoToStep
  <2> QED
    BY <1>3, <2>2, <2>3 DEF DropLink
<1>4. CASE RemoveNext(c)
  <2>1. PICK step \in {"drop", "next"} : CallMoves(c, call[c].op, step)
    BY <1>4, NextMoves
  <2>2. Apart /\ UNCHANGED <<heartBeatNum, overlapped>> /\ call[c].step # "go"
    BY <1>4 DEF RemoveNext, Apart
  <2>3. call[c].op = "RemoveEntity" => Owner(c)
    BY DEF Owner
  <2> QED
    BY <2>1, <2>2, <2>3, GoOnStep
<1>5. CASE RemovedAll(c)
  BY <1>5, ReturnStep, GoToStep DEF RemovedAll
<1>6. CASE AddResponseCallback(c)
  BY <1>6, ReturnStep DEF AddResponseCallback
<1> QED
  BY <1>1, <1>2, <1>3, <1>4, <1>5, <1>6

-----------------------------------------------------------------------------
(* StopHeartbeat has asked; what it does next fits the answer.             *)
LEMMA AskedStep ==
    ASSUME TypeInv, BeatInv, UNCHANGED beats, NEW c \in Callers, NEW step,
           call[c].step = "stop", GoTo(c, step),
           \/ step = "close" /\ IsHeartbeatRunning
           \/ step = "make" /\ ~IsHeartbeatRunning
    PROVE  TypeInv' /\ BeatInv'
<1>1. CallMoves(c, call[c].op, step)
  BY GoToMoves
<1>2. Apart
  BY DEF Apart
<1>3. TypeInv'
  <2>1. step \in {"close", "go"} => stopHeartbeatC # 0
    BY DEF IsHeartbeatRunning
  <2>2. heartBeatNum' \in Nat /\ overlapped' \in BOOLEAN
    BY DEF TypeInv
  <2> QED
    BY <1>1, <1>2, <2>1, <2>2, ApartKeeps
<1>4. SUFFICES ASSUME ~overlapped PROVE BeatInv'
  BY <1>3 DEF BeatInv
<1>5. \A i : Beating(i)' <=> Beating(i)
  BY DEF Beating
<1>6. IsHeartbeatRunning' <=> IsHeartbeatRunning
  BY DEF IsHeartbeatRunning
<1>7. \A d \in Callers : Owner(d)' => Owner(d)
  BY <1>1 DEF CallMoves, Owner, BeatSteps
<1>8. \A d \in Callers : call'[d].step = "go" <=> call[d].step = "go"
  BY <1>1 DEF CallMoves
<1>9. \A d \in Callers :
         /\ call'[d].step = "close" => IsHeartbeatRunning
         /\ call'[d].step = "make" => ~IsHeartbeatRunning
  BY <1>1, <1>4 DEF CallMoves, BeatInv
<1> QED
  BY <1>4, <1>5, <1>6, <1>7, <1>8, <1>9 DEF BeatInv

LEMMA AskRunningStep ==
    ASSUME TypeInv, BeatInv, NEW c \in Callers, AskRunning(c)
    PROVE  TypeInv' /\ BeatInv'
<1>1. UNCHANGED beats /\ call[c].step = "stop"
  BY DEF AskRunning
<1>2. CASE Return(c)
  BY <1>1, <1>2, ReturnStep
<1>3. CASE IsHeartbeatRunning /\ GoTo(c, "close")
  BY <1>1, <1>3, AskedStep
<1>4. CASE ~IsHeartbeatRunning /\ GoTo(c, "make")
  BY <1>1, <1>4, AskedStep
<1> QED
  BY <1>2, <1>3, <1>4 DEF AskRunning, Stopped

(* A call at the heartbeat manager is there alone.                         *)
LEMMA OthersElsewhere ==
    ASSUME BeatInv, ~overlapped, NEW c \in Callers, Owner(c),
           NEW op, NEW step, CallMoves(c, op, step)
    PROVE  \A d \in Callers \ {c} : ~Owner(d) /\ ~Owner(d)' /\ call'[d] = call[d]
BY DEF BeatInv, CallMoves, Owner

LEMMA CloseChannelStep ==
    ASSUME TypeInv, BeatInv, NEW c \in Callers, CloseChannel(c)
    PROVE  TypeInv' /\ BeatInv'
<1>1. PICK op, step : CallMoves(c, op, step) /\ step \in {"idle", "make"}
  BY GoToMoves, ReturnMoves DEF CloseChannel, Stopped
<1>2. /\ stopHeartbeatC \in DOMAIN channel
      /\ channel' = [channel EXCEPT ![stopHeartbeatC] = "closed"]
      /\ panicked' = (channel[stopHeartbeatC] = "closed")
      /\ UNCHANGED <<stopHeartbeatC, ticker, heartBeatNum, overlapped>>
  BY DEF CloseChannel, TypeInv
<1>3. /\ channel' \in Seq({"open", "closed"})
      /\ Len(channel') = Len(channel) /\ DOMAIN channel' = DOMAIN channel
  BY <1>2 DEF TypeInv
<1>4. TypeInv'
  <2>1. \A d \in Callers : IsCall(call'[d])
    BY <1>1 DEF TypeInv, CallMoves
  <2>2. \A d \in Callers : call'[d].step \in {"close", "go"} => stopHeartbeatC # 0
    BY <1>1 DEF TypeInv, CallMoves
  <2> QED
    BY <1>1, <1>2, <1>3, <2>1, <2>2 DEF TypeInv, CallMoves
<1>5. SUFFICES ASSUME ~overlapped PROVE BeatInv'
  BY <1>2, <1>4 DEF BeatInv
<1>6. Owner(c)
  BY DEF CloseChannel, Owner, BeatSteps
<1>7. \A d \in Callers \ {c} : ~Owner(d)'
  BY <1>1, <1>5, <1>6, OthersElsewhere
<1>8. channel[stopHeartbeatC] = "open"
  BY <1>5 DEF BeatInv, CloseChannel, IsHeartbeatRunning
<1>9. \A n \in DOMAIN channel' : channel'[n] # "open"
  BY <1>2, <1>3, <1>5 DEF BeatInv, TypeInv
<1>10. ~IsHeartbeatRunning'
  BY <1>2, <1>3, <1>9 DEF IsHeartbeatRunning
<1>11. \A i \in DOMAIN ticker : ~Beating(i)'
  BY <1>2, <1>3, <1>9 DEF Beating, TypeInv
<1>12. \A d \in Callers : call'[d].step \notin {"close", "go"}
  BY <1>1, <1>7 DEF CallMoves, Owner, BeatSteps
<1>13. ~panicked'
  BY <1>2, <1>8
<1> QED
  BY <1>2, <1>7, <1>9, <1>10, <1>11, <1>12, <1>13 DEF BeatInv

LEMMA MakeChannelStep ==
    ASSUME TypeInv, BeatInv, NEW c \in Callers, MakeChannel(c)
    PROVE  TypeInv' /\ BeatInv'
<1>1. CallMoves(c, call[c].op, "go")
  BY GoToMoves DEF MakeChannel
<1>2. /\ channel' = Append(channel, "open") /\ stopHeartbeatC' = Len(channel')
      /\ UNCHANGED <<ticker, heartBeatNum, overlapped, panicked>>
  BY DEF MakeChannel
<1>3. /\ channel' \in Seq({"open", "closed"})
      /\ Len(channel') = Len(channel) + 1 /\ Len(channel) \in Nat
      /\ \A n \in DOMAIN channel : n \in DOMAIN channel' /\ channel'[n] = channel[n]
      /\ stopHeartbeatC' \in DOMAIN channel' /\ stopHeartbeatC' # 0
      /\ channel'[stopHeartbeatC'] = "open"
      /\ \A n \in DOMAIN channel' : n \in DOMAIN channel \/ n = stopHeartbeatC'
  BY <1>2 DEF TypeInv
<1>4. TypeInv'
  <2>1. \A d \in Callers : IsCall(call'[d])
    BY <1>1 DEF TypeInv, CallMoves
  <2>2. \A i \in DOMAIN ticker : ticker[i].channel \in DOMAIN channel'
    BY <1>3 DEF TypeInv
  <2> QED
    BY <1>1, <1>2, <1>3, <2>1, <2>2 DEF TypeInv, CallMoves
<1>5. SUFFICES ASSUME ~overlapped PROVE BeatInv'
  BY <1>2, <1>4 DEF BeatInv
<1>6. Owner(c)
  BY DEF MakeChannel, Owner, BeatSteps
<1>7. \A d \in Callers \ {c} : ~Owner(d)'
  BY <1>1, <1>5, <1>6, OthersElsewhere
<1>8. \A n \in DOMAIN channel : channel[n] # "open"
  BY <1>5 DEF BeatInv, MakeChannel, IsHeartbeatRunning, TypeInv
<1>9. IsHeartbeatRunning'
  BY <1>3 DEF IsHeartbeatRunning
<1>10. \A i \in DOMAIN ticker : ~Beating(i)'
  BY <1>2, <1>3, <1>8 DEF Beating, TypeInv
<1>11. \A n \in DOMAIN channel' : channel'[n] = "open" => n = stopHeartbeatC'
  BY <1>3, <1>8
<1>12. call'[c].step = "go"
       /\ \A d \in Callers : call'[d].step \notin {"close", "make"}
  BY <1>1, <1>7 DEF CallMoves, Owner, BeatSteps
<1> QED
  BY <1>2, <1>5, <1>7, <1>9, <1>10, <1>11, <1>12 DEF BeatInv

LEMMA StartTickerStep ==
    ASSUME TypeInv, BeatInv, NEW c \in Callers, StartTicker(c)
    PROVE  TypeInv' /\ BeatInv'
<1>1. CallMoves(c, "none", "idle")
  BY ReturnMoves DEF StartTicker
<1> DEFINE new == [channel |-> stopHeartbeatC, step |-> "select", counter |-> 0]
<1>2. /\ ticker' = Append(ticker, new)
      /\ UNCHANGED <<channel, stopHeartbeatC, heartBeatNum, overlapped, panicked>>
  BY DEF StartTicker
<1>3. stopHeartbeatC \in DOMAIN channel
  BY DEF StartTicker, TypeInv
<1>4. new \in TickerStates /\ new.channel = stopHeartbeatC /\ new.step = "select"
  BY <1>3 DEF TickerStates, TypeInv
<1> HIDE DEF new
<1>0. PICK m : m = Len(ticker) + 1
  OBVIOUS
<1>5. /\ ticker' \in Seq(TickerStates)
      /\ \A i \in DOMAIN ticker : i \in DOMAIN ticker' /\ ticker'[i] = ticker[i]
      /\ m \in DOMAIN ticker' /\ ticker'[m] = new
      /\ \A i \in DOMAIN ticker' : i \in DOMAIN ticker \/ i = m
  BY <1>2, <1>4, <1>0 DEF TypeInv
<1>6. TypeInv'
  <2>1. \A d \in Callers : IsCall(call'[d])
    BY <1>1 DEF TypeInv, CallMoves
  <2>2. \A i \in DOMAIN ticker' : ticker'[i].channel \in DOMAIN channel
    BY <1>3, <1>4, <1>5 DEF TypeInv
  <2>3. \A d \in Callers : call'[d].step \in {"close", "go"} => stopHeartbeatC # 0
    BY <1>1 DEF TypeInv, CallMoves
  <2> QED
    BY <1>1, <1>2, <1>5, <2>1, <2>2, <2>3 DEF TypeInv, CallMoves
<1>7. SUFFICES ASSUME ~overlapped PROVE BeatInv'
  BY <1>2, <1>6 DEF BeatInv
<1>8. Owner(c)
  BY DEF StartTicker, Owner, BeatSteps
<1>9. \A d \in Callers \ {c} : ~Owner(d)'
  BY <1>1, <1>7, <1>8, OthersElsewhere
<1>10. /\ IsHeartbeatRunning /\ IsHeartbeatRunning'
       /\ \A i \in DOMAIN ticker : ~Beating(i)
  BY <1>2, <1>7 DEF BeatInv, StartTicker, IsHeartbeatRunning
<1>11. \A i \in DOMAIN ticker : ~Beating(i)'
  BY <1>2, <1>5, <1>10 DEF Beating
<1>12. Beating(m)'
  BY <1>2, <1>4, <1>5, <1>10 DEF Beating, IsHeartbeatRunning
<1>13. \A i, j \in DOMAIN ticker' : Beating(i)' /\ Beating(j)' => i = j
  BY <1>5, <1>11
<1>14. \A d \in Callers : call'[d].step \notin {"close", "make", "go"}
  BY <1>1, <1>9 DEF CallMoves, Owner, BeatSteps
<1>15. ~panicked /\ \A n \in DOMAIN channel : channel[n] = "open" => n = stopHeartbeatC
  BY <1>7 DEF BeatInv
<1>16. \E i \in DOMAIN ticker' : Beating(i)'
  BY <1>5, <1>12
<1>17. \A a, b \in Callers : Owner(a)' /\ Owner(b)' => a = b
  BY <1>9
<1> QED
  BY <1>2, <1>10, <1>13, <1>14, <1>15, <1>16, <1>17 DEF BeatInv

-----------------------------------------------------------------------------
(* A goroutine that makes heartbeats changes itself.                       *)
LEMMA TickerKeeps ==
    ASSUME TypeInv, BeatInv, NEW i \in DOMAIN ticker, NEW t \in TickerStates,
           ticker' = [ticker EXCEPT ![i] = t], t.channel = ticker[i].channel,
           Beating(i) <=> (t.step # "ended" /\ channel[t.channel] = "open"),
           heartBeatNum' \in Nat,
           UNCHANGED <<call, channel, stopHeartbeatC, panicked, overlapped>>
    PROVE  TypeInv' /\ BeatInv'
<1>1. /\ ticker' \in Seq(TickerStates) /\ DOMAIN ticker' = DOMAIN ticker
      /\ ticker'[i] = t
      /\ \A j \in DOMAIN ticker : j # i => ticker'[j] = ticker[j]
  BY DEF TypeInv
<1>2. TypeInv'
  <2>1. \A j \in DOMAIN ticker' : ticker'[j].channel \in DOMAIN channel
    BY <1>1 DEF TypeInv
  <2> QED
    BY <1>1, <2>1 DEF TypeInv
<1>3. \A j \in DOMAIN ticker : Beating(j)' <=> Beating(j)
  BY <1>1 DEF Beating
<1>4. IsHeartbeatRunning' <=> IsHeartbeatRunning
  BY DEF IsHeartbeatRunning
<1>5. \A c \in Callers : Owner(c)' <=> Owner(c)
  BY DEF Owner
<1> QED
  BY <1>1, <1>2, <1>3, <1>4, <1>5 DEF BeatInv

(* What it becomes.                                                        *)
TickerMoves(i, t) ==
    /\ t \in TickerStates /\ t.channel = ticker[i].channel
    /\ ticker' = [ticker EXCEPT ![i] = t]
    /\ \/ Tick(i) /\ t.step = "tick" /\ t.counter = heartBeatNum + 1
       \/ SetHeartbeat(i) /\ t.step = "select" /\ t.counter = 0
       \/ EndTicker(i) /\ t.step = "ended" /\ t.counter = ticker[i].counter

LEMMA TickerStepMoves ==
    ASSUME TypeInv, NEW i \in 1..Len(ticker), TickerStep(i)
    PROVE  \E t : TickerMoves(i, t)
<1>1. /\ i \in DOMAIN ticker /\ ticker[i] \in TickerStates
      /\ heartBeatNum \in Nat /\ heartBeatNum + 1 \in Nat
  BY DEF TypeInv
<1> DEFINE old == ticker[i]
<1>2. CASE Tick(i)
  <2> DEFINE t == [channel |-> old.channel, step |-> "tick",
                   counter |-> heartBeatNum + 1]
  <2>1. /\ t \in TickerStates /\ t.channel = old.channel
        /\ t.step = "tick" /\ t.counter = heartBeatNum + 1
    BY <1>1 DEF TickerStates
  <2>2. ticker' = [ticker EXCEPT ![i] = t]
    <3>1. PICK mid : mid = [ticker EXCEPT ![i].step = "tick"]
      OBVIOUS
    <3>2. [old EXCEPT !.step = "tick"]
          = [channel |-> old.channel, step |-> "tick", counter |-> old.counter]
      BY <1>1 DEF TickerStates
    <3>3. mid = [ticker EXCEPT ![i] = [channel |-> old.channel, step |-> "tick",
                                       counter |-> old.counter]]
      BY <1>1, <3>1, <3>2 DEF TypeInv
    <3>4. ticker' = [mid EXCEPT ![i].counter = heartBeatNum + 1]
      BY <1>2, <3>1, Zenon DEF Tick
    <3>5. /\ i \in DOMAIN mid
          /\ mid[i] = [channel |-> old.channel, step |-> "tick", counter |-> old.counter]
      BY <1>1, <3>3 DEF TypeInv
    <3>6. [mid[i] EXCEPT !.counter = heartBeatNum + 1] = t
      BY <3>5
    <3>7. ticker' = [mid EXCEPT ![i] = t]
      BY <3>4, <3>5, <3>6
    <3> HIDE DEF t
    <3> QED
      BY <1>1, <3>3, <3>7 DEF TypeInv
  <2> HIDE DEF t
  <2>3. TickerMoves(i, t)
    BY <1>2, <2>1, <2>2 DEF TickerMoves
  <2> QED
    BY <2>3
<1>3. CASE SetHeartbeat(i)
  <2> DEFINE t == [channel |-> old.channel, step |-> "select",
                   counter |-> 0]
  <2>1. /\ t \in TickerStates /\ t.channel = old.channel
        /\ t.step = "select" /\ t.counter = 0
    BY <1>1 DEF TickerStates
  <2>2. ticker' = [ticker EXCEPT ![i] = t]
    <3>1. PICK mid : mid = [ticker EXCEPT ![i].step = "select"]
      OBVIOUS
    <3>2. [old EXCEPT !.step = "select"]
          = [channel |-> old.channel, step |-> "select", counter |-> old.counter]
      BY <1>1 DEF TickerStates
    <3>3. mid = [ticker EXCEPT ![i] = [channel |-> old.channel, step |-> "select",
                                       counter |-> old.counter]]
      BY <1>1, <3>1, <3>2 DEF TypeInv
    <3>4. ticker' = [mid EXCEPT ![i].counter = 0]
      BY <1>3, <3>1, Zenon DEF SetHeartbeat
    <3>5. /\ i \in DOMAIN mid
          /\ mid[i] = [channel |-> old.channel, step |-> "select", counter |-> old.counter]
      BY <1>1, <3>3 DEF TypeInv
    <3>6. [mid[i] EXCEPT !.counter = 0] = t
      BY <3>5
    <3>7. ticker' = [mid EXCEPT ![i] = t]
      BY <3>4, <3>5, <3>6
    <3> HIDE DEF t
    <3> QED
      BY <1>1, <3>3, <3>7 DEF TypeInv
  <2> HIDE DEF t
  <2>3. TickerMoves(i, t)
    BY <1>3, <2>1, <2>2 DEF TickerMoves
  <2> QED
    BY <2>3
<1>4. CASE EndTicker(i)
  <2> DEFINE t == [channel |-> old.channel, step |-> "ended",
                   counter |-> old.counter]
  <2>1. /\ t \in TickerStates /\ t.channel = old.channel
        /\ t.step = "ended" /\ t.counter = old.counter
    BY <1>1 DEF TickerStates
  <2>2. ticker' = [ticker EXCEPT ![i] = t]
    <3>1. [old EXCEPT !.step = "ended"] = t
      BY <1>1 DEF TickerStates
    <3>2. ticker' = [ticker EXCEPT ![i] = [old EXCEPT !.step = "ended"]]
      BY <1>1, <1>4 DEF EndTicker, TypeInv
    <3> QED
      BY <3>1, <3>2
  <2> HIDE DEF t
  <2>3. TickerMoves(i, t)
    BY <1>4, <2>1, <2>2 DEF TickerMoves
  <2> QED
    BY <2>3
<1> QED
  BY <1>2, <1>3, <1>4 DEF TickerStep

LEMMA TickerSteps ==
    ASSUME TypeInv, BeatInv, NEW i \in 1..Len(ticker), TickerStep(i)
    PROVE  TypeInv' /\ BeatInv'
<1>1. i \in DOMAIN ticker /\ heartBeatNum \in Nat /\ heartBeatNum + 1 \in Nat
  BY DEF TypeInv
<1>2. PICK t : TickerMoves(i, t)
  BY TickerStepMoves
<1>3. /\ t \in TickerStates /\ t.channel = ticker[i].channel
      /\ ticker' = [ticker EXCEPT ![i] = t]
  BY <1>2 DEF TickerMoves
<1>4. CASE Tick(i) /\ t.step = "tick"
  <2>1. /\ ticker[i].step = "select" /\ heartBeatNum' = heartBeatNum + 1
        /\ UNCHANGED <<call, channel, stopHeartbeatC, panicked, overlapped>>
    BY <1>4 DEF Tick
  <2>2. Beating(i) <=> (t.step # "ended" /\ channel[t.channel] = "open")
    BY <1>3, <1>4, <2>1 DEF Beating
  <2> QED
    BY <1>1, <1>3, <2>1, <2>2, TickerKeeps
<1>5. CASE SetHeartbeat(i) /\ t.step = "select"
  <2>1. /\ ticker[i].step = "tick" /\ heartBeatNum' = heartBeatNum
        /\ UNCHANGED <<call, channel, stopHeartbeatC, panicked, overlapped>>
    BY <1>5 DEF SetHeartbeat
  <2>2. Beating(i) <=> (t.step # "ended" /\ channel[t.channel] = "open")
    BY <1>3, <1>5, <2>1 DEF Beating
  <2> QED
    BY <1>1, <1>3, <2>1, <2>2, TickerKeeps
<1>6. CASE EndTicker(i) /\ t.step = "ended"
  <2>1. /\ channel[ticker[i].channel] = "closed" /\ heartBeatNum' = heartBeatNum
        /\ UNCHANGED <<call, channel, stopHeartbeatC, panicked, overlapped>>
    BY <1>6 DEF EndTicker
  <2>2. Beating(i) <=> (t.step # "ended" /\ channel[t.channel] = "open")
    BY <1>3, <1>6, <2>1 DEF Beating
  <2> QED
    BY <1>1, <1>3, <2>1, <2>2, TickerKeeps
<1> QED
  BY <1>2, <1>4, <1>5, <1>6 DEF TickerMoves

-----------------------------------------------------------------------------
LEMMA InitIInv == Init => IInv
<1> SUFFICES ASSUME Init PROVE IInv
  OBVIOUS
<1>1. \A c \in Callers : call[c] = NoCall
  BY DEF Init
<1>2. TypeInv
  <2>1. \A c \in Callers : IsCall(call[c]) /\ call[c].step = "idle"
    BY <1>1, NoCallFields
  <2>2. call = [c \in Callers |-> call[c]]
    BY DEF Init
  <2>3. \A i \in DOMAIN ticker : FALSE
    BY DEF Init
  <2>4. channel = <<>> /\ ticker = <<>> /\ stopHeartbeatC = 0
    BY DEF Init
  <2>5. /\ channel \in Seq({"open", "closed"}) /\ ticker \in Seq(TickerStates)
        /\ stopHeartbeatC \in 0..Len(channel)
    BY <2>4
  <2>6. heartBeatNum \in Nat /\ overlapped \in BOOLEAN
    BY DEF Init
  <2> QED
    BY <2>1, <2>2, <2>3, <2>5, <2>6 DEF TypeInv
<1>3. BeatInv
  <2>1. \A c \in Callers : call[c].step = "idle" /\ call[c].op = "none"
    BY <1>1, NoCallFields
  <2> QED
    BY <2>1 DEF Init, BeatInv, Owner, BeatSteps, IsHeartbeatRunning
<1> QED
  BY <1>2, <1>3 DEF IInv

LEMMA StepIInv == IInv /\ [Next]_vars => IInv'
<1> SUFFICES ASSUME TypeInv, BeatInv, [Next]_vars PROVE TypeInv' /\ BeatInv'
  BY DEF IInv
<1>1. CASE UNCHANGED vars
  BY <1>1, StillStep DEF vars
<1>2. ASSUME NEW c \in Callers, CallStep(c)
      PROVE  TypeInv' /\ BeatInv'
  <2>1. CASE GetOrAddFeature(c)
    BY <2>1, FeatureCall
  <2>2. CASE SetLocalFeature(c) \/ StartHeartbeat(c) \/ StopHeartbeat(c)
    BY <2>2, HeartbeatCalls
  <2>3. CASE AskRunning(c)
    BY <2>3, AskRunningStep
  <2>4. CASE CloseChannel(c)
    BY <2>4, CloseChannelStep
  <2>5. CASE MakeChannel(c)
    BY <2>5, MakeChannelStep
  <2>6. CASE StartTicker(c)
    BY <2>6, StartTickerStep
  <2>7. CASE \/ RequestRemoteData(c)
             \/ \E t \in Targets : \/ SubscribeToRemote(c, t) \/ BindToRemote(c, t)
                                   \/ RemoveRemoteSubscription(c, t)
                                   \/ RemoveRemoteBinding(c, t)
    BY <2>7, PeerCalls
  <2>8. CASE \E op \in UnlinkAllOps : RemoveAll(c, op)
    BY <2>8, RemoveAllStep
  <2>9. CASE \/ CreateFeature(c) \/ AppendLink(c) \/ DropLink(c) \/ RemoveNext(c)
             \/ RemovedAll(c) \/ AddResponseCallback(c)
    BY <2>9, LinkSteps
  <2> QED
    BY <1>2, <2>1, <2>2, <2>3, <2>4, <2>5, <2>6, <2>7, <2>8, <2>9
       DEF CallStep, HeartbeatStep, LinkStep
<1>3. ASSUME NEW i \in 1..Len(ticker), TickerStep(i)
      PROVE  TypeInv' /\ BeatInv'
  BY <1>3, TickerSteps
<1>4. CASE \/ HandleAnswer \/ CleanRemoteEntityCaches \/ PeerStep
           \/ Disconnect \/ CleanRemoteDeviceCaches \/ SetupRemoteDevice
  BY <1>4, StillSteps
<1> QED
  BY <1>1, <1>2, <1>3, <1>4 DEF Next

LEMMA IInvBeats == IInv => OneHeartbeat
<1> SUFFICES ASSUME TypeInv, BeatInv, ~overlapped PROVE OneHeartbeat
  BY DEF IInv, OneHeartbeat
<1>1. Quiet => \A c \in Callers : call[c].step # "go"
  BY NoCallFields DEF Quiet
<1>2. \A i \in DOMAIN ticker : Beating(i) => IsHeartbeatRunning
  BY DEF BeatInv, Beating, IsHeartbeatRunning, TypeInv
<1> QED
  BY <1>1, <1>2 DEF BeatInv, OneHeartbeat, IsHeartbeatRunning

(* For any number of callers, calls, heartbeats and connections: as long   *)
(* as calls to the heartbeat manager do not overlap, one goroutine makes   *)
(* heartbeats when the manager says that they run and none when it does    *)
(* not, although the manager asks, closes and starts without a lock over   *)
(* the three (heartbeat_manager.go).                                       *)
THEOREM HeartbeatCorrect == Spec => []OneHeartbeat
<1>1. Spec => []IInv
  BY InitIInv, StepIInv, PTL DEF Spec
<1> QED
  BY <1>1, IInvBeats, PTL

-----------------------------------------------------------------------------
(* Requests and their callbacks.  A request has a callback in the table    *)
(* from its registration to its call, whichever answer that is.            *)
Requests == [counter : Nat, generation : Nat, caller : Callers,
             registered : BOOLEAN, answered : BOOLEAN, called : Nat]

RequestInv(r, i) ==
    /\ r.generation <= generation
    /\ r.called <= 1
    /\ ~r.registered => r.called = 0 /\ ~r.answered
    /\ r.answered => r.called = 1
    /\ r.called = 1 /\ ~r.answered => r.generation < generation
    /\ r.registered /\ r.called = 0 <=> <<r.counter, i>> \in callbacks

Unregistered(c) == \E i \in DOMAIN request : /\ request[i].caller = c
                                             /\ ~request[i].registered
Registering == \A c \in Callers : call[c].step = "register" => Unregistered(c)

AnswerInv ==
    /\ request \in Seq(Requests) /\ msgNum \in Nat /\ generation \in Nat
    /\ callbacks \subseteq {<<request[i].counter, i>> : i \in DOMAIN request}
    /\ \A i \in DOMAIN request : RequestInv(request[i], i)
    /\ Registering

LEMMA AnswersKept ==
    ASSUME AnswerInv, UNCHANGED <<answers, generation>>,
           \A c \in Callers : call'[c].step = "register" => call[c].step = "register"
    PROVE  AnswerInv'
BY DEF AnswerInv, RequestInv, Registering, Unregistered

LEMMA MovesKept ==
    ASSUME NEW c \in Callers, NEW op, NEW step, CallMoves(c, op, step),
           step # "register"
    PROVE  \A d \in Callers : call'[d].step = "register" => call[d].step = "register"
BY DEF CallMoves

(* The calls that have no request.                                         *)
LEMMA OtherCallMoves ==
    ASSUME TypeInv, NEW c \in Callers, CallStep(c), ~RequestRemoteData(c),
           ~AddResponseCallback(c)
    PROVE  /\ UNCHANGED <<answers, generation>>
           /\ \E op, step : CallMoves(c, op, step) /\ step # "register"
<1>1. CASE GetOrAddFeature(c)
  <2>1. PICK step \in {"create", "found"} :
           Begin(c, "GetOrAddFeature", step, NoTarget, <<>>)
    BY <1>1 DEF GetOrAddFeature
  <2> QED
    BY <1>1, <2>1, BeginMoves DEF GetOrAddFeature
<1>2. CASE CreateFeature(c)
  BY <1>2, ReturnMoves DEF CreateFeature
<1>3. CASE SetLocalFeature(c) \/ StartHeartbeat(c) \/ StopHeartbeat(c)
  <2>1. PICK op : HeartbeatCall(c, op)
    BY <1>3 DEF SetLocalFeature, StartHeartbeat, StopHeartbeat
  <2> QED
    BY <2>1, BeginMoves DEF HeartbeatCall
<1>4. CASE AskRunning(c) \/ CloseChannel(c)
  <2>1. \/ Return(c) \/ GoTo(c, "make") \/ GoTo(c, "close")
    BY <1>4 DEF AskRunning, CloseChannel, Stopped
  <2>2. \E op, step : CallMoves(c, op, step) /\ step # "register"
    BY <2>1, ReturnMoves, GoToMoves
  <2> QED
    BY <1>4, <2>2 DEF AskRunning, CloseChannel
<1>5. CASE MakeChannel(c)
  BY <1>5, GoToMoves DEF MakeChannel
<1>6. CASE StartTicker(c)
  BY <1>6, ReturnMoves DEF StartTicker
<1>7. ASSUME NEW t \in Targets,
             \/ SubscribeToRemote(c, t) \/ BindToRemote(c, t)
             \/ RemoveRemoteSubscription(c, t) \/ RemoveRemoteBinding(c, t)
      PROVE  /\ UNCHANGED <<answers, generation>>
             /\ \E op, step : CallMoves(c, op, step) /\ step # "register"
  <2>1. PICK op, step : Begin(c, op, step, t, <<>>) /\ step # "register"
    BY <1>7 DEF SubscribeToRemote, BindToRemote, RemoveRemoteSubscription,
                RemoveRemoteBinding
  <2>2. CallMoves(c, op, step)
    BY <2>1, BeginMoves
  <2>3. UNCHANGED <<answers, generation>>
    BY <1>7 DEF SubscribeToRemote, BindToRemote, RemoveRemoteSubscription,
                RemoveRemoteBinding
  <2> QED
    BY <2>1, <2>2, <2>3
<1>8. ASSUME NEW op \in UnlinkAllOps, RemoveAll(c, op)
      PROVE  /\ UNCHANGED <<answers, generation>>
             /\ \E o, step : CallMoves(c, o, step) /\ step # "register"
  BY <1>8, BeginMoves DEF RemoveAll
<1>9. CASE AppendLink(c)
  BY <1>9, ReturnMoves DEF AppendLink
<1>10. CASE DropLink(c)
  <2>1. Return(c) \/ GoTo(c, "next")
    BY <1>10 DEF DropLink
  <2>2. \E op, step : CallMoves(c, op, step) /\ step # "register"
    BY <2>1, ReturnMoves, GoToMoves
  <2> QED
    BY <1>10, <2>2 DEF DropLink
<1>11. CASE RemoveNext(c)
  <2>1. PICK step \in {"drop", "next"} : CallMoves(c, call[c].op, step)
    BY <1>11, NextMoves
  <2> QED
    BY <1>11, <2>1 DEF RemoveNext
<1>12. CASE RemovedAll(c)
  <2>1. Return(c) \/ GoTo(c, "stop")
    BY <1>12 DEF RemovedAll
  <2>2. \E op, step : CallMoves(c, op, step) /\ step # "register"
    BY <2>1, ReturnMoves, GoToMoves
  <2> QED
    BY <1>12, <2>2 DEF RemovedAll
<1> QED
  BY <1>1, <1>2, <1>3, <1>4, <1>5, <1>6, <1>7, <1>8, <1>9, <1>10, <1>11, <1>12
     DEF CallStep, HeartbeatStep, LinkStep

LEMMA OtherCallAnswers ==
    ASSUME TypeInv, AnswerInv, NEW c \in Callers, CallStep(c),
           ~RequestRemoteData(c), ~AddResponseCallback(c)
    PROVE  AnswerInv'
<1>1. PICK op, step : CallMoves(c, op, step) /\ step # "register"
  BY OtherCallMoves
<1>2. UNCHANGED <<answers, generation>>
  BY OtherCallMoves
<1> QED
  BY <1>1, <1>2, MovesKept, AnswersKept

LEMMA OtherStepAnswers ==
    ASSUME AnswerInv,
           \/ CleanRemoteEntityCaches \/ PeerStep \/ Disconnect
           \/ CleanRemoteDeviceCaches \/ \E i \in 1..Len(ticker) : TickerStep(i)
    PROVE  AnswerInv'
<1>1. UNCHANGED <<call, answers, generation>>
  <2>1. CASE CleanRemoteEntityCaches
    BY <2>1 DEF CleanRemoteEntityCaches
  <2>2. CASE PeerLinks
    BY <2>2 DEF PeerLinks
  <2>3. CASE \E kinds : PeerAnswers(kinds)
    BY <2>3 DEF PeerAnswers
  <2>4. CASE \E t \in Targets : PeerRemovesEntity(t)
    BY <2>4 DEF PeerRemovesEntity
  <2>5. CASE Disconnect
    BY <2>5 DEF Disconnect
  <2>6. CASE CleanRemoteDeviceCaches
    BY <2>6 DEF CleanRemoteDeviceCaches
  <2>7. CASE \E i \in 1..Len(ticker) : TickerStep(i)
    BY <2>7 DEF TickerStep, Tick, SetHeartbeat, EndTicker
  <2> QED
    BY <2>1, <2>2, <2>3, <2>4, <2>5, <2>6, <2>7 DEF PeerStep
<1> QED
  BY <1>1, AnswersKept

LEMMA RequestAnswers ==
    ASSUME TypeInv, AnswerInv, NEW c \in Callers, RequestRemoteData(c)
    PROVE  AnswerInv'
<1>1. CallMoves(c, "RequestRemoteData", "register")
  BY BeginMoves DEF RequestRemoteData
<1> DEFINE new == [counter |-> msgNum + 1, generation |-> generation, caller |-> c,
                   registered |-> FALSE, answered |-> FALSE, called |-> 0]
<1>2. /\ request' = Append(request, new) /\ msgNum' = msgNum + 1
      /\ UNCHANGED <<callbacks, generation>>
  BY DEF RequestRemoteData
<1>3. /\ new \in Requests /\ new.caller = c /\ ~new.registered /\ ~new.answered
      /\ new.called = 0 /\ new.generation = generation
  BY DEF AnswerInv, Requests
<1> HIDE DEF new
<1>4. PICK m : m = Len(request) + 1 /\ m \notin DOMAIN request
  BY DEF AnswerInv
<1>5. /\ request' \in Seq(Requests) /\ msgNum' \in Nat
      /\ \A i \in DOMAIN request : i \in DOMAIN request' /\ request'[i] = request[i]
      /\ m \in DOMAIN request' /\ request'[m] = new
      /\ \A i \in DOMAIN request' : i \in DOMAIN request \/ i = m
  BY <1>2, <1>3, <1>4 DEF AnswerInv
<1>6. callbacks' \subseteq {<<request'[i].counter, i>> : i \in DOMAIN request'}
  BY <1>2, <1>5 DEF AnswerInv
<1>7. <<new.counter, m>> \notin callbacks
  BY <1>4 DEF AnswerInv
<1>8. \A i \in DOMAIN request' : i # m => RequestInv(request[i], i)'
  BY <1>2, <1>5 DEF AnswerInv, RequestInv
<1>9. RequestInv(request[m], m)'
  BY <1>2, <1>3, <1>5, <1>7 DEF AnswerInv, RequestInv
<1>10. \A d \in Callers : Unregistered(d) \/ d = c => Unregistered(d)'
  BY <1>3, <1>5 DEF Unregistered
<1>11. Registering'
  BY <1>1, <1>10 DEF Registering, CallMoves, AnswerInv
<1> QED
  BY <1>2, <1>5, <1>6, <1>8, <1>9, <1>11 DEF AnswerInv

LEMMA RegisterAnswers ==
    ASSUME TypeInv, AnswerInv, NEW c \in Callers, AddResponseCallback(c)
    PROVE  AnswerInv'
<1>1. CallMoves(c, "none", "idle")
  BY ReturnMoves DEF AddResponseCallback
<1> DEFINE mine == {i \in 1..Len(request) : /\ request[i].caller = c
                                            /\ ~request[i].registered}
<1>2. PICK i : i = CHOOSE j \in mine : TRUE
  OBVIOUS
<1>3. i \in mine
  <2>1. mine # {}
    BY DEF AddResponseCallback, AnswerInv, Registering, Unregistered
  <2> QED
    BY <1>2, <2>1
<1>4. i \in DOMAIN request /\ request[i].caller = c /\ ~request[i].registered
  BY <1>3 DEF AnswerInv
<1>5. /\ callbacks' = callbacks \cup {<<request[i].counter, i>>}
      /\ request' = [request EXCEPT ![i].registered = TRUE]
      /\ UNCHANGED <<msgNum, generation>>
  BY <1>2 DEF AddResponseCallback
<1>6. PICK r : r = [request[i] EXCEPT !.registered = TRUE]
  OBVIOUS
<1>7. request[i] \in Requests
  BY <1>4 DEF AnswerInv
<1>8. /\ r \in Requests /\ r.registered /\ r.counter = request[i].counter
      /\ r.generation = request[i].generation /\ r.answered = request[i].answered
      /\ r.called = request[i].called
  BY <1>6, <1>7 DEF Requests
<1>9. /\ request' \in Seq(Requests) /\ DOMAIN request' = DOMAIN request
      /\ request'[i] = r
      /\ \A j \in DOMAIN request : j # i => request'[j] = request[j]
  BY <1>4, <1>5, <1>6, <1>8 DEF AnswerInv
<1>10. callbacks' \subseteq {<<request'[j].counter, j>> : j \in DOMAIN request'}
  BY <1>4, <1>5, <1>8, <1>9 DEF AnswerInv
<1>11. \A j \in DOMAIN request' : RequestInv(request[j], j)'
  BY <1>4, <1>5, <1>8, <1>9 DEF AnswerInv, RequestInv
<1>12. \A d \in Callers : Unregistered(d) => Unregistered(d)' \/ d = c
  BY <1>4, <1>9 DEF Unregistered
<1>13. Registering'
  BY <1>1, <1>12 DEF Registering, CallMoves, AnswerInv
<1> QED
  BY <1>5, <1>9, <1>10, <1>11, <1>13 DEF AnswerInv

(* An answer counts for the request it belongs to, and calls what is in    *)
(* the table under its counter.                                            *)
LEMMA HeardRequest ==
    ASSUME AnswerInv, NEW n, NEW i \in DOMAIN request, NEW r, r = Heard(n)[i]
    PROVE  LET old == request[i]
               own == /\ old.counter = n /\ old.registered
                      /\ old.generation = generation
               hit == <<n, i>> \in callbacks
           IN  /\ r \in Requests /\ r.counter = old.counter
               /\ r.generation = old.generation /\ r.caller = old.caller
               /\ r.registered = old.registered
               /\ r.answered <=> old.answered \/ own
               /\ r.called = IF hit THEN old.called + 1 ELSE old.called
<1> DEFINE old == request[i]
<1> DEFINE own == /\ old.counter = n /\ old.registered
                  /\ old.generation = generation
<1> DEFINE hit == <<n, i>> \in callbacks
<1>1. old \in Requests
  BY DEF AnswerInv
<1>2. PICK a : a = (old.answered \/ own)
  OBVIOUS
<1>3. a \in BOOLEAN
  BY <1>1, <1>2 DEF Requests
<1>4. PICK k : k = IF hit THEN old.called + 1 ELSE old.called
  OBVIOUS
<1>5. k \in Nat
  BY <1>1, <1>4 DEF Requests
<1>6. i \in 1..Len(request)
  BY DEF AnswerInv
<1>7. r = [request[i] EXCEPT
             !.answered = @ \/ own, !.called = IF <<n, i>> \in callbacks THEN @ + 1 ELSE @]
  BY <1>6 DEF Heard
<1>8. PICK mid : mid = [old EXCEPT !.answered = a]
  OBVIOUS
<1>9. /\ mid \in Requests /\ mid.counter = old.counter
      /\ mid.generation = old.generation /\ mid.caller = old.caller
      /\ mid.registered = old.registered /\ mid.answered = a
      /\ mid.called = old.called
  BY <1>1, <1>3, <1>8 DEF Requests
<1>10. r = [mid EXCEPT !.called = k]
  BY <1>2, <1>4, <1>7, <1>8, <1>9
<1> QED
  BY <1>2, <1>4, <1>5, <1>9, <1>10 DEF Requests

LEMMA HandleAnswerAnswers ==
    ASSUME AnswerInv, HandleAnswer
    PROVE  AnswerInv'
<1>1. UNCHANGED <<call, msgNum, generation>>
  BY DEF HandleAnswer
<1>2. CASE UNCHANGED <<request, callbacks>>
  BY <1>1, <1>2, AnswersKept
<1>3. CASE processResponseMsgCallbacks(Head(down).counter)
  <2>1. PICK n : n = Head(down).counter
    OBVIOUS
  <2>2. request' = Heard(n) /\ callbacks' = {cb \in callbacks : cb[1] # n}
    BY <1>3, <2>1 DEF processResponseMsgCallbacks
  <2>3. request' = [i \in 1..Len(request) |-> request'[i]]
    BY <2>2 DEF Heard
  <2>4. \A i \in DOMAIN request :
           LET old == request[i]
               own == /\ old.counter = n /\ old.registered
                      /\ old.generation = generation
               hit == <<n, i>> \in callbacks
               r == request'[i]
           IN  /\ r \in Requests /\ r.counter = old.counter
               /\ r.generation = old.generation /\ r.caller = old.caller
               /\ r.registered = old.registered
               /\ r.answered <=> old.answered \/ own
               /\ r.called = IF hit THEN old.called + 1 ELSE old.called
    BY <2>2, HeardRequest
  <2>5. DOMAIN request = 1..Len(request) /\ Len(request) \in Nat
    BY DEF AnswerInv
  <2>6. request' \in Seq(Requests) /\ DOMAIN request' = DOMAIN request
    <3>1. \A i \in 1..Len(request) : request'[i] \in Requests
      BY <2>4, <2>5
    <3>2. request' \in [1..Len(request) -> Requests]
      BY <2>3, <3>1
    <3>3. request' \in Seq(Requests)
      BY <2>5, <3>2
    <3>4. DOMAIN request' = 1..Len(request)
      BY <3>2
    <3> QED
      BY <2>5, <3>3, <3>4
  <2>7. callbacks' \subseteq {<<request'[i].counter, i>> : i \in DOMAIN request'}
    BY <2>2, <2>4, <2>6 DEF AnswerInv
  <2>8. ASSUME NEW i \in DOMAIN request
        PROVE  RequestInv(request[i], i)'
    <3>1. RequestInv(request[i], i) /\ request[i] \in Requests
      BY <2>8 DEF AnswerInv
    <3>2. <<n, i>> \in callbacks <=>
             /\ request[i].registered /\ request[i].called = 0
             /\ request[i].counter = n
      BY <2>8, <3>1 DEF AnswerInv, RequestInv
    <3>3. <<request[i].counter, i>> \in callbacks' <=>
             /\ request[i].registered /\ request[i].called = 0
             /\ request[i].counter # n
      BY <2>2, <3>1 DEF RequestInv
    <3> DEFINE old == request[i]
    <3>4. PICK r : r = request'[i]
      OBVIOUS
    <3>5. /\ r.counter = old.counter /\ r.generation = old.generation
          /\ r.registered = old.registered
          /\ r.answered <=> \/ old.answered
                             \/ /\ old.counter = n /\ old.registered
                                /\ old.generation = generation
          /\ r.called = IF <<n, i>> \in callbacks THEN old.called + 1 ELSE old.called
      BY <2>4, <2>8, <3>4
    <3>6. old.generation \in Nat /\ generation \in Nat /\ old.called \in Nat
      BY <3>1 DEF Requests, AnswerInv
    <3>7. /\ r.generation <= generation
          /\ r.called <= 1
          /\ ~r.registered => r.called = 0 /\ ~r.answered
          /\ r.answered => r.called = 1
          /\ r.called = 1 /\ ~r.answered => r.generation < generation
      BY <3>1, <3>2, <3>5, <3>6 DEF RequestInv
    <3>8. r.registered /\ r.called = 0 <=> <<r.counter, i>> \in callbacks'
      BY <3>1, <3>2, <3>3, <3>5, <3>6 DEF RequestInv
    <3> QED
      BY <1>1, <3>4, <3>7, <3>8 DEF RequestInv
  <2>9. Registering'
    BY <1>1, <2>4, <2>6 DEF AnswerInv, Registering, Unregistered
  <2> QED
    BY <1>1, <2>6, <2>7, <2>8, <2>9 DEF AnswerInv
<1> QED
  BY <1>2, <1>3 DEF HandleAnswer

(* A new connection begins its counters anew; the callbacks of the old one *)
(* are still in the table.                                                 *)
LEMMA SetupAnswers ==
    ASSUME AnswerInv, SetupRemoteDevice
    PROVE  AnswerInv'
<1>1. /\ generation' = generation + 1 /\ msgNum' = 0
      /\ UNCHANGED <<call, request, callbacks>>
  BY DEF SetupRemoteDevice
<1>2. \A i \in DOMAIN request : request[i] \in Requests
  BY DEF AnswerInv
<1>3. \A i \in DOMAIN request : RequestInv(request[i], i)'
  BY <1>1, <1>2 DEF AnswerInv, RequestInv, Requests
<1>4. Registering'
  BY <1>1 DEF AnswerInv, Registering, Unregistered
<1> QED
  BY <1>1, <1>3, <1>4 DEF AnswerInv

LEMMA InitAnswers == Init => AnswerInv
<1> SUFFICES ASSUME Init PROVE AnswerInv
  OBVIOUS
<1>1. Registering
  BY NoCallFields DEF Init, Registering
<1>2. request = <<>> /\ callbacks = {} /\ msgNum = 0 /\ generation = 1
  BY DEF Init
<1>3. request \in Seq(Requests) /\ \A i \in DOMAIN request : FALSE
  BY <1>2
<1> QED
  BY <1>1, <1>2, <1>3 DEF AnswerInv

LEMMA StepAnswers == TypeInv /\ AnswerInv /\ [Next]_vars => AnswerInv'
<1> SUFFICES ASSUME TypeInv, AnswerInv, [Next]_vars PROVE AnswerInv'
  OBVIOUS
<1>1. CASE UNCHANGED vars
  BY <1>1, AnswersKept DEF vars
<1>2. ASSUME NEW c \in Callers, CallStep(c)
      PROVE  AnswerInv'
  BY <1>2, RequestAnswers, RegisterAnswers, OtherCallAnswers
<1>3. CASE HandleAnswer
  BY <1>3, HandleAnswerAnswers
<1>4. CASE SetupRemoteDevice
  BY <1>4, SetupAnswers
<1>5. CASE \/ CleanRemoteEntityCaches \/ PeerStep \/ Disconnect
           \/ CleanRemoteDeviceCaches \/ \E i \in 1..Len(ticker) : TickerStep(i)
  BY <1>5, OtherStepAnswers
<1> QED
  BY <1>1, <1>2, <1>3, <1>4, <1>5 DEF Next

(* For any number of requests, callers, answers and connections: no        *)
(* callback is called twice, one that waits for an answer that comes is    *)
(* called, and another answer calls it only on a later connection          *)
(* (feature_local.go, processResponseMsgCallbacks).                        *)
THEOREM CallbacksCorrect == Spec => []CallbacksCalledOnce
<1>1. IInv => TypeInv
  BY DEF IInv
<1>2. AnswerInv => CallbacksCalledOnce
  <2> SUFFICES ASSUME AnswerInv PROVE CallbacksCalledOnce
    OBVIOUS
  <2>1. \A i \in 1..Len(request) : i \in DOMAIN request
    BY DEF AnswerInv
  <2> QED
    BY <2>1 DEF AnswerInv, RequestInv, CallbacksCalledOnce
<1>3. Spec => []IInv
  BY InitIInv, StepIInv, PTL DEF Spec
<1>4. Spec => []AnswerInv
  BY <1>1, <1>3, InitAnswers, StepAnswers, PTL DEF Spec
<1> QED
  BY <1>2, <1>4, PTL
-----------------------------------------------------------------------------
LEMMA LeastNatural ==
    ASSUME NEW S, S \subseteq Nat, S # {}
    PROVE  \E x \in S : \A y \in S : x <= y
<1> DEFINE R == OpToRel(<, Nat)
<1>1. IsWellFoundedOn(R, Nat)
  BY NatLessThanWellFounded
<1>2. \A x, y \in Nat : x < y => <<x, y>> \in R
  BY DEF OpToRel
<1> HIDE DEF R
<1>3. PICK x \in S : \A y \in S : <<y, x>> \notin R
  BY <1>1, WFMin, Zenon
<1>4. \A y \in S : x \in Nat /\ y \in Nat /\ ~(y < x)
  BY <1>2, <1>3
<1> QED
  BY <1>3, <1>4

LEMMA SetInduction ==
    ASSUME NEW S, 0 \in S, \A n \in Nat : n \in S => n + 1 \in S
    PROVE  \A n \in Nat : n \in S
<1> SUFFICES ASSUME Nat \ S # {} PROVE FALSE
  OBVIOUS
<1>1. PICK x \in Nat \ S : \A y \in Nat \ S : x <= y
  BY LeastNatural
<1>2. x - 1 \in Nat /\ x - 1 \in S
  BY <1>1
<1> QED
  BY <1>1, <1>2

(* One step of KeptOf, and its table up to an index. *)
KeepStep(s, S, k, m) == IF m = 0 THEN <<>> ELSE IF s[m] \in S THEN Append(k[m - 1], s[m]) ELSE k[m - 1]
KeepTable(s, S, k, n) == k = [m \in 0..n |-> KeepStep(s, S, k, m)]

LEMMA TableExists ==
    ASSUME NEW s, NEW S, NEW n \in Nat
    PROVE  \E k : KeepTable(s, S, k, n)
<1> DEFINE Good == {m \in Nat : \E k : KeepTable(s, S, k, m)}
<1>1. 0 \in Good
  <2>1. KeepTable(s, S, [m \in 0..0 |-> <<>>], 0)
    BY DEF KeepTable, KeepStep
  <2> QED
    BY <2>1
<1>2. ASSUME NEW m \in Nat, m \in Good
      PROVE  m + 1 \in Good
  <2>1. PICK k : KeepTable(s, S, k, m)
    BY <1>2
  <2> DEFINE e == [j \in 0..m + 1 |-> IF j \in 0..m THEN k[j] ELSE KeepStep(s, S, k, j)]
  <2>2. \A j \in 0..m + 1 : j - 1 \in 0..m \/ j = 0
    OBVIOUS
  <2>3. \A j \in 0..m + 1 : e[j] = KeepStep(s, S, k, j)
    BY <2>1 DEF KeepTable
  <2>4. \A j \in 0..m : e[j] = k[j]
    OBVIOUS
  <2>5. \A j \in 0..m + 1 : KeepStep(s, S, e, j) = KeepStep(s, S, k, j)
    BY <2>2, <2>4 DEF KeepStep
  <2>6. e = [j \in 0..m + 1 |-> e[j]]
    OBVIOUS
  <2> HIDE DEF e
  <2>7. e = [j \in 0..m + 1 |-> KeepStep(s, S, e, j)]
    BY <2>3, <2>5, <2>6
  <2>8. KeepTable(s, S, e, m + 1)
    BY <2>7 DEF KeepTable
  <2> QED
    BY <2>8
<1> HIDE DEF Good
<1>3. n \in Good
  BY <1>1, <1>2, SetInduction
<1> QED
  BY <1>3 DEF Good

LEMMA KeptTable ==
    ASSUME NEW s, NEW S, NEW n \in Nat, Len(s) = n
    PROVE  \E k : KeepTable(s, S, k, n) /\ KeptOf(s, S) = k[n]
<1> DEFINE T(f) == f = [m \in 0..n |->
            IF m = 0 THEN <<>>
            ELSE IF s[m] \in S THEN Append(f[m - 1], s[m]) ELSE f[m - 1]]
<1>1. PICK k : k = CHOOSE f : T(f)
  OBVIOUS
<1>2. KeptOf(s, S) = k[n]
  BY <1>1, Zenon DEF KeptOf
<1>3. \E f : T(f)
  <2>1. PICK g : KeepTable(s, S, g, n)
    BY TableExists
  <2>2. T(g)
    BY <2>1, Zenon DEF KeepTable, KeepStep
  <2> QED
    BY <2>2, Zenon
<1>4. T(k)
  BY <1>1, <1>3, Zenon
<1>5. KeepTable(s, S, k, n)
  BY <1>4, Zenon DEF KeepTable, KeepStep
<1> QED
  BY <1>2, <1>5

LEMMA KeptItems ==
    ASSUME NEW T, NEW s \in Seq(T), NEW S
    PROVE  /\ KeptOf(s, S) \in Seq(T)
           /\ ItemsIn(KeptOf(s, S)) = ItemsIn(s) \cap S
<1>1. PICK n \in Nat : n = Len(s) /\ DOMAIN s = 1..n
  OBVIOUS
<1>2. PICK k : KeepTable(s, S, k, n) /\ KeptOf(s, S) = k[n]
  BY <1>1, KeptTable
<1> DEFINE Fine(m) == /\ k[m] \in Seq(T)
                      /\ ItemsIn(k[m]) = {s[i] : i \in 1..m} \cap S
<1> DEFINE Good == {m \in Nat : m <= n => Fine(m)}
<1>3. 0 \in Good
  <2>1. k[0] = <<>>
    BY <1>2 DEF KeepTable, KeepStep
  <2>2. <<>> \in Seq(T) /\ ItemsIn(<<>>) = {}
    BY DEF ItemsIn
  <2>3. {s[i] : i \in 1..0} = {}
    OBVIOUS
  <2>4. Fine(0)
    BY <2>1, <2>2, <2>3
  <2> QED
    BY <2>4
<1>4. ASSUME NEW m \in Nat, m \in Good
      PROVE  m + 1 \in Good
  <2> SUFFICES ASSUME m + 1 <= n
               PROVE  /\ k[m + 1] \in Seq(T)
                      /\ ItemsIn(k[m + 1]) = {s[i] : i \in 1..m + 1} \cap S
    OBVIOUS
  <2>1. k[m] \in Seq(T) /\ ItemsIn(k[m]) = {s[i] : i \in 1..m} \cap S
    BY <1>4
  <2>2. m + 1 \in 0..n /\ m + 1 # 0 /\ m + 1 - 1 = m
    BY <1>4
  <2>8. k[m + 1] = IF s[m + 1] \in S THEN Append(k[m], s[m + 1]) ELSE k[m]
    <3>1. k[m + 1] = KeepStep(s, S, k, m + 1)
      BY <1>2, <2>2 DEF KeepTable
    <3> QED
      BY <2>2, <3>1 DEF KeepStep
  <2>3. s[m + 1] \in T
    BY <1>1
  <2>4. {s[i] : i \in 1..m + 1} = {s[i] : i \in 1..m} \cup {s[m + 1]}
    OBVIOUS
  <2>5. PICK p : p = k[m]
    OBVIOUS
  <2>6. CASE s[m + 1] \in S
    <3>1. PICK x : x = s[m + 1]
      OBVIOUS
    <3>2. p \in Seq(T) /\ x \in T
      BY <2>1, <2>3, <2>5, <3>1
    <3>3. PICK l \in Nat : l = Len(p)
      BY <3>2
    <3>4. /\ DOMAIN p = 1..l /\ DOMAIN Append(p, x) = 1..l + 1
          /\ \A i \in 1..l : Append(p, x)[i] = p[i]
          /\ Append(p, x)[l + 1] = x /\ Append(p, x) \in Seq(T)
      BY <3>2, <3>3
    <3>5. ItemsIn(Append(p, x)) = ItemsIn(p) \cup {x}
      BY <3>4 DEF ItemsIn
    <3> QED
      BY <2>1, <2>8, <2>4, <2>5, <2>6, <3>1, <3>4, <3>5
  <2>7. CASE s[m + 1] \notin S
    BY <2>1, <2>8, <2>4, <2>7
  <2> QED
    BY <2>6, <2>7
<1> HIDE DEF Good
<1>5. n \in Good
  BY <1>3, <1>4, SetInduction
<1>6. Fine(n)
  BY <1>5 DEF Good
<1>7. {s[i] : i \in 1..n} = ItemsIn(s)
  BY <1>1 DEF ItemsIn
<1> HIDE DEF Fine
<1> QED
  BY <1>2, <1>6, <1>7 DEF Fine

-----------------------------------------------------------------------------
-----------------------------------------------------------------------------
(* Links.  What is on its way about a target, and what its receiver will   *)
(* have of it when all of that arrived: the last word counts.              *)
UpMessages == [kind : {"link", "unlink"}, target : Targets]
              \cup [kind : {"read"}, counter : Nat]
DownMessages == [kind : {"reply", "refusedReply", "result"}, counter : Nat]
                \cup [kind : {"entityRemoved"}, target : Targets]

About(m, t) == m.kind \in {"link", "unlink"} /\ m.target = t
Will(s, P, t) ==
    \/ /\ t \in P
       /\ \A i \in DOMAIN s : ~About(s[i], t)
    \/ \E i \in DOMAIN s :
          /\ About(s[i], t) /\ s[i].kind = "link"
          /\ \A j \in DOMAIN s : j > i => ~About(s[j], t)

(* A message that is sent is the last word on its target.                  *)
LEMMA WillAppend ==
    ASSUME NEW M, NEW s \in Seq(M), NEW m \in M, NEW P, NEW t
    PROVE  Will(Append(s, m), P, t)
           <=> IF About(m, t) THEN m.kind = "link" ELSE Will(s, P, t)
<1> DEFINE a == Append(s, m)
<1>1. PICK n \in Nat : n = Len(s)
  OBVIOUS
<1>2. /\ DOMAIN s = 1..n /\ DOMAIN a = 1..n + 1 /\ a[n + 1] = m
      /\ \A i \in 1..n : a[i] = s[i]
  BY <1>1
<1> HIDE DEF a
<1>3. CASE About(m, t)
  <2>1. ASSUME NEW i \in 1..n + 1, \A j \in 1..n + 1 : j > i => ~About(a[j], t)
        PROVE  i = n + 1
    BY <1>2, <1>3, <2>1
  <2>2. ~\A i \in 1..n + 1 : ~About(a[i], t)
    BY <1>2, <1>3
  <2>3. \A j \in 1..n + 1 : j > n + 1 => ~About(a[j], t)
    OBVIOUS
  <2>4. n + 1 \in 1..n + 1
    OBVIOUS
  <2> QED
    BY <1>2, <1>3, <2>1, <2>2, <2>3, <2>4 DEF Will
<1>4. CASE ~About(m, t)
  <2>1. \A i \in 1..n + 1 : i \in 1..n \/ i = n + 1
    OBVIOUS
  <2>2. \A i \in 1..n : i \in 1..n + 1
    OBVIOUS
  <2>3. \A i \in 1..n + 1 : About(a[i], t) <=> i \in 1..n /\ About(s[i], t)
    BY <1>2, <1>4, <2>1
  <2> QED
    BY <1>2, <1>4, <2>1, <2>2, <2>3 DEF Will
<1> QED
  BY <1>3, <1>4 DEF a

(* A message that arrives changes nothing of what will be.                 *)
LEMMA WillTail ==
    ASSUME NEW M, NEW s \in Seq(M), s # <<>>, NEW P, NEW Q, NEW t,
           t \in Q <=> IF About(Head(s), t) THEN Head(s).kind = "link" ELSE t \in P
    PROVE  Will(Tail(s), Q, t) <=> Will(s, P, t)
<1> DEFINE r == Tail(s)
<1>1. PICK n \in Nat : n = Len(s) /\ n > 0
  OBVIOUS
<1>2. /\ DOMAIN s = 1..n /\ DOMAIN r = 1..n - 1 /\ Head(s) = s[1]
      /\ \A i \in 1..n - 1 : r[i] = s[i + 1]
  BY <1>1
<1> HIDE DEF r
<1>3. \A i \in 1..n : i = 1 \/ i - 1 \in 1..n - 1
  OBVIOUS
<1>4. \A i \in 1..n - 1 : i + 1 \in 1..n
  OBVIOUS
<1>5. \A i \in 1..n : i # 1 => About(s[i], t) <=> About(r[i - 1], t)
  BY <1>2, <1>3
<1>6. ASSUME Will(s, P, t)
      PROVE  Will(r, Q, t)
  <2>1. CASE t \in P /\ \A i \in 1..n : ~About(s[i], t)
    <3>1. \A i \in 1..n - 1 : ~About(r[i], t)
      BY <1>2, <1>4, <2>1
    <3>2. t \in Q
      BY <1>1, <1>2, <2>1
    <3> QED
      BY <1>2, <3>1, <3>2 DEF Will
  <2>2. ASSUME NEW i \in 1..n, About(s[i], t), s[i].kind = "link",
               \A j \in 1..n : j > i => ~About(s[j], t)
        PROVE  Will(r, Q, t)
    <3>1. CASE i = 1
      <4>1. t \in Q
        BY <1>2, <2>2, <3>1
      <4>2. \A k \in 1..n - 1 : ~About(r[k], t)
        BY <1>2, <1>4, <2>2, <3>1
      <4> QED
        BY <1>2, <4>1, <4>2 DEF Will
    <3>2. CASE i # 1
      <4>1. i - 1 \in 1..n - 1 /\ r[i - 1] = s[i]
        BY <1>2, <3>2
      <4>2. \A k \in 1..n - 1 : k > i - 1 => ~About(r[k], t)
        BY <1>2, <1>4, <2>2
      <4> QED
        BY <1>2, <2>2, <4>1, <4>2 DEF Will
    <3> QED
      BY <3>1, <3>2
  <2> QED
    BY <1>2, <1>6, <2>1, <2>2 DEF Will
<1>7. ASSUME Will(r, Q, t)
      PROVE  Will(s, P, t)
  <2>1. CASE t \in Q /\ \A i \in 1..n - 1 : ~About(r[i], t)
    <3>1. \A i \in 1..n : i # 1 => ~About(s[i], t)
      BY <1>2, <1>3, <1>5, <2>1
    <3>2. CASE About(s[1], t)
      <4>1. s[1].kind = "link" /\ 1 \in 1..n
        BY <1>1, <1>2, <2>1, <3>2
      <4>2. \A j \in 1..n : j > 1 => ~About(s[j], t)
        BY <3>1
      <4> QED
        BY <1>2, <3>2, <4>1, <4>2 DEF Will
    <3>3. CASE ~About(s[1], t)
      BY <1>2, <2>1, <3>1, <3>3 DEF Will
    <3> QED
      BY <3>2, <3>3
  <2>2. ASSUME NEW i \in 1..n - 1, About(r[i], t), r[i].kind = "link",
               \A j \in 1..n - 1 : j > i => ~About(r[j], t)
        PROVE  Will(s, P, t)
    <3>1. i + 1 \in 1..n /\ s[i + 1] = r[i]
      BY <1>2
    <3>2. \A k \in 1..n : k > i + 1 => ~About(s[k], t)
      BY <1>2, <1>3, <1>5, <2>2
    <3> QED
      BY <1>2, <2>2, <3>1, <3>2 DEF Will
  <2> QED
    BY <1>2, <1>7, <2>1, <2>2 DEF Will
<1> QED
  BY <1>6, <1>7 DEF r

-----------------------------------------------------------------------------
LinkCalls == LinkOps \cup UnlinkOps \cup UnlinkAllOps
Appending(t) == \E c \in Callers : call[c].step = "append" /\ call[c].target = t
Dropping(t) == \E c \in Callers : call[c].step = "drop" /\ call[c].target = t
WillList(t) == Appending(t) \/ (t \in ItemsIn(links) /\ ~Dropping(t))

(* A link that will be refused, and a target that the device was told of.  *)
Refused(t) == t \notin exists /\ \E i \in DOMAIN up : About(up[i], t) /\ up[i].kind = "link"
Leaving(t) == \E i \in DOMAIN down : down[i].kind = "entityRemoved" /\ down[i].target = t

LinkCall(r) ==
    /\ r.target \in Targets \cup {NoTarget} /\ r.todo \in Seq(Targets)
    /\ r.step \in {"append", "drop"} => r.target \in Targets
    /\ r.step \in {"append", "drop", "next"} => r.op \in LinkCalls

LinkTypes ==
    /\ up \in Seq(UpMessages) /\ down \in Seq(DownMessages)
    /\ links \in Seq(Targets)
    /\ peerLinks \subseteq exists /\ exists \subseteq Targets
    /\ raced \in BOOLEAN /\ connection \in {"open", "closed", "none"}
    /\ connection # "open" => up = <<>> /\ down = <<>> /\ peerLinks = {}
    /\ \A t \in Targets : Leaving(t) => t \notin exists
    /\ \A c \in Callers : LinkCall(call[c])

Alone == \A c, d \in Callers : AtLinks(c) /\ AtLinks(d) => c = d
Settled(t) == Refused(t) \/ Leaving(t) \/ (Will(up, peerLinks, t) <=> WillList(t))
LinkInv == ~raced =>
    /\ Alone
    /\ connection = "none" => links = <<>> /\ \A t \in Targets : ~Appending(t)
    /\ connection = "open" => \A t \in Targets : Settled(t)

-----------------------------------------------------------------------------
LEMMA LinkMessages ==
    ASSUME NEW t \in Targets, NEW kind \in {"link", "unlink"}, NEW m,
           m = [kind |-> kind, target |-> t]
    PROVE  /\ m \in UpMessages /\ m.kind = kind
           /\ \A u : About(m, u) <=> u = t
BY DEF UpMessages, About

LEMMA ItemsAppend ==
    ASSUME NEW S, NEW s \in Seq(S), NEW x \in S
    PROVE  ItemsIn(Append(s, x)) = ItemsIn(s) \cup {x}
<1> DEFINE a == Append(s, x)
<1>1. PICK n \in Nat : n = Len(s)
  OBVIOUS
<1>2. /\ DOMAIN s = 1..n /\ DOMAIN a = 1..n + 1 /\ a[n + 1] = x
      /\ \A i \in 1..n : a[i] = s[i]
  BY <1>1
<1>3. \A i : i \in 1..n + 1 <=> i \in 1..n \/ i = n + 1
  OBVIOUS
<1> HIDE DEF a
<1> QED
  BY <1>2, <1>3 DEF ItemsIn, a

(* One caller is at the links, as long as none came while another was.     *)
LEMMA AloneKept ==
    ASSUME NEW c \in Callers, NEW op, NEW step, CallMoves(c, op, step), Alone,
           op \in LinkCalls => \/ call[c].op \in LinkCalls
                               \/ \A d \in Others(c) : ~AtLinks(d)
    PROVE  Alone'
<1>1. \A d \in Callers \ {c} : AtLinks(d)' <=> AtLinks(d)
  BY DEF CallMoves, AtLinks
<1>2. \A d \in Callers \ {c} : AtLinks(d) => call[d] # NoCall
  BY NoCallFields DEF AtLinks, LinkOps, UnlinkOps, UnlinkAllOps
<1>3. CASE op \notin LinkCalls
  <2>1. ~AtLinks(c)'
    BY <1>3 DEF CallMoves, AtLinks, LinkCalls
  <2> QED
    BY <1>1, <2>1 DEF Alone
<1>4. CASE call[c].op \in LinkCalls
  <2>1. AtLinks(c)
    BY <1>4 DEF AtLinks, LinkCalls
  <2> QED
    BY <1>1, <2>1 DEF Alone
<1>5. CASE \A d \in Others(c) : ~AtLinks(d)
  <2>1. \A d \in Callers \ {c} : ~AtLinks(d)
    BY <1>2, <1>5 DEF Others
  <2> QED
    BY <1>1, <2>1 DEF Alone
<1> QED
  BY <1>3, <1>4, <1>5

LEMMA LinkCallsKept ==
    ASSUME LinkTypes, NEW c \in Callers, NEW op, NEW step, CallMoves(c, op, step),
           LinkCall(call'[c])
    PROVE  \A d \in Callers : LinkCall(call'[d])
BY DEF LinkTypes, CallMoves

(* A call that is not about to change the list, before or after.           *)
LEMMA ListsKept ==
    ASSUME NEW c \in Callers, NEW op, NEW step, CallMoves(c, op, step),
           UNCHANGED links, call[c].step \notin {"append", "drop"},
           step \notin {"append", "drop"}
    PROVE  \A t : /\ Appending(t)' <=> Appending(t)
                  /\ WillList(t)' <=> WillList(t)
<1>1. \A d \in Callers : call'[d].step \in {"append", "drop"} => call'[d] = call[d]
  BY DEF CallMoves
<1>2. \A d \in Callers : call[d].step \in {"append", "drop"} => call'[d] = call[d]
  BY DEF CallMoves
<1> QED
  BY <1>1, <1>2 DEF Appending, Dropping, WillList

LEMMA ReadKeeps ==
    ASSUME LinkTypes,
           NEW m \in UpMessages, m.kind = "read", up' = Append(up, m),
           UNCHANGED <<peerLinks, exists>>
    PROVE  /\ up' \in Seq(UpMessages)
           /\ \A t : /\ Refused(t) => Refused(t)'
                     /\ Will(up', peerLinks', t) <=> Will(up, peerLinks, t)
<1>1. up \in Seq(UpMessages)
  BY DEF LinkTypes
<1>2. \A t : ~About(m, t)
  BY DEF About
<1>3. \A i \in DOMAIN up : i \in DOMAIN up' /\ up'[i] = up[i]
  BY <1>1
<1>4. \A t : Refused(t) => Refused(t)'
  BY <1>3 DEF Refused
<1> QED
  BY <1>1, <1>2, <1>4, WillAppend

(* Calls that are elsewhere, or come and go.                               *)
LEMMA ElsewhereLinks ==
    ASSUME LinkTypes, LinkInv, NEW c \in Callers, NEW op, NEW step,
           CallMoves(c, op, step), LinkCall(call'[c]),
           UNCHANGED <<down, peer, links, peerLinks>>,
           \/ UNCHANGED up
           \/ \E m \in UpMessages : m.kind = "read" /\ Send(m),
           raced => raced', raced' \in BOOLEAN,
           call[c].step \notin {"append", "drop"}, step \notin {"append", "drop"},
           op \in LinkCalls => \/ call[c].op \in LinkCalls \/ raced'
                               \/ \A d \in Others(c) : ~AtLinks(d)
    PROVE  LinkTypes' /\ LinkInv'
<1>1. /\ up' \in Seq(UpMessages)
      /\ \A t : /\ Refused(t) => Refused(t)'
                /\ Will(up', peerLinks', t) <=> Will(up, peerLinks, t)
  <2>1. CASE UNCHANGED up
    BY <2>1 DEF Refused, Will, LinkTypes
  <2>2. CASE \E m \in UpMessages : m.kind = "read" /\ Send(m)
    BY <2>2, ReadKeeps DEF Send
  <2> QED
    BY <2>1, <2>2
<1>2. \A t : Leaving(t)' <=> Leaving(t)
  BY DEF Leaving
<1>3. \A t : /\ Appending(t)' <=> Appending(t)
             /\ WillList(t)' <=> WillList(t)
  BY ListsKept
<1>4. connection # "open" => UNCHANGED up
  BY DEF Send
<1>5. LinkTypes'
  BY <1>1, <1>2, <1>4, LinkCallsKept DEF LinkTypes
<1>6. LinkInv'
  <2> SUFFICES ASSUME ~raced' PROVE LinkInv'
    BY DEF LinkInv
  <2>1. Alone'
    BY AloneKept DEF LinkInv
  <2> QED
    BY <1>1, <1>2, <1>3, <2>1 DEF LinkInv, Settled
<1> QED
  BY <1>5, <1>6

LEMMA StillLinks ==
    ASSUME LinkTypes, LinkInv, UNCHANGED <<call, up, down, peer, lists>>
    PROVE  LinkTypes' /\ LinkInv'
<1>1. \A t : /\ Leaving(t)' <=> Leaving(t)
             /\ Refused(t)' <=> Refused(t)
             /\ Appending(t)' <=> Appending(t)
             /\ WillList(t)' <=> WillList(t)
             /\ Will(up', peerLinks', t) <=> Will(up, peerLinks, t)
  BY DEF Leaving, Refused, Appending, WillList, Will, Dropping
<1>2. LinkTypes'
  BY <1>1 DEF LinkTypes
<1>3. Alone' <=> Alone
  BY DEF Alone, AtLinks
<1> QED
  BY <1>1, <1>2, <1>3 DEF LinkInv, Settled

-----------------------------------------------------------------------------
(* A message about a link is sent, and its caller then changes the list    *)
(* accordingly.                                                            *)
LEMMA SendLink ==
    ASSUME LinkTypes, LinkInv, NEW c \in Callers, NEW op \in LinkCalls,
           NEW t \in Targets, NEW kind \in {"link", "unlink"},
           CallMoves(c, op, IF kind = "link" THEN "append" ELSE "drop"),
           call'[c].target = t, call'[c].todo \in Seq(Targets),
           call[c].step \notin {"append", "drop"},
           Send([kind |-> kind, target |-> t]),
           UNCHANGED <<down, peer, links, peerLinks>>,
           raced => raced', raced' \in BOOLEAN,
           \/ call[c].op \in LinkCalls \/ raced'
           \/ \A d \in Others(c) : ~AtLinks(d)
    PROVE  LinkTypes' /\ LinkInv'
<1> DEFINE step == IF kind = "link" THEN "append" ELSE "drop"
<1>1. PICK m : m = [kind |-> kind, target |-> t]
  OBVIOUS
<1>2. /\ m \in UpMessages /\ m.kind = kind
      /\ \A u : About(m, u) <=> u = t
  BY <1>1, LinkMessages
<1>3. up' = Append(up, m) /\ connection = "open" /\ up \in Seq(UpMessages)
  BY <1>1 DEF Send, LinkTypes
<1>4. PICK n \in Nat : n = Len(up)
  BY <1>3
<1>5. /\ up' \in Seq(UpMessages) /\ DOMAIN up = 1..n /\ DOMAIN up' = 1..n + 1
      /\ up'[n + 1] = m /\ \A i \in 1..n : up'[i] = up[i]
  BY <1>2, <1>3, <1>4
<1>6. \A u : Leaving(u)' <=> Leaving(u)
  BY DEF Leaving
<1>7. LinkCall(call'[c])
  BY DEF LinkCall, CallMoves
<1>8. LinkTypes'
  BY <1>3, <1>5, <1>6, <1>7, LinkCallsKept DEF LinkTypes
<1> SUFFICES ASSUME ~raced' PROVE LinkInv'
  BY <1>8 DEF LinkInv
<1>9. Alone'
  BY AloneKept DEF LinkInv
<1>10. call'[c].op = op /\ call'[c].step = step
  BY DEF CallMoves
<1>11. \A d \in Callers \ {c} : /\ call'[d] = call[d]
                                /\ call[d].step \notin {"append", "drop"}
  <2>1. AtLinks(c)'
    BY <1>10 DEF AtLinks, LinkCalls
  <2>2. \A d \in Callers \ {c} : ~AtLinks(d)'
    BY <1>9, <2>1 DEF Alone
  <2>3. \A d \in Callers \ {c} : call'[d] = call[d]
    BY DEF CallMoves
  <2>4. \A d \in Callers \ {c} : ~AtLinks(d)
    BY <2>2, <2>3 DEF AtLinks
  <2> QED
    BY <2>3, <2>4 DEF LinkTypes, LinkCall, AtLinks, LinkCalls
<1>12. \A u : /\ Appending(u)' <=> u = t /\ kind = "link"
              /\ Dropping(u)' <=> u = t /\ kind = "unlink"
              /\ ~Appending(u) /\ ~Dropping(u)
  <2>1. \A d \in Callers : call[d].step \notin {"append", "drop"}
    BY <1>11
  <2>2. \A d \in Callers : call'[d].step \in {"append", "drop"} <=> d = c
    BY <1>10, <1>11
  <2> QED
    BY <1>10, <2>1, <2>2 DEF Appending, Dropping
<1>13. \A u : Will(up', peerLinks', u)
              <=> IF u = t THEN kind = "link" ELSE Will(up, peerLinks, u)
  BY <1>2, <1>3, WillAppend
<1>14. \A u : Refused(u) => Refused(u)'
  BY <1>5 DEF Refused
<1>15. \A u \in Targets : WillList(u)' <=> IF u = t THEN kind = "link" ELSE WillList(u)
  BY <1>12 DEF WillList
<1>16. \A u \in Targets : Settled(u)'
  BY <1>3, <1>6, <1>13, <1>14, <1>15 DEF LinkInv, Settled
<1> QED
  BY <1>3, <1>9, <1>16 DEF LinkInv

-----------------------------------------------------------------------------
LEMMA NoCallLinks ==
    /\ LinkCall(NoCall) /\ NoCall.op \notin LinkCalls /\ "none" \notin LinkCalls
    /\ NoCall.step \notin {"append", "drop", "next"}
BY DEF LinkCall, NoCall, LinkCalls, LinkOps, UnlinkOps, UnlinkAllOps

(* The list catches up with what was sent: the one call at the links ends, *)
(* or looks for the next link to remove.                                   *)
LEMMA CatchUp ==
    ASSUME LinkTypes, LinkInv, NEW c \in Callers, NEW op, NEW step,
           CallMoves(c, op, step), LinkCall(call'[c]),
           op \in LinkCalls => call[c].op \in LinkCalls,
           call[c].step \in {"append", "drop"}, step \notin {"append", "drop"},
           UNCHANGED <<up, down, peer, peerLinks, raced>>,
           links' \in Seq(Targets),
           connection = "none" /\ ~raced => links' = <<>>,
           NEW t, t = call[c].target,
           ItemsIn(links') = IF call[c].step = "append" THEN ItemsIn(links) \cup {t}
                             ELSE ItemsIn(links) \ {t}
    PROVE  LinkTypes' /\ LinkInv'
<1>1. \A u : /\ Leaving(u)' <=> Leaving(u)
             /\ Refused(u)' <=> Refused(u)
             /\ Will(up', peerLinks', u) <=> Will(up, peerLinks, u)
  BY DEF Leaving, Refused, Will
<1>2. LinkTypes'
  BY <1>1, LinkCallsKept DEF LinkTypes
<1> SUFFICES ASSUME ~raced' PROVE LinkInv'
  BY <1>2 DEF LinkInv
<1>3. Alone /\ Alone'
  BY AloneKept DEF LinkInv
<1>4. \A d \in Callers \ {c} : call[d].step \notin {"append", "drop"}
  <2>1. AtLinks(c)
    BY DEF LinkTypes, LinkCall, AtLinks, LinkCalls
  <2> QED
    BY <1>3, <2>1 DEF Alone, LinkTypes, LinkCall, AtLinks, LinkCalls
<1>5. \A d \in Callers : call'[d].step \notin {"append", "drop"}
  BY <1>4 DEF CallMoves
<1>6. \A u : ~Appending(u)' /\ ~Dropping(u)'
  BY <1>5 DEF Appending, Dropping
<1>7. \A u : /\ Appending(u) <=> call[c].step = "append" /\ u = t
             /\ Dropping(u) <=> call[c].step = "drop" /\ u = t
  BY <1>4 DEF Appending, Dropping
<1>8. \A u : WillList(u)' <=> u \in ItemsIn(links')
  BY <1>6 DEF WillList
<1>9. \A u : WillList(u)' <=> WillList(u)
  BY <1>7, <1>8 DEF WillList
<1> QED
  BY <1>1, <1>3, <1>6, <1>9 DEF LinkInv, Settled

LEMMA AppendLinkLinks ==
    ASSUME TypeInv, LinkTypes, LinkInv, NEW c \in Callers, AppendLink(c)
    PROVE  LinkTypes' /\ LinkInv'
<1>1. CallMoves(c, "none", "idle") /\ call'[c] = NoCall
  BY ReturnMoves DEF AppendLink
<1>2. PICK t : t = call[c].target
  OBVIOUS
<1>3. t \in Targets /\ links \in Seq(Targets)
  BY <1>2 DEF AppendLink, LinkTypes, LinkCall
<1>4. links' = Append(links, t)
  BY <1>2 DEF AppendLink
<1>5. links' \in Seq(Targets) /\ ItemsIn(links') = ItemsIn(links) \cup {t}
  BY <1>3, <1>4, ItemsAppend
<1>6. /\ call[c].step = "append"
      /\ UNCHANGED <<up, down, peer, peerLinks, raced>>
  BY DEF AppendLink
<1>7. ~(connection = "none" /\ ~raced)
  BY <1>2, <1>3, <1>6 DEF LinkInv, Appending
<1> QED
  BY <1>1, <1>2, <1>5, <1>6, <1>7, CatchUp, NoCallLinks

LEMMA DropLinkLinks ==
    ASSUME TypeInv, LinkTypes, LinkInv, NEW c \in Callers, DropLink(c)
    PROVE  LinkTypes' /\ LinkInv'
<1>1. PICK t : t = call[c].target
  OBVIOUS
<1>2. t \in Targets /\ links \in Seq(Targets)
  BY <1>1 DEF DropLink, LinkTypes, LinkCall
<1>3. links' = KeptOf(links, Targets \ {t})
  BY <1>1 DEF DropLink
<1>4. links' \in Seq(Targets) /\ ItemsIn(links') = ItemsIn(links) \cap (Targets \ {t})
  BY <1>2, <1>3, KeptItems
<1>5. ItemsIn(links) \subseteq Targets
  BY <1>2 DEF ItemsIn
<1>6. ItemsIn(links') = ItemsIn(links) \ {t}
  BY <1>4, <1>5
<1>7. /\ call[c].step = "drop"
      /\ UNCHANGED <<up, down, peer, peerLinks, raced>>
  BY DEF DropLink
<1>8. connection = "none" /\ ~raced => links' = <<>>
  <2> SUFFICES ASSUME connection = "none", ~raced PROVE links' = <<>>
    OBVIOUS
  <2>1. links = <<>>
    BY DEF LinkInv
  <2>2. ItemsIn(links) = {}
    BY <2>1 DEF ItemsIn
  <2>3. ItemsIn(links') = {}
    BY <1>6, <2>2
  <2>4. PICK n \in Nat : n = Len(links') /\ DOMAIN links' = 1..n
    BY <1>4
  <2>5. n = 0
    <3>1. n # 0 => 1 \in 1..n
      OBVIOUS
    <3> QED
      BY <2>3, <2>4, <3>1 DEF ItemsIn
  <2> QED
    BY <1>4, <2>4, <2>5
<1>9. CASE Return(c)
  BY <1>1, <1>4, <1>6, <1>7, <1>8, <1>9, ReturnMoves, CatchUp, NoCallLinks
<1>10. CASE GoTo(c, "next")
  <2>1. /\ CallMoves(c, call[c].op, "next")
        /\ call'[c].target = call[c].target /\ call'[c].todo = call[c].todo
    BY <1>10, GoToMoves
  <2>2. LinkCall(call'[c]) /\ call[c].op \in LinkCalls
    BY <1>7, <2>1 DEF LinkTypes, LinkCall, CallMoves
  <2> QED
    BY <1>1, <1>4, <1>6, <1>7, <1>8, <2>1, <2>2, CatchUp
<1> QED
  BY <1>9, <1>10 DEF DropLink

LEMMA RemoveNextLinks ==
    ASSUME TypeInv, LinkTypes, LinkInv, NEW c \in Callers, RemoveNext(c)
    PROVE  LinkTypes' /\ LinkInv'
<1> DEFINE t == Head(call[c].todo)
<1>1. /\ CallMoves(c, call[c].op, IF connection = "open" THEN "drop" ELSE "next")
      /\ call'[c].target = t /\ call'[c].todo = Tail(call[c].todo)
  BY NextMoves
<1>2. call[c].todo \in Seq(Targets) /\ call[c].todo # <<>>
  BY DEF LinkTypes, LinkCall, RemoveNext
<1>3. t \in Targets /\ Tail(call[c].todo) \in Seq(Targets)
  BY <1>2
<1>4. call[c].step = "next" /\ call[c].op \in LinkCalls
  BY DEF RemoveNext, LinkTypes, LinkCall
<1>5. UNCHANGED <<down, peer, links, peerLinks, raced>>
  BY DEF RemoveNext
<1> HIDE DEF t
<1>6. CASE connection = "open"
  <2>1. Send([kind |-> "unlink", target |-> t])
    BY <1>6 DEF RemoveNext, Send, t
  <2> QED
    BY <1>1, <1>3, <1>4, <1>5, <1>6, <2>1, SendLink DEF LinkTypes
<1>7. CASE connection # "open"
  <2>1. LinkCall(call'[c])
    BY <1>1, <1>3, <1>4, <1>7 DEF LinkCall, CallMoves
  <2>2. UNCHANGED up
    BY <1>7 DEF RemoveNext
  <2> QED
    BY <1>1, <1>4, <1>5, <1>7, <2>1, <2>2, ElsewhereLinks DEF LinkTypes
<1> QED
  BY <1>6, <1>7

LEMMA BeginLinks ==
    ASSUME TypeInv, LinkTypes, LinkInv, NEW c \in Callers, NEW op \in LinkCalls,
           NEW t \in Targets, NEW kind \in {"link", "unlink"},
           Begin(c, op, IF kind = "link" THEN "append" ELSE "drop", t, <<>>),
           Send([kind |-> kind, target |-> t]), Raced(c),
           UNCHANGED <<down, peer, links, peerLinks>>
    PROVE  LinkTypes' /\ LinkInv'
<1>1. /\ CallMoves(c, op, IF kind = "link" THEN "append" ELSE "drop")
      /\ call[c] = NoCall /\ call'[c].target = t /\ call'[c].todo = <<>>
  BY BeginMoves
<1>2. call'[c].todo \in Seq(Targets)
  BY <1>1
<1>3. /\ raced' \in BOOLEAN /\ (raced => raced')
      /\ raced' \/ \A d \in Others(c) : ~AtLinks(d)
  BY DEF Raced, LinkTypes
<1>4. call[c].step \notin {"append", "drop"}
  BY <1>1, NoCallLinks
<1> QED
  BY <1>1, <1>2, <1>3, <1>4, SendLink

LEMMA LinkCallLinks ==
    ASSUME TypeInv, LinkTypes, LinkInv, NEW c \in Callers, NEW t \in Targets,
           \/ SubscribeToRemote(c, t) \/ BindToRemote(c, t)
           \/ RemoveRemoteSubscription(c, t) \/ RemoveRemoteBinding(c, t)
    PROVE  LinkTypes' /\ LinkInv'
<1>1. CASE SubscribeToRemote(c, t)
  BY <1>1, BeginLinks DEF SubscribeToRemote, LinkCalls, LinkOps
<1>2. CASE BindToRemote(c, t)
  BY <1>2, BeginLinks DEF BindToRemote, LinkCalls, LinkOps
<1>3. CASE RemoveRemoteSubscription(c, t)
  BY <1>3, BeginLinks DEF RemoveRemoteSubscription, LinkCalls, UnlinkOps
<1>4. CASE RemoveRemoteBinding(c, t)
  BY <1>4, BeginLinks DEF RemoveRemoteBinding, LinkCalls, UnlinkOps
<1> QED
  BY <1>1, <1>2, <1>3, <1>4

LEMMA RemoveAllLinks ==
    ASSUME TypeInv, LinkTypes, LinkInv, NEW c \in Callers, NEW op \in UnlinkAllOps,
           RemoveAll(c, op)
    PROVE  LinkTypes' /\ LinkInv'
<1>1. /\ CallMoves(c, op, "next") /\ call[c] = NoCall
      /\ call'[c].target = NoTarget /\ call'[c].todo = links
  BY BeginMoves DEF RemoveAll
<1>2. /\ raced' \in BOOLEAN /\ (raced => raced')
      /\ raced' \/ \A d \in Others(c) : ~AtLinks(d)
  BY DEF RemoveAll, Raced, LinkTypes
<1>3. UNCHANGED <<up, down, peer, links, peerLinks>>
  BY DEF RemoveAll
<1>4. op \in LinkCalls
  BY DEF LinkCalls
<1>5. LinkCall(call'[c])
  BY <1>1, <1>4 DEF LinkCall, CallMoves, LinkTypes
<1>6. call[c].step \notin {"append", "drop"}
  BY <1>1, NoCallLinks
<1>7. UNCHANGED peer
  BY DEF RemoveAll
<1> QED
  BY <1>1, <1>2, <1>3, <1>5, <1>6, <1>7, ElsewhereLinks

LEMMA RemovedAllLinks ==
    ASSUME TypeInv, LinkTypes, LinkInv, NEW c \in Callers, RemovedAll(c)
    PROVE  LinkTypes' /\ LinkInv'
<1>1. call[c].step = "next" /\ UNCHANGED <<up, down, peer, lists>>
  BY DEF RemovedAll
<1>2. CASE Return(c)
  <2>1. CallMoves(c, "none", "idle") /\ call'[c] = NoCall
    BY <1>2, ReturnMoves
  <2>2. "none" \notin LinkCalls
    BY DEF LinkCalls, LinkOps, UnlinkOps, UnlinkAllOps
  <2> QED
    BY <1>1, <2>1, <2>2, NoCallLinks, ElsewhereLinks DEF LinkTypes
<1>3. CASE GoTo(c, "stop")
  <2>1. /\ CallMoves(c, call[c].op, "stop")
        /\ call'[c].target = call[c].target /\ call'[c].todo = call[c].todo
    BY <1>3, GoToMoves
  <2>2. LinkCall(call'[c])
    BY <2>1 DEF LinkTypes, LinkCall, CallMoves
  <2> QED
    BY <1>1, <2>1, <2>2, ElsewhereLinks DEF LinkTypes
<1> QED
  BY <1>2, <1>3 DEF RemovedAll

-----------------------------------------------------------------------------
(* Calls that have nothing to do with links.                               *)
LEMMA OtherCallLinks ==
    ASSUME TypeInv, LinkTypes, LinkInv, NEW c \in Callers,
           \/ GetOrAddFeature(c) \/ CreateFeature(c) \/ HeartbeatStep(c)
           \/ AddResponseCallback(c)
    PROVE  LinkTypes' /\ LinkInv'
<1>1. UNCHANGED <<up, down, peer, lists>>
  BY DEF GetOrAddFeature, CreateFeature, AddResponseCallback, HeartbeatStep,
         SetLocalFeature, StartHeartbeat, StopHeartbeat, HeartbeatCall,
         AskRunning, CloseChannel, MakeChannel, StartTicker
<1>2. ASSUME NEW op, NEW step, Begin(c, op, step, NoTarget, <<>>),
             op \notin LinkCalls, step \notin {"append", "drop", "next"}
      PROVE  LinkTypes' /\ LinkInv'
  <2>1. /\ CallMoves(c, op, step) /\ call[c] = NoCall
        /\ call'[c].target = NoTarget /\ call'[c].todo = <<>>
    BY <1>2, BeginMoves
  <2>2. LinkCall(call'[c])
    BY <1>2, <2>1 DEF LinkCall, CallMoves
  <2>3. call[c].step \notin {"append", "drop"}
    BY <2>1, NoCallLinks
  <2> QED
    BY <1>1, <1>2, <2>1, <2>2, <2>3, ElsewhereLinks DEF LinkTypes
<1>3. ASSUME Return(c), call[c].step \notin {"append", "drop"}
      PROVE  LinkTypes' /\ LinkInv'
  <2>1. CallMoves(c, "none", "idle") /\ call'[c] = NoCall
    BY <1>3, ReturnMoves
  <2> QED
    BY <1>1, <1>3, <2>1, NoCallLinks, ElsewhereLinks DEF LinkTypes
<1>4. ASSUME NEW step, GoTo(c, step), call[c].step \notin {"append", "drop"},
             step \notin {"append", "drop", "next"}
      PROVE  LinkTypes' /\ LinkInv'
  <2>1. /\ CallMoves(c, call[c].op, step)
        /\ call'[c].target = call[c].target /\ call'[c].todo = call[c].todo
    BY <1>4, GoToMoves
  <2>2. LinkCall(call'[c])
    BY <1>4, <2>1 DEF LinkTypes, LinkCall, CallMoves
  <2> QED
    BY <1>1, <1>4, <2>1, <2>2, ElsewhereLinks DEF LinkTypes
<1>5. CASE GetOrAddFeature(c)
  <2>1. "GetOrAddFeature" \notin LinkCalls
    BY DEF LinkCalls, LinkOps, UnlinkOps, UnlinkAllOps
  <2>2. PICK step \in {"create", "found"} :
           Begin(c, "GetOrAddFeature", step, NoTarget, <<>>)
    BY <1>5 DEF GetOrAddFeature
  <2> QED
    BY <1>2, <2>1, <2>2
<1>6. CASE SetLocalFeature(c) \/ StartHeartbeat(c) \/ StopHeartbeat(c)
  <2>1. PICK op \in BeatOps : Begin(c, op, "stop", NoTarget, <<>>)
    BY <1>6 DEF SetLocalFeature, StartHeartbeat, StopHeartbeat, HeartbeatCall,
                BeatOps
  <2>2. op \notin LinkCalls
    BY DEF BeatOps, LinkCalls, LinkOps, UnlinkOps, UnlinkAllOps
  <2> QED
    BY <1>2, <2>1, <2>2
<1>7. CASE CreateFeature(c) \/ StartTicker(c) \/ AddResponseCallback(c)
  BY <1>3, <1>7 DEF CreateFeature, StartTicker, AddResponseCallback
<1>8. CASE AskRunning(c) \/ CloseChannel(c) \/ MakeChannel(c)
  BY <1>3, <1>4, <1>8 DEF AskRunning, CloseChannel, MakeChannel, Stopped
<1> QED
  BY <1>5, <1>6, <1>7, <1>8 DEF HeartbeatStep

LEMMA RequestLinks ==
    ASSUME TypeInv, AnswerInv, LinkTypes, LinkInv, NEW c \in Callers,
           RequestRemoteData(c)
    PROVE  LinkTypes' /\ LinkInv'
<1>1. /\ CallMoves(c, "RequestRemoteData", "register") /\ call[c] = NoCall
      /\ call'[c].target = NoTarget /\ call'[c].todo = <<>>
  BY BeginMoves DEF RequestRemoteData
<1>2. "RequestRemoteData" \notin LinkCalls
  BY DEF LinkCalls, LinkOps, UnlinkOps, UnlinkAllOps
<1>3. LinkCall(call'[c])
  BY <1>1 DEF LinkCall, CallMoves
<1>4. call[c].step \notin {"append", "drop"}
  BY <1>1, NoCallLinks
<1>5. \E m \in UpMessages : m.kind = "read" /\ Send(m)
  <2>1. PICK m : m = [kind |-> "read", counter |-> msgNum + 1]
    OBVIOUS
  <2>2. m \in UpMessages /\ m.kind = "read"
    BY <2>1 DEF AnswerInv, UpMessages
  <2>3. Send(m)
    BY <2>1 DEF RequestRemoteData
  <2> QED
    BY <2>2, <2>3
<1>6. UNCHANGED <<down, peer, lists>>
  BY DEF RequestRemoteData
<1> QED
  BY <1>1, <1>2, <1>3, <1>4, <1>5, <1>6, ElsewhereLinks DEF LinkTypes

-----------------------------------------------------------------------------
(* A message from the remote device is taken: what is not of an entity     *)
(* that left changes no link.                                              *)
LEMMA DownTail ==
    ASSUME LinkTypes, down # <<>>, down' = Tail(down)
    PROVE  /\ Head(down) \in DownMessages /\ down' \in Seq(DownMessages)
           /\ \A t : Leaving(t)' => Leaving(t)
           /\ \A t : Leaving(t) => \/ Leaving(t)'
                                   \/ /\ Head(down).kind = "entityRemoved"
                                      /\ Head(down).target = t
<1>1. PICK n \in Nat : n = Len(down) /\ n > 0
  BY DEF LinkTypes
<1>2. /\ DOMAIN down = 1..n /\ DOMAIN down' = 1..n - 1 /\ Head(down) = down[1]
      /\ \A i \in 1..n - 1 : down'[i] = down[i + 1]
      /\ down' \in Seq(DownMessages) /\ Head(down) \in DownMessages
  BY <1>1 DEF LinkTypes
<1>3. \A i \in 1..n : i = 1 \/ i - 1 \in 1..n - 1
  OBVIOUS
<1>4. \A i \in 1..n - 1 : i + 1 \in 1..n
  OBVIOUS
<1>5. \A i \in 1..n : i # 1 => down'[i - 1] = down[i]
  BY <1>2, <1>3
<1>6. \A t : Leaving(t)' => Leaving(t)
  BY <1>2, <1>4 DEF Leaving
<1>7. ASSUME NEW t, Leaving(t), ~Leaving(t)'
      PROVE  Head(down).kind = "entityRemoved" /\ Head(down).target = t
  <2>1. PICK i \in 1..n : down[i].kind = "entityRemoved" /\ down[i].target = t
    BY <1>2, <1>7 DEF Leaving
  <2>2. i = 1
    BY <1>2, <1>3, <1>5, <1>7, <2>1 DEF Leaving
  <2> QED
    BY <1>2, <2>1, <2>2
<1> QED
  BY <1>2, <1>6, <1>7

LEMMA HandleAnswerLinks ==
    ASSUME LinkTypes, LinkInv, HandleAnswer
    PROVE  LinkTypes' /\ LinkInv'
<1>1. /\ UNCHANGED <<call, up, peer, lists>>
      /\ down # <<>> /\ down' = Tail(down) /\ connection = "open"
      /\ Head(down).kind # "entityRemoved"
  BY DEF HandleAnswer
<1>2. down' \in Seq(DownMessages) /\ \A t : Leaving(t)' <=> Leaving(t)
  BY <1>1, DownTail
<1>3. \A t : /\ Refused(t)' <=> Refused(t)
             /\ Appending(t)' <=> Appending(t)
             /\ WillList(t)' <=> WillList(t)
             /\ Will(up', peerLinks', t) <=> Will(up, peerLinks, t)
  BY <1>1 DEF Refused, Appending, WillList, Will, Dropping
<1>4. LinkTypes'
  BY <1>1, <1>2 DEF LinkTypes
<1>5. Alone' <=> Alone
  BY <1>1 DEF Alone, AtLinks
<1> QED
  BY <1>1, <1>2, <1>3, <1>4, <1>5 DEF LinkInv, Settled

LEMMA CleanEntityLinks ==
    ASSUME LinkTypes, LinkInv, CleanRemoteEntityCaches
    PROVE  LinkTypes' /\ LinkInv'
<1>1. PICK t : t = Head(down).target
  OBVIOUS
<1>2. /\ UNCHANGED <<call, up, peer, peerLinks>>
      /\ down # <<>> /\ down' = Tail(down) /\ connection = "open"
      /\ Head(down).kind = "entityRemoved"
      /\ links' = KeptOf(links, Targets \ {t})
      /\ raced' = (raced \/ \E c \in Callers : call[c].step = "append")
  BY <1>1 DEF CleanRemoteEntityCaches
<1>3. /\ Head(down) \in DownMessages /\ down' \in Seq(DownMessages)
      /\ \A u : Leaving(u)' => Leaving(u)
      /\ \A u : Leaving(u) => Leaving(u)' \/ u = t
  BY <1>1, <1>2, DownTail
<1>4. t \in Targets /\ Leaving(t)
  <2>1. t \in Targets
    BY <1>1, <1>2, <1>3 DEF DownMessages
  <2>2. 1 \in DOMAIN down /\ Head(down) = down[1]
    BY <1>2 DEF LinkTypes
  <2> QED
    BY <1>1, <1>2, <2>1, <2>2 DEF Leaving
<1>5. links' \in Seq(Targets) /\ ItemsIn(links') = ItemsIn(links) \cap (Targets \ {t})
  BY <1>2, KeptItems DEF LinkTypes
<1>6. \A u : /\ Refused(u)' <=> Refused(u)
             /\ Appending(u)' <=> Appending(u)
             /\ Dropping(u)' <=> Dropping(u)
             /\ Will(up', peerLinks', u) <=> Will(up, peerLinks, u)
  BY <1>2 DEF Refused, Appending, Will, Dropping
<1>7. LinkTypes'
  BY <1>2, <1>3, <1>5 DEF LinkTypes
<1> SUFFICES ASSUME ~raced' PROVE LinkInv'
  BY <1>7 DEF LinkInv
<1>8. ~raced /\ \A c \in Callers : call[c].step # "append"
  BY <1>2
<1>9. Alone'
  BY <1>2, <1>8 DEF Alone, AtLinks, LinkInv
<1>10. ASSUME NEW u \in Targets, u # t
       PROVE  Settled(u)'
  <2>1. WillList(u)' <=> WillList(u)
    BY <1>5, <1>6, <1>10 DEF WillList
  <2> QED
    BY <1>2, <1>3, <1>6, <1>8, <1>10, <2>1 DEF LinkInv, Settled
<1>11. Refused(t)' \/ (Will(up', peerLinks', t) <=> WillList(t)')
  <2> SUFFICES ASSUME ~Refused(t) PROVE ~Will(up, peerLinks, t) /\ ~WillList(t)'
    BY <1>6
  <2>1. t \notin exists /\ t \notin peerLinks
    BY <1>4 DEF LinkTypes
  <2>2. ~Will(up, peerLinks, t)
    BY <2>1 DEF Will, Refused
  <2>3. ~Appending(t)
    BY <1>8 DEF Appending
  <2> QED
    BY <1>5, <1>6, <2>2, <2>3 DEF WillList
<1> QED
  BY <1>2, <1>9, <1>10, <1>11 DEF LinkInv, Settled

(* The messages to the remote device get one fewer.                        *)
LEMMA UpTail ==
    ASSUME LinkTypes, up # <<>>, up' = Tail(up)
    PROVE  /\ Head(up) \in UpMessages /\ up' \in Seq(UpMessages)
           /\ \A t : t \notin exists' /\ t \notin exists /\ Refused(t) =>
                 Refused(t)' \/ (About(Head(up), t) /\ Head(up).kind = "link")
<1>1. PICK n \in Nat : n = Len(up) /\ n > 0
  BY DEF LinkTypes
<1>2. /\ DOMAIN up = 1..n /\ DOMAIN up' = 1..n - 1 /\ Head(up) = up[1]
      /\ \A i \in 1..n - 1 : up'[i] = up[i + 1]
      /\ up' \in Seq(UpMessages) /\ Head(up) \in UpMessages
  BY <1>1 DEF LinkTypes
<1>3. \A i \in 1..n : i = 1 \/ i - 1 \in 1..n - 1
  OBVIOUS
<1>4. \A i \in 1..n : i # 1 => up'[i - 1] = up[i]
  BY <1>2, <1>3
<1>5. ASSUME NEW t, t \notin exists', Refused(t), ~Refused(t)'
      PROVE  About(Head(up), t) /\ Head(up).kind = "link"
  <2>1. PICK i \in 1..n : About(up[i], t) /\ up[i].kind = "link"
    BY <1>2, <1>5 DEF Refused
  <2>2. i = 1
    BY <1>2, <1>3, <1>4, <1>5, <2>1 DEF Refused
  <2> QED
    BY <1>2, <2>1, <2>2
<1> QED
  BY <1>2, <1>5

LEMMA PeerLinksLinks ==
    ASSUME LinkTypes, LinkInv, PeerLinks
    PROVE  LinkTypes' /\ LinkInv'
<1>1. PICK m : m = Head(up)
  OBVIOUS
<1>2. /\ UNCHANGED <<call, down, peer, links>> /\ up # <<>> /\ up' = Tail(up)
      /\ m.kind \in {"link", "unlink"}
      /\ peerLinks' = IF m.kind = "link"
                      THEN peerLinks \cup ({m.target} \cap exists)
                      ELSE peerLinks \ {m.target}
      /\ raced' = (raced \/ (m.kind = "link" /\ m.target \notin exists))
  BY <1>1 DEF PeerLinks
<1>3. /\ m \in UpMessages /\ up' \in Seq(UpMessages)
      /\ \A t : Refused(t) => Refused(t)' \/ (m.target = t /\ m.kind = "link")
  <2>1. \A t : Refused(t) => t \notin exists
    BY DEF Refused
  <2> QED
    BY <1>1, <1>2, <2>1, UpTail DEF About
<1>4. \A t : /\ Leaving(t)' <=> Leaving(t)
             /\ Appending(t)' <=> Appending(t)
             /\ WillList(t)' <=> WillList(t)
  BY <1>2 DEF Leaving, Appending, WillList, Dropping
<1>5. connection = "open"
  BY <1>2 DEF LinkTypes
<1>6. LinkTypes'
  BY <1>2, <1>3, <1>4, <1>5 DEF LinkTypes
<1> SUFFICES ASSUME ~raced' PROVE LinkInv'
  BY <1>6 DEF LinkInv
<1>7. ~raced /\ (m.kind = "link" => m.target \in exists)
  BY <1>2
<1>8. Alone'
  BY <1>2, <1>7 DEF Alone, AtLinks, LinkInv
<1>9. ASSUME NEW t \in Targets
      PROVE  Will(up', peerLinks', t) <=> Will(up, peerLinks, t)
  <2>1. t \in peerLinks' <=> IF About(m, t) THEN m.kind = "link" ELSE t \in peerLinks
    BY <1>2, <1>7 DEF About
  <2>2. t \in peerLinks'
        <=> IF About(Head(up), t) THEN Head(up).kind = "link" ELSE t \in peerLinks
    BY <1>1, <2>1
  <2>3. up \in Seq(UpMessages)
    BY DEF LinkTypes
  <2>4. Will(Tail(up), peerLinks', t) <=> Will(up, peerLinks, t)
    BY <1>2, <2>2, <2>3, WillTail
  <2> QED
    BY <1>2, <2>4
<1>10. \A t : Refused(t) => Refused(t)'
  BY <1>3, <1>7 DEF Refused
<1> QED
  BY <1>2, <1>4, <1>5, <1>7, <1>8, <1>9, <1>10 DEF LinkInv, Settled

-----------------------------------------------------------------------------
Kinds == {<<"reply">>, <<"refusedReply">>, <<"result", "reply">>}

LEMMA PeerAnswersLinks ==
    ASSUME LinkTypes, LinkInv, NEW kinds \in Kinds, PeerAnswers(kinds)
    PROVE  LinkTypes' /\ LinkInv'
<1>1. PICK m : m = Head(up)
  OBVIOUS
<1> DEFINE new == [i \in 1..Len(kinds) |-> [kind |-> kinds[i], counter |-> m.counter]]
<1>2. /\ UNCHANGED <<call, peer, lists>> /\ up # <<>> /\ up' = Tail(up)
      /\ m.kind = "read" /\ down' = down \o new
  BY <1>1 DEF PeerAnswers
<1>3. /\ m \in UpMessages /\ up' \in Seq(UpMessages)
      /\ \A t : Refused(t) => Refused(t)'
  <2>1. \A t : Refused(t) => t \notin exists
    BY DEF Refused
  <2> QED
    BY <1>1, <1>2, <2>1, UpTail DEF About
<1>4. m.counter \in Nat
  BY <1>2, <1>3 DEF UpMessages
<1>5. PICK k \in Nat : k = Len(kinds)
  BY DEF Kinds
<1>6. \A i \in 1..k : kinds[i] \in {"reply", "refusedReply", "result"}
  BY <1>5 DEF Kinds
<1>7. \A i \in 1..k : new[i] \in DownMessages /\ new[i].kind # "entityRemoved"
  <2> TAKE i \in 1..k
  <2>1. new[i] = [kind |-> kinds[i], counter |-> m.counter]
    BY <1>5
  <2> QED
    BY <1>4, <1>6, <2>1 DEF DownMessages
<1>8. new \in Seq(DownMessages) /\ Len(new) = k /\ DOMAIN new = 1..k
  BY <1>5, <1>7
<1> HIDE DEF new
<1>9. PICK n \in Nat : n = Len(down) /\ DOMAIN down = 1..n /\ down \in Seq(DownMessages)
  BY DEF LinkTypes
<1>10. /\ down' \in Seq(DownMessages) /\ DOMAIN down' = 1..n + k
       /\ \A i \in 1..n + k : down'[i] = IF i <= n THEN down[i] ELSE new[i - n]
  BY <1>2, <1>8, <1>9
<1>11. \A t : Leaving(t)' <=> Leaving(t)
  <2>1. \A i \in 1..n + k : i <= n => i \in 1..n
    OBVIOUS
  <2>2. \A i \in 1..n + k : ~(i <= n) => i - n \in 1..k
    OBVIOUS
  <2>3. \A i \in 1..n : i \in 1..n + k /\ i <= n
    OBVIOUS
  <2>4. \A t : Leaving(t) => Leaving(t)'
    BY <1>9, <1>10, <2>3 DEF Leaving
  <2>5. \A t : Leaving(t)' => Leaving(t)
    BY <1>7, <1>9, <1>10, <2>1, <2>2 DEF Leaving
  <2> QED
    BY <2>4, <2>5
<1>12. connection = "open"
  BY <1>2 DEF LinkTypes
<1>13. \A t : Will(up', peerLinks', t) <=> Will(up, peerLinks, t)
  <2> TAKE t
  <2>1. ~About(Head(up), t)
    BY <1>1, <1>2 DEF About
  <2>2. up \in Seq(UpMessages)
    BY DEF LinkTypes
  <2>3. Will(Tail(up), peerLinks, t) <=> Will(up, peerLinks, t)
    BY <1>2, <2>1, <2>2, WillTail
  <2> QED
    BY <1>2, <2>3
<1>14. \A t : /\ Appending(t)' <=> Appending(t)
              /\ WillList(t)' <=> WillList(t)
  BY <1>2 DEF Appending, WillList, Dropping
<1>15. LinkTypes'
  BY <1>2, <1>3, <1>10, <1>11, <1>12 DEF LinkTypes
<1>16. Alone' <=> Alone
  BY <1>2 DEF Alone, AtLinks
<1> QED
  BY <1>2, <1>3, <1>11, <1>13, <1>14, <1>15, <1>16 DEF LinkInv, Settled

LEMMA PeerRemovesLinks ==
    ASSUME LinkTypes, LinkInv, NEW t \in Targets, PeerRemovesEntity(t)
    PROVE  LinkTypes' /\ LinkInv'
<1>1. PICK m : m = [kind |-> "entityRemoved", target |-> t]
  OBVIOUS
<1>2. /\ UNCHANGED <<call, up, connection, links, raced>>
      /\ exists' = exists \ {t} /\ peerLinks' = peerLinks \ {t}
      /\ down' = Append(down, m) /\ connection = "open"
  BY <1>1 DEF PeerRemovesEntity
<1>3. m \in DownMessages /\ m.kind = "entityRemoved" /\ m.target = t
  BY <1>1 DEF DownMessages
<1>4. PICK n \in Nat : n = Len(down) /\ DOMAIN down = 1..n /\ down \in Seq(DownMessages)
  BY DEF LinkTypes
<1>5. /\ down' \in Seq(DownMessages) /\ DOMAIN down' = 1..n + 1
      /\ down'[n + 1] = m /\ \A i \in 1..n : down'[i] = down[i]
  BY <1>2, <1>3, <1>4
<1>6. \A u : Leaving(u)' <=> Leaving(u) \/ u = t
  <2>1. \A i : i \in 1..n + 1 <=> i \in 1..n \/ i = n + 1
    OBVIOUS
  <2> QED
    BY <1>3, <1>4, <1>5, <2>1 DEF Leaving
<1>7. LinkTypes'
  BY <1>2, <1>5, <1>6 DEF LinkTypes
<1>8. \A u : /\ Refused(u) => Refused(u)'
             /\ Appending(u)' <=> Appending(u)
             /\ WillList(u)' <=> WillList(u)
             /\ u # t => (Will(up', peerLinks', u) <=> Will(up, peerLinks, u))
  BY <1>2 DEF Refused, Appending, WillList, Will, Dropping
<1>9. Alone' <=> Alone
  BY <1>2 DEF Alone, AtLinks
<1> QED
  BY <1>2, <1>6, <1>7, <1>8, <1>9 DEF LinkInv, Settled

-----------------------------------------------------------------------------
(* The connection breaks, the caches are cleaned, a new one is set up.     *)
LEMMA NothingThere ==
    ASSUME NEW P, NEW t, t \notin P
    PROVE  ~Will(<<>>, P, t)
BY DEF Will

LEMMA DisconnectLinks ==
    ASSUME LinkTypes, LinkInv, Disconnect
    PROVE  LinkTypes' /\ LinkInv'
<1>1. /\ UNCHANGED <<call, exists, links, raced>> /\ connection' = "closed"
      /\ up' = <<>> /\ down' = <<>> /\ peerLinks' = {}
  BY DEF Disconnect
<1>2. \A t : ~Leaving(t)'
  BY <1>1 DEF Leaving
<1>3. LinkTypes'
  BY <1>1, <1>2 DEF LinkTypes
<1>4. Alone' <=> Alone
  BY <1>1 DEF Alone, AtLinks
<1> QED
  BY <1>1, <1>3, <1>4 DEF LinkInv

LEMMA CleanDeviceLinks ==
    ASSUME LinkTypes, LinkInv, CleanRemoteDeviceCaches
    PROVE  LinkTypes' /\ LinkInv'
<1>1. /\ UNCHANGED <<call, exists, up, down, peerLinks>>
      /\ connection = "closed" /\ connection' = "none" /\ links' = <<>>
      /\ raced' = (raced \/ \E c \in Callers : call[c].step = "append")
  BY DEF CleanRemoteDeviceCaches
<1>2. \A t : Leaving(t)' <=> Leaving(t)
  BY <1>1 DEF Leaving
<1>3. LinkTypes'
  BY <1>1, <1>2 DEF LinkTypes
<1>4. Alone' <=> Alone
  BY <1>1 DEF Alone, AtLinks
<1>5. \A t : ~raced' => ~Appending(t)'
  BY <1>1 DEF Appending
<1> QED
  BY <1>1, <1>3, <1>4, <1>5 DEF LinkInv

LEMMA SetupLinks ==
    ASSUME LinkTypes, LinkInv, SetupRemoteDevice
    PROVE  LinkTypes' /\ LinkInv'
<1>1. /\ UNCHANGED <<call, up, down, lists>> /\ exists' = Targets
      /\ connection = "none" /\ connection' = "open"
  BY DEF SetupRemoteDevice
<1>2. up = <<>> /\ down = <<>> /\ peerLinks = {}
  BY <1>1 DEF LinkTypes
<1>3. \A t : ~Leaving(t)'
  BY <1>1, <1>2 DEF Leaving
<1>4. LinkTypes'
  BY <1>1, <1>2, <1>3 DEF LinkTypes
<1>5. Alone' <=> Alone
  BY <1>1 DEF Alone, AtLinks
<1>6. ASSUME ~raced'
      PROVE  \A t \in Targets : Settled(t)'
  <2>1. links' = <<>> /\ \A t \in Targets : ~Appending(t)'
    BY <1>1, <1>6 DEF LinkInv, Appending
  <2>2. ItemsIn(links') = {}
    BY <2>1 DEF ItemsIn
  <2>3. \A t \in Targets : ~WillList(t)'
    BY <2>1, <2>2 DEF WillList
  <2>4. \A t \in Targets : ~Will(up', peerLinks', t)
    BY <1>1, <1>2, NothingThere
  <2> QED
    BY <2>3, <2>4 DEF Settled
<1> QED
  BY <1>1, <1>4, <1>5, <1>6 DEF LinkInv

LEMMA InitLinks == Init => LinkTypes /\ LinkInv
<1> SUFFICES ASSUME Init PROVE LinkTypes /\ LinkInv
  OBVIOUS
<1>1. /\ up = <<>> /\ down = <<>> /\ links = <<>> /\ peerLinks = {}
      /\ exists = Targets /\ raced = FALSE /\ connection = "open"
      /\ \A c \in Callers : call[c] = NoCall
  BY DEF Init
<1>7. /\ up \in Seq(UpMessages) /\ down \in Seq(DownMessages)
      /\ links \in Seq(Targets) /\ raced \in BOOLEAN
  <2>1. \A S : <<>> \in Seq(S)
    OBVIOUS
  <2> QED
    BY <1>1, <2>1
<1>2. \A c \in Callers : /\ call[c].step \notin {"append", "drop"}
                         /\ ~AtLinks(c)
  BY <1>1, NoCallLinks DEF AtLinks, LinkCalls
<1>3. \A t : ~Leaving(t) /\ ~Appending(t)
  BY <1>1, <1>2 DEF Leaving, Appending
<1>4. LinkTypes
  BY <1>1, <1>3, <1>7, NoCallLinks DEF LinkTypes
<1>5. ItemsIn(links) = {}
  BY <1>1 DEF ItemsIn
<1>6. \A t \in Targets : ~Will(up, peerLinks, t) /\ ~WillList(t)
  BY <1>1, <1>3, <1>5, NothingThere DEF WillList
<1> QED
  BY <1>1, <1>2, <1>4, <1>6 DEF LinkInv, Alone, Settled

LEMMA StepLinks ==
    TypeInv /\ AnswerInv /\ LinkTypes /\ LinkInv /\ [Next]_vars
    => LinkTypes' /\ LinkInv'
<1> SUFFICES ASSUME TypeInv, AnswerInv, LinkTypes, LinkInv, [Next]_vars
             PROVE  LinkTypes' /\ LinkInv'
  OBVIOUS
<1>1. CASE UNCHANGED vars
  BY <1>1, StillLinks DEF vars
<1>2. ASSUME NEW c \in Callers, CallStep(c)
      PROVE  LinkTypes' /\ LinkInv'
  BY <1>2, OtherCallLinks, RequestLinks, LinkCallLinks, RemoveAllLinks,
     AppendLinkLinks, DropLinkLinks, RemoveNextLinks, RemovedAllLinks
     DEF CallStep, LinkStep
<1>3. ASSUME NEW i \in 1..Len(ticker), TickerStep(i)
      PROVE  LinkTypes' /\ LinkInv'
  BY <1>3, StillLinks DEF TickerStep, Tick, SetHeartbeat, EndTicker
<1>4. CASE HandleAnswer \/ CleanRemoteEntityCaches
  BY <1>4, HandleAnswerLinks, CleanEntityLinks
<1>5. CASE PeerStep
  BY <1>5, PeerLinksLinks, PeerAnswersLinks, PeerRemovesLinks DEF PeerStep, Kinds
<1>6. CASE Disconnect \/ CleanRemoteDeviceCaches \/ SetupRemoteDevice
  BY <1>6, DisconnectLinks, CleanDeviceLinks, SetupLinks
<1> QED
  BY <1>1, <1>2, <1>3, <1>4, <1>5, <1>6 DEF Next

LEMMA LinkInvFollow == LinkTypes /\ LinkInv => LinksFollow
<1> SUFFICES ASSUME LinkTypes, LinkInv, Quiet, up = <<>>, down = <<>>,
                    connection # "closed", ~raced
             PROVE  ItemsIn(links) = peerLinks
  BY DEF LinksFollow
<1>1. ItemsIn(links) \subseteq Targets /\ peerLinks \subseteq Targets
  BY DEF ItemsIn, LinkTypes
<1>2. CASE connection = "none"
  BY <1>2 DEF ItemsIn, LinkTypes, LinkInv
<1>3. CASE connection = "open"
  <2>1. \A t \in Targets : Settled(t)
    BY <1>3 DEF LinkInv
  <2>2. \A t : ~Refused(t) /\ ~Leaving(t)
    BY DEF Refused, Leaving
  <2>3. \A c \in Callers : call[c].step \notin {"append", "drop"}
    BY NoCallLinks DEF Quiet
  <2>4. \A t : WillList(t) <=> t \in ItemsIn(links)
    BY <2>3 DEF WillList, Appending, Dropping
  <2>5. \A t : Will(up, peerLinks, t) <=> t \in peerLinks
    BY DEF Will
  <2> QED
    BY <1>1, <2>1, <2>2, <2>4, <2>5 DEF Settled
<1> QED
  BY <1>2, <1>3 DEF LinkTypes

-----------------------------------------------------------------------------
(* Counting.  Whoever is about to create a feature has found none.         *)
Creating == {c \in Callers : call[c].step = "create"}

FeatureInv ==
    /\ features \in Nat
    /\ features + Cardinality(Creating) <= Cardinality(Callers)
    /\ ~overlapped => /\ features <= 1
                      /\ \A c, d \in Creating : c = d /\ features = 0

CountInv ==
    /\ workload \in Workloads
    /\ generation \in 1..MaxGeneration
    /\ connection # "open" => generation < MaxGeneration
    /\ calls \in 0..MaxCalls
    /\ heartBeatNum <= MaxTicks + calls
    /\ heartbeat \in 0..heartBeatNum
    /\ \A i \in DOMAIN ticker : ticker[i].counter <= heartBeatNum

LEMMA CreatingFinite == IsFiniteSet(Creating) /\ Cardinality(Creating) \in Nat
<1>1. Creating \subseteq Callers
  BY DEF Creating
<1> QED
  BY <1>1, CallersAssumption, FS_Subset, FS_CardinalityType

LEMMA FeaturesKept ==
    ASSUME FeatureInv, Creating' = Creating, UNCHANGED features,
           overlapped => overlapped'
    PROVE  FeatureInv'
BY DEF FeatureInv

(* The other calls neither come to a creation nor from one.                *)
LEMMA CallKinds ==
    ASSUME NEW c \in Callers, CallStep(c), ~GetOrAddFeature(c), ~CreateFeature(c)
    PROVE  \/ \E op, step, t, todo : Begin(c, op, step, t, todo) /\ step # "create"
           \/ /\ UNCHANGED calls /\ call[c].step # "create"
              /\ \/ Return(c)
                 \/ \E step : GoTo(c, step) /\ step # "create"
                 \/ RemoveNext(c)
<1>1. CASE HeartbeatStep(c)
  BY <1>1 DEF HeartbeatStep, SetLocalFeature, StartHeartbeat, StopHeartbeat,
              HeartbeatCall, AskRunning, CloseChannel, MakeChannel, StartTicker,
              Stopped
<1>2. ASSUME NEW t \in Targets,
             \/ SubscribeToRemote(c, t) \/ BindToRemote(c, t)
             \/ RemoveRemoteSubscription(c, t) \/ RemoveRemoteBinding(c, t)
      PROVE  \E op, step, todo : Begin(c, op, step, t, todo) /\ step # "create"
  BY <1>2 DEF SubscribeToRemote, BindToRemote, RemoveRemoteSubscription,
              RemoveRemoteBinding
<1>3. ASSUME NEW op, RemoveAll(c, op)
      PROVE  \E step, t, todo : Begin(c, op, step, t, todo) /\ step # "create"
  BY <1>3 DEF RemoveAll
<1>4. CASE AppendLink(c) \/ DropLink(c) \/ RemovedAll(c)
  BY <1>4 DEF AppendLink, DropLink, RemovedAll
<1>5. CASE RemoveNext(c)
  BY <1>5 DEF RemoveNext
<1>6. CASE RequestRemoteData(c)
  BY <1>6 DEF RequestRemoteData
<1>7. CASE AddResponseCallback(c)
  BY <1>7 DEF AddResponseCallback
<1>8. CASE \E t \in Targets : SubscribeToRemote(c, t) \/ BindToRemote(c, t)
  BY <1>2, <1>8
<1>9. CASE \E t \in Targets :
             RemoveRemoteSubscription(c, t) \/ RemoveRemoteBinding(c, t)
  BY <1>2, <1>9
<1>10. CASE \E op \in UnlinkAllOps : RemoveAll(c, op)
  BY <1>3, <1>10
<1> QED
  BY <1>1, <1>4, <1>5, <1>6, <1>7, <1>8, <1>9, <1>10 DEF CallStep, LinkStep

LEMMA CreatingMoves ==
    ASSUME NEW c \in Callers, NEW op, NEW step, CallMoves(c, op, step),
           step # "create", call[c].step # "create"
    PROVE  Creating' = Creating
BY DEF Creating, CallMoves

LEMMA CreatingKept ==
    ASSUME TypeInv, NEW c \in Callers, CallStep(c), ~GetOrAddFeature(c),
           ~CreateFeature(c)
    PROVE  /\ Creating' = Creating /\ calls' \in {calls, calls + 1}
           /\ calls' = calls \/ calls < MaxCalls
<1>1. ASSUME NEW op, NEW step, NEW t, NEW todo, Begin(c, op, step, t, todo),
             step # "create"
      PROVE  /\ Creating' = Creating /\ calls' \in {calls, calls + 1}
             /\ calls' = calls \/ calls < MaxCalls
  <2>1. CallMoves(c, op, step) /\ call[c] = NoCall
    BY <1>1, BeginMoves
  <2>2. call[c].step # "create"
    BY <2>1, NoCallFields
  <2> QED
    BY <1>1, <2>1, <2>2, CreatingMoves DEF Begin
<1>2. ASSUME UNCHANGED calls, call[c].step # "create",
             \/ Return(c) \/ RemoveNext(c)
             \/ \E step : GoTo(c, step) /\ step # "create"
      PROVE  Creating' = Creating
  <2>1. CASE Return(c)
    BY <1>2, <2>1, ReturnMoves, CreatingMoves
  <2>2. CASE RemoveNext(c)
    BY <1>2, <2>2, NextMoves, CreatingMoves
  <2>3. CASE \E step : GoTo(c, step) /\ step # "create"
    BY <1>2, <2>3, GoToMoves, CreatingMoves
  <2> QED
    BY <1>2, <2>1, <2>2, <2>3
<1> QED
  BY <1>1, <1>2, CallKinds

LEMMA CreateFeatures ==
    ASSUME TypeInv, FeatureInv, NEW c \in Callers, CreateFeature(c)
    PROVE  FeatureInv'
<1>1. CallMoves(c, "none", "idle") /\ UNCHANGED overlapped
  BY ReturnMoves DEF CreateFeature
<1>2. CASE call[c].step = "create"
  <2>1. features' = features + 1
    BY <1>2 DEF CreateFeature
  <2>2. c \in Creating /\ Creating' = Creating \ {c}
    BY <1>1, <1>2 DEF Creating, CallMoves
  <2>3. Cardinality(Creating') = Cardinality(Creating) - 1
    BY <2>2, CreatingFinite, FS_RemoveElement
  <2>4. features + 1 + (Cardinality(Creating) - 1) <= Cardinality(Callers)
    BY CreatingFinite, CallersAssumption, FS_CardinalityType DEF FeatureInv
  <2>5. ~overlapped => features = 0 /\ \A d \in Creating : d = c
    BY <2>2 DEF FeatureInv
  <2>6. ~overlapped => features' <= 1 /\ Creating' = {}
    BY <2>1, <2>2, <2>5
  <2>7. features' + Cardinality(Creating') <= Cardinality(Callers)
    BY <2>1, <2>3, <2>4
  <2> QED
    BY <1>1, <2>1, <2>6, <2>7 DEF FeatureInv
<1>3. CASE call[c].step # "create"
  <2>1. UNCHANGED features
    BY <1>3 DEF CreateFeature
  <2>2. Creating' = Creating
    BY <1>1, <1>3, CreatingMoves
  <2> QED
    BY <1>1, <2>1, <2>2, FeaturesKept
<1> QED
  BY <1>2, <1>3

LEMMA GetFeatures ==
    ASSUME TypeInv, FeatureInv, NEW c \in Callers, GetOrAddFeature(c)
    PROVE  FeatureInv'
<1> DEFINE step == IF features = 0 THEN "create" ELSE "found"
<1>1. CallMoves(c, "GetOrAddFeature", step) /\ call[c] = NoCall
  BY BeginMoves DEF GetOrAddFeature
<1>2. UNCHANGED features /\ overlapped' = (overlapped \/ Others(c) # {})
  BY DEF GetOrAddFeature
<1>3. call[c].step # "create"
  BY <1>1, NoCallFields
<1>4. CASE features = 0
  <2>1. Creating' \subseteq Callers
    BY DEF Creating
  <2>2. IsFiniteSet(Callers) /\ Cardinality(Creating') <= Cardinality(Callers)
    BY <2>1, CallersAssumption, FS_Subset
  <2>3. Cardinality(Creating') \in Nat /\ Cardinality(Callers) \in Nat
    BY <2>1, <2>2, FS_Subset, FS_CardinalityType
  <2>4. 0 + Cardinality(Creating') <= Cardinality(Callers)
    BY <2>2, <2>3
  <2>5. ~overlapped' => \A d \in Creating' : d = c
    <3>1. ~overlapped' => \A d \in Callers \ {c} : call'[d] = NoCall
      BY <1>1, <1>2 DEF Others, CallMoves
    <3> QED
      BY <3>1, NoCallFields DEF Creating
  <2> QED
    BY <1>2, <1>4, <2>4, <2>5 DEF FeatureInv
<1>5. CASE features # 0
  <2>1. Creating' = Creating
    BY <1>1, <1>3, <1>5, CreatingMoves
  <2> QED
    BY <1>2, <2>1, FeaturesKept
<1> QED
  BY <1>4, <1>5

LEMMA StepFeatures == TypeInv /\ FeatureInv /\ [Next]_vars => FeatureInv'
<1> SUFFICES ASSUME TypeInv, FeatureInv, [Next]_vars PROVE FeatureInv'
  OBVIOUS
<1>1. ASSUME UNCHANGED <<call, features, overlapped>>
      PROVE  FeatureInv'
  BY <1>1, FeaturesKept DEF Creating
<1>2. CASE UNCHANGED vars
  BY <1>1, <1>2 DEF vars
<1>3. ASSUME NEW c \in Callers, CallStep(c)
      PROVE  FeatureInv'
  <2>1. CASE ~GetOrAddFeature(c) /\ ~CreateFeature(c)
    <3>1. UNCHANGED features /\ (overlapped => overlapped')
      <4>1. CASE HeartbeatStep(c)
        <5>1. CASE SetLocalFeature(c) \/ StartHeartbeat(c) \/ StopHeartbeat(c)
          BY <5>1 DEF SetLocalFeature, StartHeartbeat, StopHeartbeat, HeartbeatCall
        <5>2. CASE AskRunning(c) \/ CloseChannel(c)
          BY <5>2 DEF AskRunning, CloseChannel
        <5>3. CASE MakeChannel(c) \/ StartTicker(c)
          BY <5>3 DEF MakeChannel, StartTicker
        <5> QED
          BY <4>1, <5>1, <5>2, <5>3 DEF HeartbeatStep
      <4>2. CASE AppendLink(c) \/ DropLink(c) \/ RemovedAll(c)
        BY <4>2 DEF AppendLink, DropLink, RemovedAll
      <4>3. CASE RemoveNext(c)
        BY <4>3 DEF RemoveNext
      <4>4. CASE RequestRemoteData(c)
        BY <4>4 DEF RequestRemoteData
      <4>5. CASE AddResponseCallback(c)
        BY <4>5 DEF AddResponseCallback
      <4>6. ASSUME NEW t \in Targets,
                   \/ SubscribeToRemote(c, t) \/ BindToRemote(c, t)
                   \/ RemoveRemoteSubscription(c, t)
                   \/ RemoveRemoteBinding(c, t)
            PROVE  UNCHANGED <<features, overlapped>>
        BY <4>6 DEF SubscribeToRemote, BindToRemote, RemoveRemoteSubscription,
                    RemoveRemoteBinding
      <4>7. ASSUME NEW op \in UnlinkAllOps, RemoveAll(c, op)
            PROVE  UNCHANGED features /\ (overlapped => overlapped')
        BY <4>7 DEF RemoveAll
      <4> QED
        BY <1>3, <2>1, <4>1, <4>2, <4>3, <4>4, <4>5, <4>6, <4>7
           DEF CallStep, LinkStep
    <3> QED
      BY <1>3, <2>1, <3>1, CreatingKept, FeaturesKept
  <2> QED
    BY <2>1, GetFeatures, CreateFeatures
<1>4. ASSUME NEW i \in 1..Len(ticker), TickerStep(i)
      PROVE  FeatureInv'
  BY <1>1, <1>4 DEF TickerStep, Tick, SetHeartbeat, EndTicker
<1>5. CASE \/ HandleAnswer \/ CleanRemoteEntityCaches \/ Disconnect
           \/ CleanRemoteDeviceCaches \/ SetupRemoteDevice \/ PeerStep
  BY <1>1, <1>5 DEF HandleAnswer, CleanRemoteEntityCaches, Disconnect,
                    CleanRemoteDeviceCaches, SetupRemoteDevice, PeerStep,
                    PeerLinks, PeerAnswers, PeerRemovesEntity
<1> QED
  BY <1>2, <1>3, <1>4, <1>5 DEF Next

-----------------------------------------------------------------------------
LEMMA CountsKept ==
    ASSUME CountInv, UNCHANGED <<workload, calls, heartBeatNum, heartbeat, ticker>>,
           generation' \in 1..MaxGeneration,
           connection' # "open" => generation' < MaxGeneration
    PROVE  CountInv'
BY DEF CountInv

(* A call changes the counts when it begins, and makes a heartbeat at most *)
(* then.                                                                   *)
LEMMA CallBeats ==
    ASSUME NEW c \in Callers, CallStep(c), ~SetLocalFeature(c), ~StartTicker(c)
    PROVE  UNCHANGED <<workload, heartBeatNum, heartbeat, ticker, connection,
                       generation>>
<1>1. CASE GetOrAddFeature(c) \/ CreateFeature(c)
  BY <1>1 DEF GetOrAddFeature, CreateFeature
<1>2. CASE StartHeartbeat(c) \/ StopHeartbeat(c)
  BY <1>2 DEF StartHeartbeat, StopHeartbeat, HeartbeatCall
<1>3. CASE AskRunning(c) \/ CloseChannel(c)
  BY <1>3 DEF AskRunning, CloseChannel
<1>4. CASE MakeChannel(c)
  BY <1>4 DEF MakeChannel
<1>5. CASE AppendLink(c) \/ DropLink(c) \/ RemovedAll(c)
  BY <1>5 DEF AppendLink, DropLink, RemovedAll
<1>6. CASE RemoveNext(c)
  BY <1>6 DEF RemoveNext
<1>7. CASE RequestRemoteData(c)
  BY <1>7 DEF RequestRemoteData
<1>8. CASE AddResponseCallback(c)
  BY <1>8 DEF AddResponseCallback
<1>9. ASSUME NEW t \in Targets,
             \/ SubscribeToRemote(c, t) \/ BindToRemote(c, t)
             \/ RemoveRemoteSubscription(c, t) \/ RemoveRemoteBinding(c, t)
      PROVE  UNCHANGED <<workload, heartBeatNum, heartbeat, ticker, connection,
                         generation>>
  BY <1>9 DEF SubscribeToRemote, BindToRemote, RemoveRemoteSubscription,
              RemoveRemoteBinding
<1>10. ASSUME NEW op \in UnlinkAllOps, RemoveAll(c, op)
       PROVE  UNCHANGED <<workload, heartBeatNum, heartbeat, ticker, connection,
                          generation>>
  BY <1>10 DEF RemoveAll
<1> QED
  BY <1>1, <1>2, <1>3, <1>4, <1>5, <1>6, <1>7, <1>8, <1>9, <1>10
     DEF CallStep, HeartbeatStep, LinkStep

LEMMA CallCounts ==
    ASSUME TypeInv, NEW c \in Callers, CallStep(c)
    PROVE  /\ calls' \in {calls, calls + 1}
           /\ calls' = calls \/ calls < MaxCalls
<1>1. CASE GetOrAddFeature(c)
  BY <1>1 DEF GetOrAddFeature, Begin
<1>2. CASE CreateFeature(c)
  BY <1>2 DEF CreateFeature
<1> QED
  BY <1>1, <1>2, CreatingKept

LEMMA TickerCounters ==
    ASSUME TypeInv
    PROVE  /\ DOMAIN ticker = 1..Len(ticker)
           /\ \A i \in DOMAIN ticker : ticker[i].counter \in Nat
<1>1. DOMAIN ticker = 1..Len(ticker)
      /\ \A i \in DOMAIN ticker : ticker[i] \in TickerStates
  BY DEF TypeInv
<1> QED
  BY <1>1 DEF TickerStates

LEMMA CallStepCounts ==
    ASSUME TypeInv, CountInv, NEW c \in Callers, CallStep(c)
    PROVE  CountInv'
<1>1. calls' \in {calls, calls + 1} /\ calls' \in 0..MaxCalls /\ calls \in 0..MaxCalls
  BY CallCounts, BoundsAssumption DEF CountInv
<1>2. /\ heartBeatNum \in Nat /\ heartBeatNum <= MaxTicks + calls
      /\ heartbeat \in 0..heartBeatNum
      /\ \A i \in DOMAIN ticker : /\ ticker[i].counter \in Nat
                                  /\ ticker[i].counter <= heartBeatNum
  BY TickerCounters DEF CountInv, TypeInv
<1>3. CASE SetLocalFeature(c)
  <2>1. /\ calls' = calls + 1 /\ heartBeatNum' = heartBeatNum + 1
        /\ heartbeat' = heartBeatNum + 1
        /\ UNCHANGED <<workload, ticker, connection, generation>>
    BY <1>3 DEF SetLocalFeature, HeartbeatCall, Begin
  <2>2. /\ heartBeatNum' <= MaxTicks + calls' /\ heartbeat' \in 0..heartBeatNum'
        /\ \A i \in DOMAIN ticker : ticker[i].counter <= heartBeatNum'
    BY <1>1, <1>2, <2>1, BoundsAssumption
  <2> QED
    BY <1>1, <2>1, <2>2 DEF CountInv
<1>4. CASE StartTicker(c)
  <2> DEFINE new == [channel |-> stopHeartbeatC, step |-> "select", counter |-> 0]
  <2>1. /\ ticker' = Append(ticker, new)
        /\ UNCHANGED <<workload, calls, heartBeatNum, heartbeat, connection,
                       generation>>
    BY <1>4 DEF StartTicker
  <2>2. new.counter = 0
    OBVIOUS
  <2>3. \A i \in DOMAIN ticker' : \/ i \in DOMAIN ticker /\ ticker'[i] = ticker[i]
                                  \/ ticker'[i] = new
    <3> HIDE DEF new
    <3> QED
      BY <2>1 DEF TypeInv
  <2> HIDE DEF new
  <2>4. \A i \in DOMAIN ticker' : ticker'[i].counter <= heartBeatNum
    BY <1>2, <2>2, <2>3
  <2> QED
    BY <1>1, <2>1, <2>4 DEF CountInv
<1>5. CASE ~SetLocalFeature(c) /\ ~StartTicker(c)
  <2>1. UNCHANGED <<workload, heartBeatNum, heartbeat, ticker, connection,
                    generation>>
    BY <1>5, CallBeats
  <2>2. heartBeatNum <= MaxTicks + calls'
    BY <1>1, <1>2, BoundsAssumption
  <2> QED
    BY <1>1, <2>1, <2>2 DEF CountInv
<1> QED
  BY <1>3, <1>4, <1>5

LEMMA TickerCounts ==
    ASSUME TypeInv, CountInv, NEW i \in 1..Len(ticker), TickerStep(i)
    PROVE  CountInv'
<1>1. PICK t : TickerMoves(i, t)
  BY TickerStepMoves
<1>2. UNCHANGED <<workload, calls, connection, generation>>
  BY DEF TickerStep, Tick, SetHeartbeat, EndTicker
<1>3. /\ i \in DOMAIN ticker /\ heartBeatNum \in Nat /\ ticker[i].counter \in Nat
      /\ heartbeat \in 0..heartBeatNum /\ calls \in Nat
      /\ \A j \in DOMAIN ticker : /\ ticker[j].counter \in Nat
                                  /\ ticker[j].counter <= heartBeatNum
  BY TickerCounters, BoundsAssumption DEF CountInv, TypeInv
<1>4. /\ DOMAIN ticker' = DOMAIN ticker /\ ticker'[i] = t
      /\ \A j \in DOMAIN ticker : j # i => ticker'[j] = ticker[j]
  BY <1>1, <1>3 DEF TickerMoves, TypeInv
<1>5. CASE Tick(i) /\ t.counter = heartBeatNum + 1
  <2>1. /\ heartBeatNum' = heartBeatNum + 1 /\ heartBeatNum < MaxTicks
        /\ UNCHANGED heartbeat
    BY <1>5 DEF Tick
  <2>2. /\ heartBeatNum' <= MaxTicks + calls' /\ heartbeat' \in 0..heartBeatNum'
        /\ \A j \in DOMAIN ticker' : ticker'[j].counter <= heartBeatNum'
    BY <1>2, <1>3, <1>4, <1>5, <2>1, BoundsAssumption
  <2> QED
    BY <1>2, <2>2 DEF CountInv
<1>6. CASE SetHeartbeat(i) /\ t.counter = 0
  <2>1. UNCHANGED heartBeatNum /\ heartbeat' = ticker[i].counter
    BY <1>6 DEF SetHeartbeat
  <2>2. /\ heartbeat' \in 0..heartBeatNum'
        /\ \A j \in DOMAIN ticker' : ticker'[j].counter <= heartBeatNum'
    BY <1>3, <1>4, <1>6, <2>1
  <2> QED
    BY <1>2, <2>1, <2>2 DEF CountInv
<1>7. CASE EndTicker(i) /\ t.counter = ticker[i].counter
  <2>1. UNCHANGED <<heartBeatNum, heartbeat>>
    BY <1>7 DEF EndTicker
  <2>2. \A j \in DOMAIN ticker' : ticker'[j].counter <= heartBeatNum'
    BY <1>3, <1>4, <1>7, <2>1
  <2> QED
    BY <1>2, <2>1, <2>2 DEF CountInv
<1> QED
  BY <1>1, <1>5, <1>6, <1>7 DEF TickerMoves

LEMMA StepCounts == TypeInv /\ CountInv /\ [Next]_vars => CountInv'
<1> SUFFICES ASSUME TypeInv, CountInv, [Next]_vars PROVE CountInv'
  OBVIOUS
<1>1. ASSUME UNCHANGED <<workload, calls, heartBeatNum, heartbeat, ticker,
                         connection, generation>>
      PROVE  CountInv'
  BY <1>1, CountsKept DEF CountInv
<1>2. CASE UNCHANGED vars
  BY <1>1, <1>2 DEF vars
<1>3. ASSUME NEW c \in Callers, CallStep(c)
      PROVE  CountInv'
  BY <1>3, CallStepCounts
<1>4. ASSUME NEW i \in 1..Len(ticker), TickerStep(i)
      PROVE  CountInv'
  BY <1>4, TickerCounts
<1>5. CASE \/ HandleAnswer \/ CleanRemoteEntityCaches \/ PeerStep
  BY <1>1, <1>5 DEF HandleAnswer, CleanRemoteEntityCaches, PeerStep,
                    PeerLinks, PeerAnswers, PeerRemovesEntity
<1>6. CASE Disconnect \/ CleanRemoteDeviceCaches
  <2>1. /\ UNCHANGED <<workload, calls, heartBeatNum, heartbeat, ticker,
                       generation>>
        /\ generation < MaxGeneration
    BY <1>6 DEF Disconnect, CleanRemoteDeviceCaches, CountInv
  <2> QED
    BY <2>1, CountsKept DEF CountInv
<1>7. CASE SetupRemoteDevice
  <2>1. /\ UNCHANGED <<workload, calls, heartBeatNum, heartbeat, ticker>>
        /\ generation' = generation + 1 /\ connection' = "open"
        /\ connection # "open"
    BY <1>7 DEF SetupRemoteDevice
  <2>2. generation' \in 1..MaxGeneration
    BY <2>1, BoundsAssumption DEF CountInv
  <2> QED
    BY <2>1, <2>2, CountsKept
<1> QED
  BY <1>2, <1>3, <1>4, <1>5, <1>6, <1>7 DEF Next

LEMMA InitCounts == Init => CountInv /\ FeatureInv
<1> SUFFICES ASSUME Init PROVE CountInv /\ FeatureInv
  OBVIOUS
<1>1. CountInv
  BY BoundsAssumption DEF Init, CountInv
<1>2. Creating = {}
  BY NoCallFields DEF Init, Creating
<1>3. Cardinality(Creating) = 0 /\ Cardinality(Callers) \in Nat
  BY <1>2, CallersAssumption, FS_EmptySet, FS_CardinalityType
<1> QED
  BY <1>1, <1>2, <1>3 DEF Init, FeatureInv

LEMMA TypesHold ==
    ASSUME TypeInv, AnswerInv, LinkTypes, FeatureInv, CountInv
    PROVE  TypeOK
<1>1. workload \in Workloads /\ generation \in 1..MaxGeneration
  BY DEF CountInv
<1>2. /\ \A c \in Callers : call[c].target \in Targets \cup {NoTarget}
      /\ connection \in {"open", "closed", "none"}
      /\ ItemsIn(links) \cup peerLinks \subseteq Targets
  BY DEF LinkTypes, LinkCalls, LinkCall, ItemsIn
<1>3. features \in 0..Cardinality(Callers)
  BY CreatingFinite, CallersAssumption, FS_CardinalityType DEF FeatureInv
<1>4. features <= 1 \/ overlapped
  BY DEF FeatureInv
<1>5. {heartBeatNum, heartbeat} \subseteq 0..MaxTicks + MaxCalls
  BY BoundsAssumption DEF CountInv, TypeInv
<1>6. stopHeartbeatC \in 0..Len(channel)
  BY DEF TypeInv
<1>7. ASSUME NEW cb \in callbacks
      PROVE  cb[2] \in 1..Len(request) /\ request[cb[2]].counter = cb[1]
  <2>1. PICK i \in DOMAIN request : cb = <<request[i].counter, i>>
    BY <1>7 DEF AnswerInv
  <2> QED
    BY <2>1 DEF AnswerInv
<1> QED
  BY <1>1, <1>2, <1>3, <1>4, <1>5, <1>6, <1>7 DEF TypeOK

(* For any callers, workloads, targets and bounds: what the calls,         *)
(* messages, lists and callbacks are, no feature is created twice unless   *)
(* two calls overlap (entity_local.go, GetOrAddFeature), and every         *)
(* callback waits for the counter of its own request.                      *)
THEOREM TypeCorrect == Spec => []TypeOK
<1>1. IInv => TypeInv
  BY DEF IInv
<1>2. Spec => []IInv
  BY InitIInv, StepIInv, PTL DEF Spec
<1>3. Spec => []AnswerInv
  BY <1>1, <1>2, InitAnswers, StepAnswers, PTL DEF Spec
<1>4. Spec => [](LinkTypes /\ LinkInv)
  BY <1>1, <1>2, <1>3, InitLinks, StepLinks, PTL DEF Spec
<1>5. Spec => [](FeatureInv /\ CountInv)
  BY <1>1, <1>2, InitCounts, StepFeatures, StepCounts, PTL DEF Spec
<1> QED
  BY <1>1, <1>2, <1>3, <1>4, <1>5, TypesHold, PTL

(* Whatever the order of calls, messages, removed entities and lost        *)
(* connections: once nothing is under way, the local feature lists the     *)
(* links that the remote device has, unless calls for links overlapped or  *)
(* a link was refused or listed after a clean-up (feature_local.go).       *)
THEOREM LinksCorrect == Spec => []LinksFollow
<1>1. IInv => TypeInv
  BY DEF IInv
<1>2. Spec => []IInv
  BY InitIInv, StepIInv, PTL DEF Spec
<1>3. Spec => []AnswerInv
  BY <1>1, <1>2, InitAnswers, StepAnswers, PTL DEF Spec
<1>4. Spec => [](LinkTypes /\ LinkInv)
  BY <1>1, <1>2, <1>3, InitLinks, StepLinks, PTL DEF Spec
<1> QED
  BY <1>4, LinkInvFollow, PTL
=============================================================================
