---------------------------- MODULE DataExchange ----------------------------
(***************************************************************************)
(* One function of a local server feature, and the copy that a remote      *)
(* client which is subscribed and bound to the feature keeps of it.        *)
(*                                                                         *)
(* Two goroutines change the server's list: the application's, by SetData  *)
(* and UpdateData of FeatureLocal, and the one that reads the connection   *)
(* and gives the client's reads and writes to DeviceLocal.ProcessCmd.      *)
(* Each of them changes the list under a lock, copies it under another     *)
(* one and sends the copy without any, so that their steps interleave.     *)
(* The copy shares its items with the list: what is changed in place       *)
(* before the copy is marshalled may be sent with it.  That happens only   *)
(* to calls that overlap, of whose copies nothing is claimed.              *)
(*                                                                         *)
(* Write approval is a matter of WriteApproval; here no callback is set.   *)
(***************************************************************************)
EXTENDS UpdateList

CONSTANTS
    Functions,    \* the functions of which Init chooses one
    KeyValues,    \* the values of the last key of an item
    Initially,    \* the value of its other fields in the beginning
    RestValues,   \* the values that are written to them
    MaxCalls,     \* bound: the calls of application and client together
    MaxRequests   \* bound: the client's requests on their way

ASSUME FunctionsAssumption ==
    /\ Functions \subseteq DOMAIN Schemas
    /\ \A f \in Functions : Schemas[f].keys # <<>>
ASSUME KeyValuesAssumption ==
    KeyValues \subseteq Int /\ IsFiniteSet(KeyValues)
ASSUME BoundsAssumption == MaxCalls \in Nat /\ MaxRequests \in Nat

VARIABLES
    function,  \* the function
    data,      \* FunctionData.data of the local feature
    copy,      \* FunctionData.data of the client's remote feature
    app,       \* the call of the application in progress
    reader,    \* what the connection's goroutine is doing
    up, down,  \* what was sent to the server and to the client
    calls,     \* the calls made so far
    lossy      \* history: the copy cannot be expected to follow

vars == <<function, data, copy, app, reader, up, down, calls, lossy>>

Schema == Schemas[function]

-----------------------------------------------------------------------------
(* What the callers hand over.  Keys but the last one are 1 everywhere.    *)
Keys(t, k) == [f \in {t.keys[i] : i \in 1..Len(t.keys)} |->
                  IF f = t.keys[Len(t.keys)] THEN k ELSE 1]
Guards(t) == [t.check -> BOOLEAN]
Items(t, k, rest) ==
    {Over(Keys(t, k), Over(Field(Rest, r), g)) : r \in rest, g \in Guards(t)}
Lists(t, rest) ==
    (UNION {{<<x>> : x \in Items(t, k, rest)} : k \in KeyValues}) \cup
    (UNION {Items(t, kl[1], rest) \X Items(t, kl[2], rest) :
               kl \in {p \in KeyValues \X KeyValues : p[1] < p[2]}})
Patches(t) == {<<Field(Rest, r)>> : r \in RestValues} \cup
    {<<g>> : g \in Guards(t) \ {<<>>}}
Selectors(t) ==
    {Field(f, k) : f \in t.selectors \cap {t.keys[Len(t.keys)]},
                   k \in KeyValues} \cup
    {Field(f, 1) : f \in t.ignored}

Replace(t) == {[new |-> l, partial |-> NoFilter, delete |-> NoFilter] :
                  l \in Lists(t, RestValues)}
Merged(t) ==
    {[new |-> l, partial |-> NewFilterTypePartial, delete |-> NoFilter] :
        l \in {m \in Lists(t, RestValues) : Len(m) = 1} \cup Patches(t)}
Selected(t) ==
    {[new |-> l, delete |-> NoFilter,
      partial |-> [NewFilterTypePartial EXCEPT !.selector = {s}]] :
        l \in Patches(t), s \in Selectors(t)}
Delete(t) ==
    {[new |-> <<>>, partial |-> NoFilter,
      delete |-> [given |-> TRUE, selector |-> s, elements |-> e]] :
        s \in {{}} \cup {{x} : x \in Selectors(t)}, e \in {{}, {Rest}}}
Filtered ==
    [f \in Functions |-> LET t == Schemas[f]
                         IN Merged(t) \cup Selected(t) \cup Delete(t)]
Commands ==
    [f \in Functions |-> Replace(Schemas[f]) \cup Filtered[f]]

-----------------------------------------------------------------------------
Idle == [step |-> "idle", alone |-> TRUE, ack |-> FALSE, selector |-> {},
         filtered |-> FALSE, message |-> <<>>]

(* The client is subscribed and has read what the server has so far.       *)
Init ==
    /\ function \in Functions
    /\ data \in {<<>>} \cup Lists(Schema, {Initially})
    /\ copy = data
    /\ app = Idle /\ reader = Idle
    /\ up = <<>> /\ down = <<>>
    /\ calls = 0
    /\ lossy = FALSE

Busy(call) == call.step # "idle"
Overtaken(call) == [call EXCEPT !.alone = call.step = "idle"]

(* Faulty: what a write changed is sent as a partial notification.         *)
WriteCmdTypePartial(list, call) ==
    [kind |-> "notify", list |-> list, filtered |-> TRUE,
     selector |-> {}]

(* NotifyOrWriteCmdType: all the data, with an empty partial filter unless *)
(* there is a selector to send or nothing to restrict.  What a delete      *)
(* filter selects is not sent.                                             *)
NotifyOrWriteCmdType(list, call) ==
    [kind |-> "notify", list |-> list, filtered |-> call.filtered,
     selector |-> IF function \in UnsentSelectors THEN {} ELSE call.selector]
ReplyCmdType(list) ==
    [kind |-> "reply", list |-> list, filtered |-> FALSE, selector |-> {}]
Result(kind) ==
    [kind |-> kind, list |-> <<>>, filtered |-> FALSE, selector |-> {}]

-----------------------------------------------------------------------------
(* FeatureLocal.SetData and UpdateData, up to the unlock.                  *)
AppUpdate(command) ==
    LET updated == UpdateData(function, FALSE, data, command.new,
                              command.partial, command.delete)
        selector == FilterData(function, command.partial).selector
        filtered == command.partial.given \/ command.delete.given
    IN /\ ~Busy(app) /\ calls < MaxCalls
       /\ command.partial.selector # {} => data # <<>>
       /\ calls' = calls + 1
       /\ data' = updated.list
       /\ IF updated.ok
          THEN /\ app' = [Idle EXCEPT !.step = "updated",
                             !.alone = ~Busy(reader), !.selector = selector,
                             !.filtered = filtered]
               /\ reader' = Overtaken(reader)
               /\ lossy' = (lossy \/ Busy(reader) \/ selector # {}
                            \/ command.delete.given)
          ELSE UNCHANGED <<app, reader, lossy>>
       /\ UNCHANGED <<function, copy, up, down>>

AppCopy ==
    /\ app.step = "updated"
    /\ app' = [app EXCEPT !.step = "copied",
                          !.message = NotifyOrWriteCmdType(data, app)]
    /\ UNCHANGED <<function, data, copy, reader, up, down, calls, lossy>>

(* A message that carries all of the data makes good what was lost.        *)
Sent(call) ==
    /\ down' = Append(down, call.message)
    /\ lossy' = (lossy /\ (call.message.filtered \/ ~call.alone))

(* DeviceLocal.NotifySubscribers.                                          *)
AppNotify ==
    /\ app.step = "copied"
    /\ Sent(app)
    /\ app' = Idle
    /\ UNCHANGED <<function, data, copy, reader, up, calls>>

-----------------------------------------------------------------------------
(* The client sends a read, or a write with or without an ack request.     *)
ClientRead ==
    /\ calls < MaxCalls /\ Len(up) < MaxRequests
    /\ calls' = calls + 1
    /\ up' = Append(up, [kind |-> "read"])
    /\ UNCHANGED <<function, data, copy, app, reader, down, lossy>>

ClientWrite(command, ack) ==
    /\ calls < MaxCalls /\ Len(up) < MaxRequests
    /\ calls' = calls + 1
    /\ up' = Append(up, [kind |-> "write", command |-> command, ack |-> ack])
    /\ UNCHANGED <<function, data, copy, app, reader, down, lossy>>

(* FeatureLocal.processRead.                                               *)
HandleRead ==
    /\ ~Busy(reader) /\ up # <<>> /\ Head(up).kind = "read"
    /\ up' = Tail(up)
    /\ reader' = [Idle EXCEPT !.step = "copied", !.alone = ~Busy(app),
                              !.message = ReplyCmdType(data)]
    /\ app' = Overtaken(app)
    /\ UNCHANGED <<function, data, copy, down, calls, lossy>>

WriteReceived == ~Busy(reader) /\ up # <<>> /\ Head(up).kind = "write"

(* The checks of DeviceLocal.ProcessCmd fail: the function is not offered  *)
(* for writing, or the binding of the client is not there just now.        *)
RejectWrite ==
    /\ WriteReceived
    /\ up' = Tail(up)
    /\ down' = Append(down, Result("error"))
    /\ UNCHANGED <<function, data, copy, app, reader, calls, lossy>>

Written(command) == UpdateData(function, TRUE, data, command.new,
                               command.partial, command.delete)

(* executeWrite fails: what it changed in place stays and nobody is told.  *)
RefuseWrite ==
    LET updated == Written(Head(up).command)
        changed == updated.list # data
    IN /\ WriteReceived
       /\ ~updated.ok
       /\ up' = Tail(up)
       /\ data' = updated.list
       /\ app' = IF changed THEN Overtaken(app) ELSE app
       /\ lossy' = (lossy \/ changed)
       /\ down' = Append(down, Result("error"))
       /\ UNCHANGED <<function, copy, reader, calls>>

(* executeWrite up to the unlock.                                          *)
ExecuteWrite ==
    LET updated == Written(Head(up).command)
    IN /\ WriteReceived
       /\ updated.ok
       /\ up' = Tail(up)
       /\ data' = updated.list
       /\ reader' = [Idle EXCEPT !.step = "updated", !.alone = ~Busy(app),
                                 !.ack = Head(up).ack]
       /\ app' = Overtaken(app)
       /\ lossy' = (lossy \/ Busy(app))
       /\ UNCHANGED <<function, copy, down, calls>>

ReaderCopy ==
    /\ reader.step = "updated"
    /\ reader' = [reader EXCEPT
                     !.step = "copied",
                     !.message = NotifyOrWriteCmdType(data, reader)]
    /\ UNCHANGED <<function, data, copy, app, up, down, calls, lossy>>

(* The notification of a write, or the reply to a read.                    *)
ReaderSend ==
    /\ reader.step = "copied"
    /\ Sent(reader)
    /\ reader' = IF reader.ack THEN [reader EXCEPT !.step = "notified"]
                               ELSE Idle
    /\ UNCHANGED <<function, data, copy, app, up, calls>>

(* FeatureLocal.processWrite: the success that was asked for.              *)
ReaderAck ==
    /\ reader.step = "notified"
    /\ down' = Append(down, Result("ok"))
    /\ reader' = Idle
    /\ UNCHANGED <<function, data, copy, app, up, calls, lossy>>

(* The client's processNotify, processReply and processResult.  A selector *)
(* without an item to take the data from is where newData[0] panics, and   *)
(* the model ends.                                                         *)
ClientReceive ==
    LET m == Head(down)
        partial == [NoFilter EXCEPT !.given = m.filtered,
                                    !.selector = m.selector]
    IN /\ down # <<>>
       /\ m.selector # {} => m.list # <<>>
       /\ down' = Tail(down)
       /\ IF m.kind \in {"notify", "reply"}
          THEN copy' = UpdateData(function, FALSE, copy, m.list, partial,
                                  NoFilter).list
          ELSE UNCHANGED copy
       /\ UNCHANGED <<function, data, app, reader, up, calls, lossy>>

Next ==
    \/ \E command \in Commands[function] : AppUpdate(command)
    \/ AppCopy \/ AppNotify
    \/ ClientRead
    \/ \E command \in Commands[function], ack \in BOOLEAN :
          ClientWrite(command, ack)
    \/ HandleRead
    \/ RejectWrite \/ RefuseWrite \/ ExecuteWrite
    \/ ReaderCopy \/ ReaderSend \/ ReaderAck
    \/ ClientReceive

Spec == Init /\ [][Next]_vars

-----------------------------------------------------------------------------
KeyFields == {Schema.keys[i] : i \in 1..Len(Schema.keys)}
Identified(list) ==
    \A i \in 1..Len(list) :
        /\ KeyFields \subseteq DOMAIN list[i]
        /\ \A j \in 1..Len(list) :
              (\A f \in KeyFields : list[i][f] = list[j][f]) => i = j

(* The items have the fields their type has, and whatever sequence of      *)
(* merges, copies and deletions both sides go through, the server's items  *)
(* keep all their keys, and no two have the same ones: a list with two     *)
(* items of one key answers every later selector with the first of them.   *)
DataTypeOK ==
    /\ function \in Functions
    /\ Identified(data)
    /\ \A item \in ItemsIn(data) \cup ItemsIn(copy) :
          DOMAIN item \subseteq {Rest} \cup Schema.check \cup KeyFields
    /\ \A call \in {app, reader} :
          /\ call.step \in {"idle", "updated", "copied", "notified"}
          /\ call.alone \in BOOLEAN /\ call.ack \in BOOLEAN
    /\ calls \in 0..MaxCalls /\ Len(up) <= MaxRequests
    /\ lossy \in BOOLEAN

Quiet == ~Busy(app) /\ ~Busy(reader) /\ up = <<>> /\ down = <<>>

(* When nothing is under way any more, the client's copy has the items of  *)
(* the server, unless an update overtook another one between its change    *)
(* and its notification, or was of the kind that notifications do not      *)
(* carry, and no complete notification or reply has made good for it.      *)
CopyConverges ==
    Quiet /\ ~lossy => ItemsIn(copy) = ItemsIn(data)

(* A write that was carried out and is repeated, because its result was    *)
(* lost, changes nothing the second time.                                  *)
RepeatedWriteSettles ==
    [][LET command == Head(up).command
           again == UpdateData(function, TRUE, data', command.new,
                               command.partial, command.delete)
       IN ExecuteWrite => ItemsIn(again.list) = ItemsIn(data')]_vars

(* A write with a filter by the client adds no item, and every item whose  *)
(* guard is not TRUE is left as it was, whether the write is refused for   *)
(* it or not.  Items that are merged by their keys keep their guard, and a *)
(* refused write removes no item and changes no key, however far it came.  *)
(* Only the write without a filter replaces the list without a look at     *)
(* guards.                                                                 *)
RemoteWriteConfined ==
    [][LET command == Head(up).command
           byKeys == /\ ~command.delete.given
                     /\ \A i \in 1..Len(command.new) :
                           KeyFields \subseteq DOMAIN command.new[i]
       IN /\ RefuseWrite \/ ExecuteWrite
          /\ command.partial.given \/ command.delete.given
          => /\ Len(data') <= Len(data)
             /\ \A item \in ItemsIn(data) :
                   ~writeAllowed(Schema, item) => item \in ItemsIn(data')
             /\ byKeys => \A item \in ItemsIn(data') :
                             \E old \in ItemsIn(data) :
                                \A f \in KeyFields \cup Schema.check :
                                    item[f] = old[f]
             /\ RefuseWrite =>
                   /\ Len(data') = Len(data)
                   /\ \A i \in 1..Len(data), f \in KeyFields :
                         data'[i][f] = data[i][f]]_vars
=============================================================================
