-------------------------- MODULE DiscoveryProofs --------------------------
(***************************************************************************)
(* Theorems about Discovery for any entities, callers and bounds: its      *)
(* types, and that the discovering device follows the entities and the use *)
(* cases of the other one.  The queue of messages is read through what it  *)
(* will leave behind (Will, Word), which no step but an announcement and   *)
(* the answer to a read changes.                                           *)
(***************************************************************************)
EXTENDS Discovery, FiniteSetTheorems, SequenceTheorems, TLAPS

USE DEF local, remote

(* What the messages are, and the calls.                                   *)
Lists == {L \in SUBSET UseCaseLists : \A x, y \in L : x = y}
UpMessages == [kind : {"readDiscovery", "readUseCases", "subscribe"}]
Replies == [kind : {"discoveryReply"}, entities : SUBSET Entities]
           \cup [kind : {"useCasesReply"}, list : Lists]
Notifications ==
    [kind : {"fullNotify"}, entities : SUBSET Entities]
    \cup [kind : {"AddEntity", "RemoveEntity"}, entity : Entities]
    \cup [kind : {"useCases"}, list : Lists]
DownMessages ==
    Replies \cup Notifications

UseCaseOps == {"AddUseCaseSupport", "RemoveUseCaseSupport",
               "SetUseCaseAvailability"}
CallStates ==
    [op : UseCaseOps \cup {"AddEntity", "RemoveEntity"},
     step : {"set", "notify", "remove", "announce"},
     entity : Entities, available : BOOLEAN, copy : Lists, early : BOOLEAN]
IsCall(r) ==
    \/ r = NoCall
    \/ /\ r \in CallStates
       /\ r.op = "AddEntity" => r.step = "announce"
       /\ r.op \in UseCaseOps => r.step \in {"set", "notify"}

Featured(S) == [e \in S |-> TRUE]

(* Types: the state of the announcing device, its calls, the queues and    *)
(* the state of the other one.                                             *)
LocalTypes ==
    /\ style \in Styles /\ style \in {"partial", "full"}
    /\ entities \in SUBSET Entities /\ useCases \in Lists
    /\ subscribed \in BOOLEAN /\ answered \in BOOLEAN
    /\ lossy \subseteq {"entities", "useCases"}
CallTypes ==
    /\ call = [c \in Callers |-> call[c]]
    /\ \A c \in Callers : IsCall(call[c])
    /\ calls \in 0..MaxCalls
QueueTypes ==
    /\ reader = NoReply \/ reader \in Replies
    /\ up \in Seq(UpMessages) /\ down \in Seq(DownMessages)
RemoteTypes ==
    /\ known = Featured(DOMAIN known) /\ DOMAIN known \subseteq Entities
    /\ knownUseCases \in Lists
    /\ asked \subseteq {"discovery", "useCases"}
    /\ reads \in 0..MaxReads
TypeInv == LocalTypes /\ CallTypes /\ QueueTypes /\ RemoteTypes

(* At most one read, in a queue, with the reader, or answered.             *)
One(u, r, d, read, reply, waits) ==
    /\ \A i, j \in DOMAIN u : u[i].kind = read /\ u[j].kind = read => i = j
    /\ \A i, j \in DOMAIN d : d[i].kind = reply /\ d[j].kind = reply => i = j
    /\ \A i \in DOMAIN u : \A j \in DOMAIN d :
          ~(u[i].kind = read /\ d[j].kind = reply)
    /\ r.kind = reply => /\ \A i \in DOMAIN u : u[i].kind # read
                         /\ \A i \in DOMAIN d : d[i].kind # reply
    /\ waits <=> \/ r.kind = reply
                 \/ \E i \in DOMAIN u : u[i].kind = read
                 \/ \E i \in DOMAIN d : d[i].kind = reply
ReadInv ==
    /\ One(up, reader, down, "readDiscovery", "discoveryReply",
           "discovery" \in asked)
    /\ One(up, reader, down, "readUseCases", "useCasesReply",
           "useCases" \in asked)

(* Before the first reply was read nothing happened; before the            *)
(* subscription nothing but discovery replies came back.                   *)
StartInv ==
    /\ ~answered => /\ up = <<[kind |-> "readDiscovery"]>> /\ down = <<>>
                    /\ DOMAIN known = {} /\ reader = NoReply /\ ~subscribed
    /\ ~subscribed =>
         /\ \A i \in DOMAIN up : up[i].kind = "readUseCases" =>
                \E j \in DOMAIN up : j < i /\ up[j].kind = "subscribe"
         /\ \A i \in DOMAIN down : down[i].kind = "discoveryReply"
         /\ reader.kind \in {"none", "discoveryReply"}
         /\ knownUseCases = {}

(* What a message does to an entity, and whether it is known after n of    *)
(* the messages in s.                                                      *)
Adds(m, e) == \/ m.kind \in {"discoveryReply", "fullNotify"} /\ e \in m.entities
              \/ m.kind = "AddEntity" /\ m.entity = e
Removes(m, e) == \/ m.kind = "fullNotify" /\ e \notin m.entities
                 \/ m.kind = "RemoveEntity" /\ m.entity = e
WillAt(s, K, e, n) ==
    \/ e \in K /\ \A i \in 1..n : ~Removes(s[i], e)
    \/ \E i \in 1..n : Adds(s[i], e) /\ \A j \in (i + 1)..n : ~Removes(s[j], e)
Will(s, K, e) == WillAt(s, K, e, Len(s))

(* The use cases that the other device knows after all of s.               *)
Says(m) == m.kind \in {"useCases", "useCasesReply", "discoveryReply"}
ListOf(m) == IF m.kind = "discoveryReply" THEN {} ELSE m.list
Of(list) == DOMAIN OnlyOf(list)
Word(s, K, L) ==
    \/ K = L /\ \A i \in DOMAIN s : ~Says(s[i])
    \/ \E i \in DOMAIN s : /\ Says(s[i]) /\ ListOf(s[i]) = L
                           /\ \A j \in DOMAIN s : j > i => ~Says(s[j])

(* Nothing removes an entity whose use cases are known by then.            *)
Guarded(L, s, n, j, e) ==
    e \in Of(L) /\ Removes(s[j], e)
    => \E k \in DOMAIN s : n < k /\ k < j /\ Says(s[k]) /\ e \notin Of(ListOf(s[k]))
Ordered(s, K, L) ==
    /\ \A e \in Of(L) : e \in K
    /\ \A i \in DOMAIN s : Says(s[i]) =>
          \A e \in Of(ListOf(s[i])) : WillAt(s, K, e, i - 1)
    /\ \A j \in DOMAIN s : \A e \in Entities : Guarded(L, s, 0, j, e)
    /\ \A i, j \in DOMAIN s : \A e \in Entities :
          i < j /\ Says(s[i]) => Guarded(ListOf(s[i]), s, i, j, e)

-----------------------------------------------------------------------------
(* Queues: what is appended to one and taken from it, and what that means  *)
(* for the entity, and the list of use cases, that all its messages leave. *)
LEMMA AppendFacts ==
    ASSUME NEW M, NEW s \in Seq(M), NEW m \in M, NEW t, t = Append(s, m)
    PROVE  /\ t \in Seq(M) /\ Len(t) = Len(s) + 1 /\ t # <<>>
           /\ DOMAIN s = 1..Len(s) /\ DOMAIN t = 1..Len(s) + 1 /\ Len(s) \in Nat
           /\ t[Len(s) + 1] = m
           /\ \A i \in 1..Len(s) : t[i] = s[i]
OBVIOUS

LEMMA TailFacts ==
    ASSUME NEW M, NEW s \in Seq(M), s # <<>>, NEW t, t = Tail(s)
    PROVE  /\ t \in Seq(M) /\ Len(s) \in Nat \ {0} /\ Len(t) = Len(s) - 1
           /\ DOMAIN s = 1..Len(s) /\ DOMAIN t = 1..Len(s) - 1
           /\ Head(s) = s[1] /\ s[1] \in M
           /\ \A i \in 1..Len(s) - 1 : t[i] = s[i + 1]
OBVIOUS

LEMMA WillNext ==
    ASSUME NEW s, NEW K, NEW e, NEW n \in Nat
    PROVE  WillAt(s, K, e, n + 1)
           <=> Adds(s[n + 1], e) \/ (WillAt(s, K, e, n) /\ ~Removes(s[n + 1], e))
<1>1. CASE WillAt(s, K, e, n + 1)
  <2>1. CASE e \in K /\ \A i \in 1..n + 1 : ~Removes(s[i], e)
    BY <2>1 DEF WillAt
  <2>2. ASSUME NEW i \in 1..n + 1, Adds(s[i], e),
               \A j \in (i + 1)..n + 1 : ~Removes(s[j], e)
        PROVE  Adds(s[n + 1], e) \/ (WillAt(s, K, e, n) /\ ~Removes(s[n + 1], e))
    BY <2>2 DEF WillAt
  <2> QED
    BY <1>1, <2>1, <2>2 DEF WillAt
<1>2. CASE Adds(s[n + 1], e)
  BY <1>2 DEF WillAt
<1>3. CASE WillAt(s, K, e, n) /\ ~Removes(s[n + 1], e)
  <2>1. CASE e \in K /\ \A i \in 1..n : ~Removes(s[i], e)
    BY <1>3, <2>1 DEF WillAt
  <2>2. ASSUME NEW i \in 1..n, Adds(s[i], e),
               \A j \in (i + 1)..n : ~Removes(s[j], e)
        PROVE  WillAt(s, K, e, n + 1)
    BY <1>3, <2>2 DEF WillAt
  <2> QED
    BY <1>3, <2>1, <2>2 DEF WillAt
<1> QED
  BY <1>1, <1>2, <1>3

LEMMA WillStart ==
    ASSUME NEW s, NEW K, NEW e
    PROVE  WillAt(s, K, e, 0) <=> e \in K
BY DEF WillAt

LEMMA WillSame ==
    ASSUME NEW s, NEW t, NEW K, NEW e, NEW n \in Nat,
           \A i \in 1..n : t[i] = s[i]
    PROVE  WillAt(t, K, e, n) <=> WillAt(s, K, e, n)
<1>1. \A i \in 1..n : (Adds(t[i], e) <=> Adds(s[i], e))
                      /\ (Removes(t[i], e) <=> Removes(s[i], e))
  OBVIOUS
<1>2. \A i \in 1..n : \A j \in (i + 1)..n : j \in 1..n
  OBVIOUS
<1> QED
  BY <1>1, <1>2 DEF WillAt

LEMMA WillAppend ==
    ASSUME NEW M, NEW s \in Seq(M), NEW m \in M, NEW t, t = Append(s, m),
           NEW K, NEW e
    PROVE  /\ \A n \in 0..Len(s) : WillAt(t, K, e, n) <=> WillAt(s, K, e, n)
           /\ Will(t, K, e) <=> Adds(m, e) \/ (Will(s, K, e) /\ ~Removes(m, e))
<1>1. /\ Len(s) \in Nat /\ Len(t) = Len(s) + 1 /\ t[Len(s) + 1] = m
      /\ \A i \in 1..Len(s) : t[i] = s[i]
  BY AppendFacts
<1>2. ASSUME NEW n \in 0..Len(s)
      PROVE  WillAt(t, K, e, n) <=> WillAt(s, K, e, n)
  <2>1. n \in Nat /\ \A i \in 1..n : t[i] = s[i]
    BY <1>1
  <2> QED
    BY <2>1, WillSame
<1>3. WillAt(t, K, e, Len(s)) <=> WillAt(s, K, e, Len(s))
  BY <1>1, <1>2
<1> QED
  BY <1>1, <1>2, <1>3, WillNext DEF Will

LEMMA WillTail ==
    ASSUME NEW M, NEW s \in Seq(M), s # <<>>, NEW t, t = Tail(s), NEW K, NEW J,
           NEW e, e \in J <=> Adds(s[1], e) \/ (e \in K /\ ~Removes(s[1], e))
    PROVE  /\ \A n \in 0..Len(s) - 1 : WillAt(t, J, e, n) <=> WillAt(s, K, e, n + 1)
           /\ Will(t, J, e) <=> Will(s, K, e)
<1>1. /\ Len(s) \in Nat \ {0} /\ Len(t) = Len(s) - 1
      /\ \A i \in 1..Len(s) - 1 : t[i] = s[i + 1]
  BY TailFacts
<1>2. ASSUME NEW n \in 0..Len(s) - 1
      PROVE  WillAt(t, J, e, n) <=> WillAt(s, K, e, n + 1)
  <2>1. /\ n \in Nat /\ n + 1 \in Nat
        /\ \A i \in 1..n : t[i] = s[i + 1]
    BY <1>1
  <2>2. ASSUME WillAt(t, J, e, n)
        PROVE  WillAt(s, K, e, n + 1)
    <3>1. CASE e \in J /\ \A i \in 1..n : ~Removes(t[i], e)
      <4>1. \A i \in 2..n + 1 : ~Removes(s[i], e)
        <5> SUFFICES ASSUME NEW i \in 2..n + 1 PROVE ~Removes(s[i], e)
          OBVIOUS
        <5>1. i - 1 \in 1..n /\ (i - 1) + 1 = i
          OBVIOUS
        <5> QED
          BY <2>1, <3>1, <5>1
      <4>2. CASE Adds(s[1], e)
        BY <2>1, <4>1, <4>2 DEF WillAt
      <4>3. CASE e \in K /\ ~Removes(s[1], e)
        <5>1. \A i \in 1..n + 1 : i = 1 \/ i \in 2..n + 1
          OBVIOUS
        <5> QED
          BY <4>1, <4>3, <5>1 DEF WillAt
      <4> QED
        BY <3>1, <4>2, <4>3
    <3>2. ASSUME NEW i \in 1..n, Adds(t[i], e),
                 \A j \in (i + 1)..n : ~Removes(t[j], e)
          PROVE  WillAt(s, K, e, n + 1)
      <4>1. i + 1 \in 1..n + 1 /\ Adds(s[i + 1], e)
        BY <2>1, <3>2
      <4>2. \A j \in (i + 2)..n + 1 : ~Removes(s[j], e)
        <5> SUFFICES ASSUME NEW j \in (i + 2)..n + 1 PROVE ~Removes(s[j], e)
          OBVIOUS
        <5>1. j - 1 \in (i + 1)..n /\ j - 1 \in 1..n /\ (j - 1) + 1 = j
          OBVIOUS
        <5> QED
          BY <2>1, <3>2, <5>1
      <4>3. (i + 1) + 1 = i + 2
        OBVIOUS
      <4> QED
        BY <4>1, <4>2, <4>3 DEF WillAt
    <3> QED
      BY <2>2, <3>1, <3>2 DEF WillAt
  <2>3. ASSUME WillAt(s, K, e, n + 1)
        PROVE  WillAt(t, J, e, n)
    <3>1. ASSUME \A i \in 2..n + 1 : ~Removes(s[i], e), e \in J
          PROVE  WillAt(t, J, e, n)
      <4>1. \A i \in 1..n : i + 1 \in 2..n + 1
        OBVIOUS
      <4> QED
        BY <2>1, <3>1, <4>1 DEF WillAt
    <3>2. CASE e \in K /\ \A i \in 1..n + 1 : ~Removes(s[i], e)
      <4>1. 1 \in 1..n + 1 /\ \A i \in 2..n + 1 : i \in 1..n + 1
        OBVIOUS
      <4> QED
        BY <3>1, <3>2, <4>1
    <3>3. ASSUME NEW i \in 1..n + 1, Adds(s[i], e),
                 \A j \in (i + 1)..n + 1 : ~Removes(s[j], e)
          PROVE  WillAt(t, J, e, n)
      <4>1. CASE i = 1
        BY <3>1, <3>3, <4>1
      <4>2. CASE i # 1
        <5>1. i - 1 \in 1..n /\ (i - 1) + 1 = i
          BY <4>2
        <5>2. Adds(t[i - 1], e)
          BY <2>1, <3>3, <5>1
        <5>3. \A j \in i..n : j \in 1..n /\ j + 1 \in (i + 1)..n + 1
          OBVIOUS
        <5>4. \A j \in ((i - 1) + 1)..n : ~Removes(t[j], e)
          BY <2>1, <3>3, <5>1, <5>3
        <5> QED
          BY <5>1, <5>2, <5>4 DEF WillAt
      <4> QED
        BY <4>1, <4>2
    <3> QED
      BY <2>3, <3>2, <3>3 DEF WillAt
  <2> QED
    BY <2>2, <2>3
<1>3. Len(s) - 1 \in 0..Len(s) - 1 /\ (Len(s) - 1) + 1 = Len(s)
  BY <1>1
<1> QED
  BY <1>1, <1>2, <1>3 DEF Will

LEMMA WordAppend ==
    ASSUME NEW M, NEW s \in Seq(M), NEW m \in M, NEW t, t = Append(s, m),
           NEW K, NEW L
    PROVE  /\ Says(m) => (Word(t, K, L) <=> ListOf(m) = L)
           /\ ~Says(m) => (Word(t, K, L) <=> Word(s, K, L))
<1>1. /\ DOMAIN s = 1..Len(s) /\ DOMAIN t = 1..Len(s) + 1 /\ Len(s) \in Nat
      /\ t[Len(s) + 1] = m /\ \A i \in 1..Len(s) : t[i] = s[i]
  BY AppendFacts
<1>2. \A i \in 1..Len(s) + 1 : i \in 1..Len(s) \/ i = Len(s) + 1
  BY <1>1
<1>3. \A i \in 1..Len(s) : i \in 1..Len(s) + 1 /\ Len(s) + 1 > i
  BY <1>1
<1>4. Len(s) + 1 \in 1..Len(s) + 1 /\ \A i \in 1..Len(s) + 1 : ~(i > Len(s) + 1)
  BY <1>1
<1>5. CASE Says(m)
  BY <1>1, <1>2, <1>3, <1>4, <1>5 DEF Word
<1>6. CASE ~Says(m)
  BY <1>1, <1>2, <1>3, <1>4, <1>6 DEF Word
<1> QED
  BY <1>5, <1>6

LEMMA WordTail ==
    ASSUME NEW M, NEW s \in Seq(M), s # <<>>, NEW t, t = Tail(s), NEW K, NEW J,
           J = IF Says(s[1]) THEN ListOf(s[1]) ELSE K, NEW L
    PROVE  Word(t, J, L) <=> Word(s, K, L)
<1>1. /\ Len(s) \in Nat \ {0} /\ DOMAIN s = 1..Len(s) /\ DOMAIN t = 1..Len(s) - 1
      /\ \A i \in 1..Len(s) - 1 : t[i] = s[i + 1]
  BY TailFacts
<1>2. \A i \in 1..Len(s) : i = 1 \/ (i - 1 \in 1..Len(s) - 1 /\ (i - 1) + 1 = i)
  BY <1>1
<1>3. \A i \in 1..Len(s) - 1 : i + 1 \in 1..Len(s) /\ i + 1 > 1 /\ i + 1 # 1
  BY <1>1
<1>4. \A i \in 1..Len(s) : i = 1 \/ s[i] = t[i - 1]
  BY <1>1, <1>2
<1>5. ASSUME Word(t, J, L)
      PROVE  Word(s, K, L)
  <2>1. CASE J = L /\ \A i \in DOMAIN t : ~Says(t[i])
    <3>1. ASSUME NEW i \in DOMAIN s, i > 1
          PROVE  ~Says(s[i])
      <4>1. i - 1 \in DOMAIN t /\ s[i] = t[i - 1]
        BY <1>1, <1>2, <1>4, <3>1
      <4> QED
        BY <2>1, <4>1
    <3>2. 1 \in DOMAIN s /\ \A i \in DOMAIN s : i = 1 \/ i > 1
      BY <1>1
    <3> QED
      BY <2>1, <3>1, <3>2 DEF Word
  <2>2. ASSUME NEW i \in DOMAIN t, Says(t[i]), ListOf(t[i]) = L,
               \A j \in DOMAIN t : j > i => ~Says(t[j])
        PROVE  Word(s, K, L)
    <3>1. i + 1 \in DOMAIN s /\ Says(s[i + 1]) /\ ListOf(s[i + 1]) = L
      BY <1>1, <1>3, <2>2
    <3>2. \A j \in DOMAIN s : j > i + 1 => j - 1 \in DOMAIN t /\ j - 1 > i
      BY <1>1, <2>2
    <3>3. \A j \in DOMAIN s : j > i + 1 => ~Says(s[j])
      BY <1>1, <1>4, <2>2, <3>2
    <3> QED
      BY <3>1, <3>3 DEF Word
  <2> QED
    BY <1>5, <2>1, <2>2 DEF Word
<1>6. ASSUME Word(s, K, L)
      PROVE  Word(t, J, L)
  <2>1. ASSUME J = L, \A i \in DOMAIN s : i > 1 => ~Says(s[i])
        PROVE  Word(t, J, L)
    BY <1>1, <1>3, <2>1 DEF Word
  <2>2. CASE K = L /\ \A i \in DOMAIN s : ~Says(s[i])
    BY <1>1, <2>1, <2>2
  <2>3. ASSUME NEW i \in DOMAIN s, Says(s[i]), ListOf(s[i]) = L,
               \A j \in DOMAIN s : j > i => ~Says(s[j])
        PROVE  Word(t, J, L)
    <3>1. CASE i = 1
      BY <2>1, <2>3, <3>1
    <3>2. CASE i # 1
      <4>1. i - 1 \in DOMAIN t /\ Says(t[i - 1]) /\ ListOf(t[i - 1]) = L
        BY <1>1, <1>2, <1>4, <2>3, <3>2
      <4>2. \A j \in DOMAIN t : j > i - 1 => j + 1 \in DOMAIN s /\ j + 1 > i
        BY <1>1, <2>3
      <4>3. \A j \in DOMAIN t : j > i - 1 => ~Says(t[j])
        BY <1>1, <2>3, <4>2
      <4> QED
        BY <4>1, <4>3 DEF Word
    <3> QED
      BY <3>1, <3>2
  <2> QED
    BY <1>6, <2>2, <2>3 DEF Word
<1> QED
  BY <1>5, <1>6

LEMMA EmptyLists ==
    /\ {} \in Lists /\ Of({}) = {}
    /\ \A L \in Lists : Of(L) \subseteq Entities
    /\ \A l \in UseCaseLists : {l} \in Lists /\ OnlyOf({l}) = l
    /\ \A L \in Lists : OnlyOf(L) \in UseCaseLists
<1>1. NoUseCases \in [{} -> BOOLEAN] /\ DOMAIN NoUseCases = {}
  BY DEF NoUseCases
<1>2. NoUseCases \in UseCaseLists
  BY <1>1 DEF UseCaseLists
<1>3. \A l \in UseCaseLists : DOMAIN l \subseteq Entities
  BY DEF UseCaseLists
<1>4. \A L \in Lists : OnlyOf(L) \in UseCaseLists
  <2> SUFFICES ASSUME NEW L \in Lists PROVE OnlyOf(L) \in UseCaseLists
    OBVIOUS
  <2>1. CASE L = {}
    BY <1>2, <2>1 DEF OnlyOf
  <2>2. ASSUME NEW x \in L
        PROVE  OnlyOf(L) \in UseCaseLists
    <3>1. (CHOOSE l \in L : TRUE) \in L
      BY <2>2
    <3>2. OnlyOf(L) \in L
      BY <2>2, <3>1 DEF OnlyOf
    <3> QED
      BY <3>2 DEF Lists
  <2> QED
    BY <2>1, <2>2
<1>5. \A l \in UseCaseLists : {l} \in Lists /\ OnlyOf({l}) = l
  BY DEF Lists, OnlyOf
<1>6. {} \in Lists /\ Of({}) = {}
  BY <1>1 DEF Lists, Of, OnlyOf
<1> QED
  BY <1>3, <1>4, <1>5, <1>6 DEF Of

LEMMA SaysNotRemoves ==
    ASSUME NEW m, NEW e, Says(m)
    PROVE  ~Removes(m, e)
BY DEF Says, Removes

LEMMA OrderedAppend ==
    ASSUME NEW M, NEW s \in Seq(M), NEW m \in M, NEW t, t = Append(s, m),
           NEW K, NEW L, Ordered(s, K, L),
           Says(m) => \A e \in Of(ListOf(m)) : Will(s, K, e),
           NEW W, Word(s, L, W),
           \A e \in Entities : Removes(m, e) => e \notin Of(W)
    PROVE  Ordered(t, K, L)
<1>1. /\ DOMAIN s = 1..Len(s) /\ DOMAIN t = 1..Len(s) + 1 /\ Len(s) \in Nat
      /\ t[Len(s) + 1] = m /\ \A i \in 1..Len(s) : t[i] = s[i]
  BY AppendFacts
<1> DEFINE z == Len(s) + 1
<1>2. /\ \A i \in DOMAIN t : i \in DOMAIN s \/ i = z
      /\ \A i \in DOMAIN s : i \in DOMAIN t /\ i < z /\ t[i] = s[i] /\ i - 1 \in 0..Len(s)
      /\ z \in DOMAIN t /\ t[z] = m /\ z - 1 = Len(s) /\ ~(z < z)
      /\ \A i \in DOMAIN s : ~(z < i)
  BY <1>1
<1>3. \A e : \A n \in 0..Len(s) : WillAt(t, K, e, n) <=> WillAt(s, K, e, n)
  BY WillAppend
<1>4. Len(s) \in 0..Len(s)
  BY <1>1
<1> HIDE DEF z
<1>5. ASSUME NEW i \in DOMAIN t, Says(t[i]), NEW e \in Of(ListOf(t[i]))
      PROVE  WillAt(t, K, e, i - 1)
  <2>1. CASE i \in DOMAIN s
    <3>1. WillAt(s, K, e, i - 1)
      BY <1>2, <1>5, <2>1 DEF Ordered
    <3> QED
      BY <1>2, <1>3, <2>1, <3>1
  <2>2. CASE i = z
    <3>1. WillAt(s, K, e, Len(s))
      BY <1>2, <1>5, <2>2 DEF Will
    <3> QED
      BY <1>2, <1>3, <1>4, <2>2, <3>1
  <2> QED
    BY <1>2, <2>1, <2>2
<1>6. ASSUME NEW n, NEW X, NEW j \in DOMAIN s, NEW e, Guarded(X, s, n, j, e)
      PROVE  Guarded(X, t, n, j, e)
  BY <1>2, <1>6 DEF Guarded
<1>7. ASSUME NEW e \in Entities
      PROVE  Guarded(L, t, 0, z, e)
  <2> SUFFICES ASSUME e \in Of(L), Removes(m, e)
               PROVE  \E k \in DOMAIN t : /\ 0 < k /\ k < z /\ Says(t[k])
                                          /\ e \notin Of(ListOf(t[k]))
    BY <1>2 DEF Guarded
  <2>1. PICK k \in DOMAIN s : Says(s[k]) /\ ListOf(s[k]) = W
    BY DEF Word
  <2>2. 0 < k
    BY <1>1
  <2> QED
    BY <1>2, <2>1, <2>2
<1>8. ASSUME NEW i \in DOMAIN s, NEW e \in Entities, Says(s[i])
      PROVE  Guarded(ListOf(s[i]), t, i, z, e)
  <2> SUFFICES ASSUME e \in Of(ListOf(s[i])), Removes(m, e)
               PROVE  \E k \in DOMAIN t : /\ i < k /\ k < z /\ Says(t[k])
                                          /\ e \notin Of(ListOf(t[k]))
    BY <1>2 DEF Guarded
  <2>1. PICK k \in DOMAIN s : /\ Says(s[k]) /\ ListOf(s[k]) = W
                              /\ \A j \in DOMAIN s : j > k => ~Says(s[j])
    BY <1>8 DEF Word
  <2>2. ListOf(s[i]) # W
    OBVIOUS
  <2>3. ~(i > k) /\ i # k
    BY <1>8, <2>1, <2>2
  <2>4. i < k
    BY <1>1, <2>3
  <2> QED
    BY <1>2, <2>1, <2>4
<1>9. \A i, j \in DOMAIN t : \A e \in Entities :
          i < j /\ Says(t[i]) => Guarded(ListOf(t[i]), t, i, j, e)
  <2> SUFFICES ASSUME NEW i \in DOMAIN t, NEW j \in DOMAIN t, NEW e \in Entities,
                      i < j, Says(t[i])
               PROVE  Guarded(ListOf(t[i]), t, i, j, e)
    OBVIOUS
  <2>1. i \in DOMAIN s /\ t[i] = s[i]
    BY <1>2
  <2>2. CASE j \in DOMAIN s
    <3>1. Guarded(ListOf(s[i]), s, i, j, e)
      BY <2>1, <2>2 DEF Ordered
    <3> QED
      BY <1>6, <2>1, <2>2, <3>1
  <2>3. CASE j = z
    BY <1>8, <2>1, <2>3
  <2> QED
    BY <1>2, <2>2, <2>3
<1>10. \A j \in DOMAIN t : \A e \in Entities : Guarded(L, t, 0, j, e)
  <2> SUFFICES ASSUME NEW j \in DOMAIN t, NEW e \in Entities
               PROVE  Guarded(L, t, 0, j, e)
    OBVIOUS
  <2>1. CASE j \in DOMAIN s
    <3>1. Guarded(L, s, 0, j, e)
      BY <2>1 DEF Ordered
    <3> QED
      BY <1>6, <2>1, <3>1
  <2> QED
    BY <1>2, <1>7, <2>1
<1>11. \A e \in Of(L) : e \in K
  BY DEF Ordered
<1> QED
  BY <1>5, <1>9, <1>10, <1>11 DEF Ordered

LEMMA OrderedTail ==
    ASSUME NEW M, NEW s \in Seq(M), s # <<>>, NEW t, t = Tail(s), NEW K, NEW J,
           NEW L, NEW N, N = (IF Says(s[1]) THEN ListOf(s[1]) ELSE L),
           Ordered(s, K, L),
           \A e : e \in J <=> Adds(s[1], e) \/ (e \in K /\ ~Removes(s[1], e)),
           Of(L) \subseteq Entities
    PROVE  Ordered(t, J, N)
<1>1. /\ Len(s) \in Nat \ {0} /\ DOMAIN s = 1..Len(s) /\ DOMAIN t = 1..Len(s) - 1
      /\ \A i \in 1..Len(s) - 1 : t[i] = s[i + 1]
  BY TailFacts
<1>2. /\ 1 \in DOMAIN s /\ 1 - 1 = 0
      /\ \A i \in DOMAIN t : /\ i + 1 \in DOMAIN s /\ t[i] = s[i + 1] /\ 0 < i + 1
                             /\ 1 < i + 1 /\ (i - 1) + 1 = i /\ (i + 1) - 1 = i
                             /\ i - 1 \in 0..Len(s) - 1
  BY <1>1
<1>3. \A e : \A n \in 0..Len(s) - 1 :
          WillAt(t, J, e, n) <=> WillAt(s, K, e, n + 1)
  BY WillTail
<1>4. ASSUME NEW e \in Of(N)
      PROVE  e \in J
  <2>1. CASE Says(s[1])
    <3>1. WillAt(s, K, e, 0)
      BY <1>2, <1>4, <2>1 DEF Ordered
    <3>2. e \in K
      BY <3>1, WillStart
    <3> QED
      BY <2>1, <3>2, SaysNotRemoves
  <2>2. CASE ~Says(s[1])
    <3>1. e \in K /\ e \in Entities /\ e \in Of(L)
      BY <1>4, <2>2 DEF Ordered
    <3>2. Guarded(L, s, 0, 1, e)
      BY <1>2, <3>1 DEF Ordered
    <3>3. ~\E k \in DOMAIN s : 0 < k /\ k < 1
      BY <1>1
    <3> QED
      BY <3>1, <3>2, <3>3 DEF Guarded
  <2> QED
    BY <2>1, <2>2
<1>5. ASSUME NEW i \in DOMAIN t, Says(t[i]), NEW e \in Of(ListOf(t[i]))
      PROVE  WillAt(t, J, e, i - 1)
  <2>1. WillAt(s, K, e, (i + 1) - 1)
    BY <1>2, <1>5 DEF Ordered
  <2> QED
    BY <1>2, <1>3, <2>1
<1>6. ASSUME NEW n \in Nat, NEW X, NEW j \in DOMAIN t, NEW e,
             Guarded(X, s, n + 1, j + 1, e)
      PROVE  Guarded(X, t, n, j, e)
  <2> SUFFICES ASSUME e \in Of(X), Removes(t[j], e)
               PROVE  \E k \in DOMAIN t : /\ n < k /\ k < j /\ Says(t[k])
                                          /\ e \notin Of(ListOf(t[k]))
    BY DEF Guarded
  <2>1. PICK k \in DOMAIN s : /\ n + 1 < k /\ k < j + 1 /\ Says(s[k])
                              /\ e \notin Of(ListOf(s[k]))
    BY <1>2, <1>6 DEF Guarded
  <2>2. k - 1 \in DOMAIN t /\ n < k - 1 /\ k - 1 < j /\ (k - 1) + 1 = k
    BY <1>1, <2>1
  <2>3. t[k - 1] = s[k]
    BY <1>2, <2>2
  <2> QED
    BY <2>1, <2>2, <2>3
<1>7. ASSUME NEW j \in DOMAIN t, NEW e \in Entities
      PROVE  Guarded(N, t, 0, j, e)
  <2>1. 0 \in Nat /\ 0 + 1 = 1
    OBVIOUS
  <2>2. CASE Says(s[1])
    <3>1. Guarded(N, s, 1, j + 1, e)
      BY <1>2, <2>2 DEF Ordered
    <3> QED
      BY <1>6, <2>1, <3>1
  <2>3. CASE ~Says(s[1])
    <3>1. Guarded(L, s, 0, j + 1, e)
      BY <1>2 DEF Ordered
    <3>2. \A k \in DOMAIN s : 0 < k /\ Says(s[k]) => 1 < k
      BY <1>1, <2>3
    <3>3. Guarded(N, s, 1, j + 1, e)
      BY <2>3, <3>1, <3>2 DEF Guarded
    <3> QED
      BY <1>6, <2>1, <3>3
  <2> QED
    BY <2>2, <2>3
<1>8. ASSUME NEW i \in DOMAIN t, NEW j \in DOMAIN t, NEW e \in Entities,
             i < j, Says(t[i])
      PROVE  Guarded(ListOf(t[i]), t, i, j, e)
  <2>1. i \in Nat /\ i + 1 < j + 1
    BY <1>1, <1>8
  <2>2. Guarded(ListOf(s[i + 1]), s, i + 1, j + 1, e)
    BY <1>2, <1>8, <2>1 DEF Ordered
  <2> QED
    BY <1>2, <1>6, <2>1, <2>2
<1> QED
  BY <1>4, <1>5, <1>7, <1>8 DEF Ordered

(* A call moves on.                                                        *)
Moves(c) == /\ call' = [d \in Callers |-> call'[d]]
            /\ IsCall(call'[c])
            /\ \A d \in Callers \ {c} : call'[d] = call[d]

LEMMA NoCallFields ==
    /\ IsCall(NoCall) /\ NoCall.op = "none" /\ NoCall.step = "idle"
    /\ NoCall \notin CallStates
    /\ \A r : IsCall(r) /\ (r.op # "none" \/ r.step # "idle") => r \in CallStates
    /\ \A r \in CallStates : r # NoCall /\ r.op # "none" /\ r.step # "idle"
<1>1. IsCall(NoCall) /\ NoCall.op = "none" /\ NoCall.step = "idle"
  BY DEF IsCall, NoCall
<1>2. \A r \in CallStates : r.op # "none" /\ r.step # "idle"
  BY DEF CallStates, UseCaseOps
<1> QED
  BY <1>1, <1>2 DEF IsCall

LEMMA BecomesMoves ==
    ASSUME CallTypes, NEW c \in Callers, NEW r, IsCall(r),
           call' = [call EXCEPT ![c] = r]
    PROVE  Moves(c) /\ call'[c] = r
BY DEF CallTypes, Moves

LEMMA BeginMoves ==
    ASSUME CallTypes, NEW c \in Callers, NEW op, NEW step, NEW e \in Entities,
           NEW available \in BOOLEAN, NEW copy \in Lists,
           Begin(c, op, step, e, available, copy),
           \/ op = "AddEntity" /\ step = "announce"
           \/ op = "RemoveEntity" /\ step \in {"set", "remove"}
           \/ op \in UseCaseOps /\ step = "set"
    PROVE  /\ Moves(c) /\ call[c] = NoCall
           /\ call'[c] \in CallStates
           /\ call'[c].op = op /\ call'[c].step = step /\ call'[c].entity = e
           /\ call'[c].copy = copy /\ call'[c].early = ~answered
           /\ calls' \in 0..MaxCalls
<1> DEFINE r == [op |-> op, step |-> step, entity |-> e, available |-> available,
                 copy |-> copy, early |-> ~answered]
<1>1. /\ r \in CallStates /\ r.op = op /\ r.step = step /\ r.entity = e
      /\ r.copy = copy /\ r.early = ~answered
  BY DEF CallStates, UseCaseOps
<1>2. call' = [call EXCEPT ![c] = r] /\ call[c] = NoCall
  BY DEF Begin
<1> HIDE DEF r
<1>3. IsCall(r)
  BY <1>1 DEF IsCall, UseCaseOps
<1>4. Moves(c) /\ call'[c] = r
  BY <1>2, <1>3, BecomesMoves
<1>5. calls' \in 0..MaxCalls
  BY BoundsAssumption DEF Begin, CallTypes
<1> QED
  BY <1>1, <1>2, <1>4, <1>5

(* Two fields are changed one after the other.                             *)
LEMMA StepChanges ==
    ASSUME NEW r \in CallStates, NEW step \in {"notify", "remove", "announce"},
           NEW q, q = [r EXCEPT !.step = step]
    PROVE  /\ q \in CallStates /\ q.step = step /\ q.op = r.op
           /\ q.entity = r.entity /\ q.early = r.early
BY DEF CallStates

LEMMA CopyChanges ==
    ASSUME NEW r \in CallStates, NEW copy \in Lists,
           NEW q, q = [r EXCEPT !.copy = copy]
    PROVE  /\ q \in CallStates /\ q.step = r.step /\ q.op = r.op
           /\ q.entity = r.entity
BY DEF CallStates

LEMMA EarlyChanges ==
    ASSUME NEW r \in CallStates, NEW early \in BOOLEAN,
           NEW q, q = [r EXCEPT !.early = early]
    PROVE  /\ q \in CallStates /\ q.step = r.step /\ q.op = r.op
           /\ q.entity = r.entity /\ q.early = early
BY DEF CallStates

LEMMA SetMoves ==
    ASSUME CallTypes, NEW c \in Callers, SetUseCases(c)
    PROVE  /\ Moves(c) /\ call[c] \in CallStates /\ call'[c] \in CallStates
           /\ call[c].step = "set" /\ call'[c].step = "notify"
           /\ call'[c].op = call[c].op /\ call'[c].entity = call[c].entity
<1>1. call[c] \in CallStates /\ call[c].step = "set" /\ {} \in Lists
  BY NoCallFields, EmptyLists DEF SetUseCases, CallTypes
<1>2. PICK r : r = [call[c] EXCEPT !.step = "notify"]
  OBVIOUS
<1>3. /\ r \in CallStates /\ r.op = call[c].op /\ r.step = "notify"
      /\ r.entity = call[c].entity
  BY <1>1, <1>2, StepChanges
<1>4. PICK mid : mid = [call EXCEPT ![c].step = "notify"]
  OBVIOUS
<1>5. /\ mid = [call EXCEPT ![c] = r] /\ mid[c] = r
  BY <1>2, <1>4 DEF CallTypes
<1>6. call' = [mid EXCEPT ![c].copy = {}]
  BY <1>4, Zenon DEF SetUseCases
<1>7. PICK q : q = [r EXCEPT !.copy = {}]
  OBVIOUS
<1>8. /\ q \in CallStates /\ q.op = call[c].op /\ q.step = "notify"
      /\ q.entity = call[c].entity
  BY <1>1, <1>3, <1>7, CopyChanges
<1>9. call' = [mid EXCEPT ![c] = q]
  BY <1>5, <1>6, <1>7
<1>10. call' = [call EXCEPT ![c] = q]
  BY <1>5, <1>9 DEF CallTypes
<1>11. IsCall(q)
  <2>1. call[c].op # "AddEntity"
    BY <1>1, NoCallFields DEF IsCall, CallTypes
  <2> QED
    BY <1>8, <2>1 DEF IsCall
<1>12. Moves(c) /\ call'[c] = q
  BY <1>10, <1>11, BecomesMoves
<1> QED
  BY <1>1, <1>8, <1>12

LEMMA NotifyMoves ==
    ASSUME CallTypes, NEW c \in Callers, NotifyUseCases(c)
    PROVE  /\ Moves(c) /\ call[c] \in CallStates /\ call[c].step = "notify"
           /\ call[c].op # "RemoveEntity" => call'[c] = NoCall
           /\ call[c].op = "RemoveEntity" =>
                 /\ call'[c] \in CallStates /\ call'[c].step = "remove"
                 /\ call'[c].op = call[c].op /\ call'[c].entity = call[c].entity
<1>1. call[c] \in CallStates /\ call[c].step = "notify"
  BY NoCallFields DEF NotifyUseCases, CallTypes
<1>2. CASE call[c].op # "RemoveEntity"
  <2>1. call' = [call EXCEPT ![c] = NoCall]
    BY <1>2 DEF NotifyUseCases, CallTypes
  <2> QED
    BY <1>1, <1>2, <2>1, NoCallFields, BecomesMoves
<1>3. CASE call[c].op = "RemoveEntity"
  <2>1. PICK r : r = [call[c] EXCEPT !.step = "remove"]
    OBVIOUS
  <2>2. /\ r \in CallStates /\ r.op = call[c].op /\ r.step = "remove"
        /\ r.entity = call[c].entity
    BY <1>1, <2>1 DEF CallStates
  <2>3. call' = [call EXCEPT ![c] = r]
    BY <1>3, <2>1 DEF NotifyUseCases, CallTypes
  <2>4. IsCall(r)
    BY <1>3, <2>2 DEF IsCall, UseCaseOps
  <2> QED
    BY <1>1, <1>3, <2>2, <2>3, <2>4, BecomesMoves
<1> QED
  BY <1>2, <1>3

LEMMA RemoveMoves ==
    ASSUME CallTypes, NEW c \in Callers, RemoveFromList(c)
    PROVE  /\ Moves(c) /\ call[c] \in CallStates /\ call'[c] \in CallStates
           /\ call[c].step = "remove" /\ call'[c].step = "announce"
           /\ call[c].op = "RemoveEntity" /\ call'[c].op = "RemoveEntity"
           /\ call'[c].entity = call[c].entity /\ call'[c].early = ~answered
<1>1. call[c] \in CallStates /\ call[c].step = "remove" /\ {} \in Lists
  BY NoCallFields, EmptyLists DEF RemoveFromList, CallTypes
<1>0. call[c].op = "RemoveEntity"
  BY <1>1, NoCallFields DEF CallTypes, IsCall, CallStates
<1>2. PICK r : r = [call[c] EXCEPT !.step = "announce"]
  OBVIOUS
<1>3. /\ r \in CallStates /\ r.op = call[c].op /\ r.step = "announce"
      /\ r.entity = call[c].entity
  BY <1>1, <1>2, StepChanges
<1>4. PICK mid : mid = [call EXCEPT ![c].step = "announce"]
  OBVIOUS
<1>5. /\ mid = [call EXCEPT ![c] = r] /\ mid[c] = r
  BY <1>2, <1>4 DEF CallTypes
<1>6. call' = [mid EXCEPT ![c].early = ~answered]
  BY <1>4, Zenon DEF RemoveFromList
<1>7. PICK q : q = [r EXCEPT !.early = ~answered]
  OBVIOUS
<1>8. /\ q \in CallStates /\ q.op = call[c].op /\ q.step = "announce"
      /\ q.entity = call[c].entity /\ q.early = ~answered
  <2>1. PICK early \in BOOLEAN : early = ~answered
    OBVIOUS
  <2>2. q = [r EXCEPT !.early = early]
    BY <1>7, <2>1
  <2>3. /\ q \in CallStates /\ q.op = call[c].op /\ q.step = "announce"
        /\ q.entity = call[c].entity /\ q.early = early
    <3>1. early \in BOOLEAN
      BY <2>1
    <3>2. /\ q \in CallStates /\ q.step = r.step /\ q.op = r.op
          /\ q.entity = r.entity /\ q.early = early
      BY <1>3, <2>2, <3>1, EarlyChanges
    <3> QED
      BY <1>3, <3>2
  <2> QED
    BY <2>1, <2>3, Zenon
<1>9. call' = [mid EXCEPT ![c] = q]
  BY <1>5, <1>6, <1>7
<1>10. call' = [call EXCEPT ![c] = q]
  BY <1>5, <1>9 DEF CallTypes
<1>11. IsCall(q)
  BY <1>0, <1>8 DEF IsCall, UseCaseOps
<1>12. Moves(c) /\ call'[c] = q
  BY <1>10, <1>11, BecomesMoves
<1> QED
  BY <1>0, <1>1, <1>8, <1>12

LEMMA AnnounceMoves ==
    ASSUME CallTypes, NEW c \in Callers, Announce(c)
    PROVE  /\ Moves(c) /\ call[c] \in CallStates /\ call[c].step = "announce"
           /\ call[c].op \in {"AddEntity", "RemoveEntity"} /\ call'[c] = NoCall
<1>1. call[c] \in CallStates /\ call[c].step = "announce"
  BY NoCallFields DEF Announce, CallTypes
<1>2. call[c].op \in {"AddEntity", "RemoveEntity"}
  BY <1>1, NoCallFields DEF CallTypes, IsCall, CallStates
<1>3. call' = [call EXCEPT ![c] = NoCall]
  BY DEF Announce
<1> QED
  BY <1>1, <1>2, <1>3, NoCallFields, BecomesMoves

LEMMA ChangedList ==
    ASSUME NEW it \in CallStates
    PROVE  /\ Changed(it) \in UseCaseLists
           /\ DOMAIN Changed(it) \subseteq Of(it.copy) \cup {it.entity}
           /\ it.op \notin UseCaseOps => DOMAIN Changed(it) = Of(it.copy) \ {it.entity}
<1> DEFINE list == OnlyOf(it.copy)
<1>1. list \in UseCaseLists /\ Of(it.copy) = DOMAIN list
  BY EmptyLists DEF CallStates, Of
<1>2. it.entity \in Entities /\ it.available \in BOOLEAN
  BY DEF CallStates
<1>3. PICK S \in SUBSET Entities : list \in [S -> BOOLEAN]
  BY <1>1 DEF UseCaseLists
<1> HIDE DEF list
<1>4. CASE it.op = "AddUseCaseSupport"
  <2>1. Changed(it) = Over([x \in {it.entity} |-> it.available], list)
    BY <1>4 DEF Changed, AddUseCaseSupport, list
  <2>2. Changed(it) = [x \in {it.entity} \cup S |->
                          IF x = it.entity THEN it.available ELSE list[x]]
    BY <1>3, <2>1 DEF Over
  <2>3. Changed(it) \in [{it.entity} \cup S -> BOOLEAN]
    BY <1>2, <1>3, <2>2
  <2>4. {it.entity} \cup S \in SUBSET Entities
    BY <1>2
  <2> QED
    BY <1>1, <1>3, <1>4, <2>3, <2>4 DEF UseCaseLists, UseCaseOps
<1>5. CASE it.op = "SetUseCaseAvailability"
  <2>1. Changed(it) = [x \in DOMAIN list |->
                          IF x = it.entity THEN it.available ELSE list[x]]
    BY <1>5 DEF Changed, SetAvailability, list
  <2>2. Changed(it) \in [S -> BOOLEAN]
    BY <1>2, <1>3, <2>1
  <2> QED
    BY <1>1, <1>3, <1>5, <2>2 DEF UseCaseLists, UseCaseOps
<1>6. CASE it.op \notin {"AddUseCaseSupport", "SetUseCaseAvailability"}
  <2>1. Changed(it) = [x \in DOMAIN list \ {it.entity} |-> list[x]]
    BY <1>6 DEF Changed, RemoveUseCaseDataForAddress, Without, list
  <2>2. Changed(it) \in [S \ {it.entity} -> BOOLEAN]
    BY <1>3, <2>1
  <2>3. S \ {it.entity} \in SUBSET Entities
    OBVIOUS
  <2>4. Changed(it) \in UseCaseLists
    BY <2>2, <2>3 DEF UseCaseLists
  <2> QED
    BY <1>1, <2>1, <2>4
<1> QED
  BY <1>4, <1>5, <1>6

(* Entities whose features are known.                                      *)
LEMMA FeaturesAdded ==
    ASSUME NEW D, NEW added, NEW featured, added \subseteq featured
    PROVE  /\ AddEntityAndFeatures(Featured(D), added, featured)
              = Featured(added \cup D)
           /\ DOMAIN Featured(D) = D
BY DEF AddEntityAndFeatures, Over, Featured

LEMMA FeaturesLost ==
    ASSUME NEW D, NEW added, NEW featured
    PROVE  Without(AddEntityAndFeatures(Featured(D), added, featured), added)
           = Featured(D \ added)
BY DEF AddEntityAndFeatures, Over, Featured, Without

LEMMA ReplyFields ==
    /\ NoReply.kind = "none"
    /\ \A r \in Replies : /\ r \in DownMessages
                          /\ r.kind \in {"discoveryReply", "useCasesReply"}
                          /\ r.kind = "discoveryReply" => r.entities \subseteq Entities
                          /\ r.kind = "useCasesReply" => r.list \in Lists
    /\ \A r \in Notifications : r.kind \in {"fullNotify", "AddEntity", "RemoveEntity", "useCases"}
    /\ \A m \in DownMessages :
          /\ m.kind \in {"discoveryReply", "fullNotify"} => m.entities \subseteq Entities
          /\ m.kind \in {"AddEntity", "RemoveEntity"} => m.entity \in Entities
          /\ m.kind \in {"useCasesReply", "useCases"} => m.list \in Lists
          /\ m.kind \in {"discoveryReply", "useCasesReply", "useCases", "fullNotify",
                         "AddEntity", "RemoveEntity"}
<1>1. NoReply.kind = "none"
  BY DEF NoReply
<1> QED
  BY <1>1 DEF Replies, DownMessages, Notifications

(* What a message makes of what is known.                                  *)
LEMMA HandleKnown ==
    ASSUME TypeInv, HandleMessage
    PROVE  /\ down # <<>> /\ Head(down) \in DownMessages /\ down' = Tail(down)
           /\ known' = Featured(DOMAIN known')
           /\ DOMAIN known' \subseteq Entities
           /\ knownUseCases' = IF Says(Head(down)) THEN ListOf(Head(down))
                               ELSE knownUseCases
           /\ lossy \subseteq lossy' /\ lossy' \subseteq {"entities", "useCases"}
           /\ "entities" \notin lossy' =>
                 \A e : e \in DOMAIN known' <=>
                        Adds(Head(down), e)
                        \/ (e \in DOMAIN known /\ ~Removes(Head(down), e))
<1> DEFINE m == Head(down)
<1>1. down # <<>> /\ m \in DownMessages /\ down' = Tail(down)
  BY DEF HandleMessage, TypeInv, QueueTypes
<1>2. known = Featured(DOMAIN known) /\ DOMAIN known \subseteq Entities
      /\ lossy \subseteq {"entities", "useCases"}
  BY DEF TypeInv, RemoteTypes, LocalTypes, Featured
<1>3. \/ m.kind = "discoveryReply" /\ DiscoveryReply(m)
      \/ m.kind = "fullNotify" /\ FullNotify(m)
      \/ m.kind \in {"AddEntity", "RemoveEntity"} /\ PartialNotify(m)
      \/ m.kind \in {"useCasesReply", "useCases"} /\ UseCaseData(m)
  BY DEF HandleMessage
<1> HIDE DEF m
<1> USE DEF Says, ListOf, Adds, Removes
<1> SUFFICES
       /\ known' = Featured(DOMAIN known')
       /\ DOMAIN known' \subseteq Entities
       /\ knownUseCases' = IF Says(m) THEN ListOf(m) ELSE knownUseCases
       /\ lossy \subseteq lossy' /\ lossy' \subseteq {"entities", "useCases"}
       /\ "entities" \notin lossy' =>
             \A e : e \in DOMAIN known'
                    <=> Adds(m, e) \/ (e \in DOMAIN known /\ ~Removes(m, e))
  BY <1>1 DEF m
<1>4. CASE m.kind = "discoveryReply" /\ DiscoveryReply(m)
  <2>1. m.entities \subseteq Entities
    BY <1>1, <1>4, ReplyFields
  <2>2. known' = Featured(m.entities \cup DOMAIN known)
    BY <1>2, <1>4, FeaturesAdded DEF DiscoveryReply
  <2>3. knownUseCases' = {} /\ lossy' = lossy
    BY <1>4 DEF DiscoveryReply
  <2>4. DOMAIN known' = m.entities \cup DOMAIN known
    BY <2>2, FeaturesAdded
  <2> QED
    BY <1>2, <1>4, <2>1, <2>2, <2>3, <2>4
<1>5. CASE m.kind = "fullNotify" /\ FullNotify(m)
  <2> DEFINE added == m.entities \ DOMAIN known
             removed == DOMAIN known \ m.entities
             full == AddEntityAndFeatures(known, added \cup removed, added)
  <2>1. m.entities \subseteq Entities
    BY <1>1, <1>5, ReplyFields
  <2>3. /\ known' = IF removed # {} THEN Without(full, added \cup removed) ELSE full
        /\ lossy' = IF added # {} /\ removed # {} THEN lossy \cup {"entities"}
                    ELSE lossy
        /\ knownUseCases' = knownUseCases
    BY <1>5 DEF FullNotify, FullNotifyDiff
  <2>4. CASE removed = {}
    <3>1. full = Featured(added \cup removed \cup DOMAIN known)
      BY <1>2, <2>4, FeaturesAdded
    <3>2. known' = Featured(m.entities)
      BY <2>3, <2>4, <3>1
    <3>3. DOMAIN known' = m.entities
      BY <3>2, FeaturesAdded
    <3> QED
      BY <1>2, <1>5, <2>1, <2>3, <2>4, <3>2, <3>3
  <2>5. CASE removed # {}
    <3>0. known' = Featured(DOMAIN known \ (added \cup removed))
      BY <1>2, <2>3, <2>5, FeaturesLost
    <3>1. DOMAIN known' = DOMAIN known \ removed
      BY <3>0, FeaturesAdded
    <3>2. known' = Featured(DOMAIN known')
      BY <3>0, FeaturesAdded
    <3>3. added = {} => DOMAIN known' = m.entities
      BY <3>1
    <3> QED
      BY <1>2, <1>5, <2>3, <2>5, <3>1, <3>2, <3>3
  <2> QED
    BY <2>4, <2>5
<1>6. CASE m.kind \in {"AddEntity", "RemoveEntity"} /\ PartialNotify(m)
  <2>1. m.entity \in Entities /\ lossy' = lossy /\ knownUseCases' = knownUseCases
    BY <1>1, <1>6, ReplyFields DEF PartialNotify
  <2>2. CASE m.kind = "AddEntity"
    <3>1. known' = Featured({m.entity} \cup DOMAIN known)
      BY <1>2, <1>6, <2>2, FeaturesAdded DEF PartialNotify
    <3>2. DOMAIN known' = {m.entity} \cup DOMAIN known
      BY <3>1, FeaturesAdded
    <3> QED
      BY <1>2, <2>1, <2>2, <3>1, <3>2
  <2>3. CASE m.kind = "RemoveEntity"
    <3>1. known' = [e \in DOMAIN known \ {m.entity} |-> known[e]]
      BY <1>6, <2>3 DEF PartialNotify, Without
    <3>2. known' = Featured(DOMAIN known \ {m.entity})
      BY <1>2, <3>1 DEF Featured
    <3>3. DOMAIN known' = DOMAIN known \ {m.entity}
      BY <3>2, FeaturesAdded
    <3> QED
      BY <1>2, <2>1, <2>3, <3>2, <3>3
  <2> QED
    BY <1>6, <2>2, <2>3
<1>7. CASE m.kind \in {"useCasesReply", "useCases"} /\ UseCaseData(m)
  <2>1. known' = known /\ lossy' = lossy /\ knownUseCases' = m.list
    BY <1>7 DEF UseCaseData
  <2> QED
    BY <1>2, <1>7, <2>1
<1> QED
  BY <1>3, <1>4, <1>5, <1>6, <1>7

Ask(kind) == [kind |-> kind]

LEMMA AskMessages ==
    ASSUME NEW kind \in {"readDiscovery", "readUseCases", "subscribe"}
    PROVE  Ask(kind) \in UpMessages /\ Ask(kind).kind = kind
BY DEF Ask, UpMessages

(* A call tells the other device at most one thing, once it subscribed.    *)
Tells == \/ UNCHANGED down
         \/ subscribed /\ \E m \in Notifications : down' = Append(down, m)
CallKeeps == /\ UNCHANGED <<style, reader, subscribed, up, remote, answered>>
             /\ lossy \subseteq lossy'

LEMMA BeginTypes ==
    ASSUME TypeInv, NEW c \in Callers, NEW op, NEW step, NEW e \in Entities,
           NEW available \in BOOLEAN, NEW copy \in Lists,
           Begin(c, op, step, e, available, copy),
           \/ op = "AddEntity" /\ step = "announce"
           \/ op = "RemoveEntity" /\ step \in {"set", "remove"}
           \/ op \in UseCaseOps /\ step = "set"
    PROVE  CallTypes' /\ lossy \subseteq lossy'
           /\ lossy' \subseteq {"entities", "useCases"}
<1>1. Moves(c) /\ calls' \in 0..MaxCalls
  BY BeginMoves DEF TypeInv
<1>2. CallTypes'
  BY <1>1 DEF CallTypes, Moves, TypeInv
<1>3. Meeting(c, op, e) \subseteq {"entities", "useCases"}
  BY DEF Meeting
<1>4. lossy' = lossy \cup Meeting(c, op, e)
  BY DEF Begin
<1> QED
  BY <1>2, <1>3, <1>4 DEF TypeInv, LocalTypes

LEMMA CallStepCases ==
    ASSUME NEW c \in Callers, CallStep(c)
    PROVE  \/ \E e \in Entities : AddEntity(c, e) \/ RemoveEntity(c, e)
           \/ \E e \in Entities, op \in UseCaseOps, available \in BOOLEAN :
                 CopyUseCases(c, op, e, available)
           \/ SetUseCases(c) \/ NotifyUseCases(c) \/ RemoveFromList(c)
           \/ Announce(c)
BY DEF CallStep, UseCaseOps

LEMMA CallStepTypes ==
    ASSUME TypeInv, NEW c \in Callers, CallStep(c)
    PROVE  CallTypes' /\ LocalTypes' /\ CallKeeps /\ Tells
<1> USE DEF CallKeeps, Tells
<1>1. ASSUME NEW e \in Entities, AddEntity(c, e)
      PROVE  CallTypes' /\ LocalTypes' /\ CallKeeps /\ Tells
  <2>1. CallTypes' /\ lossy \subseteq lossy' /\ lossy' \subseteq {"entities", "useCases"}
    BY <1>1, EmptyLists, BeginTypes DEF AddEntity
  <2> QED
    BY <1>1, <2>1 DEF AddEntity, TypeInv, LocalTypes
<1>2. ASSUME NEW e \in Entities, RemoveEntity(c, e)
      PROVE  CallTypes' /\ LocalTypes' /\ CallKeeps /\ Tells
  <2>1. useCases \in Lists
    BY DEF TypeInv, LocalTypes
  <2>2. CallTypes' /\ lossy \subseteq lossy' /\ lossy' \subseteq {"entities", "useCases"}
    BY <1>2, <2>1, BeginTypes DEF RemoveEntity
  <2> QED
    BY <1>2, <2>2 DEF RemoveEntity, TypeInv, LocalTypes
<1>3. ASSUME NEW e \in Entities, NEW op \in UseCaseOps, NEW available \in BOOLEAN,
             CopyUseCases(c, op, e, available)
      PROVE  CallTypes' /\ LocalTypes' /\ CallKeeps /\ Tells
  <2>1. useCases \in Lists
    BY DEF TypeInv, LocalTypes
  <2>2. CallTypes' /\ lossy \subseteq lossy' /\ lossy' \subseteq {"entities", "useCases"}
    BY <1>3, <2>1, BeginTypes DEF CopyUseCases
  <2> QED
    BY <1>3, <2>2 DEF CopyUseCases, TypeInv, LocalTypes
<1>4. ASSUME Moves(c), UNCHANGED calls
      PROVE  CallTypes'
  BY <1>4 DEF Moves, CallTypes, TypeInv
<1>5. CASE SetUseCases(c)
  <2>1. Moves(c) /\ call[c] \in CallStates
    BY <1>5, SetMoves DEF TypeInv
  <2>2. useCases' = {Changed(call[c])} /\ useCases' \in Lists
    BY <1>5, <2>1, ChangedList, EmptyLists DEF SetUseCases
  <2> QED
    BY <1>4, <1>5, <2>1, <2>2 DEF SetUseCases, TypeInv, LocalTypes
<1>6. CASE NotifyUseCases(c)
  <2>1. Moves(c) /\ useCases \in Lists
    BY <1>6, NotifyMoves DEF TypeInv, LocalTypes
  <2>2. [kind |-> "useCases", list |-> useCases] \in Notifications
    BY <2>1 DEF Notifications
  <2>3. CallTypes' /\ Tells
    BY <1>4, <1>6, <2>1, <2>2 DEF NotifyUseCases, Notify, TypeInv, LocalTypes
  <2>4. LocalTypes' /\ CallKeeps
    BY <1>6 DEF NotifyUseCases, TypeInv, LocalTypes
  <2> QED
    BY <2>3, <2>4
<1>7. CASE RemoveFromList(c)
  <2>1. Moves(c)
    BY <1>7, RemoveMoves DEF TypeInv
  <2> QED
    BY <1>4, <1>7, <2>1 DEF RemoveFromList, TypeInv, LocalTypes
<1>8. CASE Announce(c)
  <2>1. /\ Moves(c) /\ call[c] \in CallStates
        /\ call[c].op \in {"AddEntity", "RemoveEntity"}
    BY <1>8, AnnounceMoves DEF TypeInv
  <2>2. call[c].entity \in Entities /\ entities \in SUBSET Entities
    BY <2>1 DEF CallStates, TypeInv, LocalTypes
  <2>3. Announcement(call[c]) \in Notifications
    BY <2>1, <2>2 DEF Announcement, Notifications
  <2>4. CallTypes' /\ Tells
    BY <1>4, <1>8, <2>1, <2>3 DEF Announce, Notify, TypeInv, LocalTypes
  <2>5. LocalTypes' /\ CallKeeps
    BY <1>8 DEF Announce, TypeInv, LocalTypes
  <2> QED
    BY <2>4, <2>5
<1> QED
  BY <1>1, <1>2, <1>3, <1>5, <1>6, <1>7, <1>8, CallStepCases

-----------------------------------------------------------------------------
(* What the readers of both devices send.                                  *)
LEMMA TwoAppended ==
    ASSUME NEW M, NEW s \in Seq(M), NEW a \in M, NEW b \in M
    PROVE  s \o (<<a>> \o <<b>>) = Append(Append(s, a), b)
<1>1. Append(s, a) = s \o <<a>> /\ Append(s, a) \in Seq(M)
  BY AppendIsConcat, AppendProperties
<1>2. Append(Append(s, a), b) = (s \o <<a>>) \o <<b>>
  BY <1>1, AppendIsConcat
<1>3. <<a>> \in Seq(M) /\ <<b>> \in Seq(M)
  OBVIOUS
<1> QED
  BY <1>2, <1>3, ConcatAssociative

LEMMA RequestSent ==
    ASSUME TypeInv, RequestDiscovery
    PROVE  /\ asked' = asked \cup {"discovery"}
           /\ up' = IF "discovery" \in asked THEN up
                    ELSE Append(up, Ask("readDiscovery"))
<1>1. up \in Seq(UpMessages)
  BY DEF TypeInv, QueueTypes
<1>2. up \o <<>> = up /\ up \o <<Ask("readDiscovery")>> = Append(up, Ask("readDiscovery"))
  BY <1>1, AskMessages
<1> QED
  BY <1>2 DEF RequestDiscovery, Requests, Ask

LEMMA HandleSent ==
    ASSUME TypeInv, HandleMessage, NEW m, m = Head(down)
    PROVE  /\ m.kind = "discoveryReply" =>
                 /\ asked' = (asked \ {"discovery"}) \cup {"useCases"}
                 /\ up' = IF "useCases" \in asked
                          THEN Append(up, Ask("subscribe"))
                          ELSE Append(Append(up, Ask("subscribe")),
                                      Ask("readUseCases"))
           /\ m.kind # "discoveryReply" =>
                 \/ /\ up' = up
                    /\ asked' = IF m.kind = "useCasesReply"
                                THEN asked \ {"useCases"} ELSE asked
                 \/ /\ m.kind = "fullNotify" /\ "discovery" \notin asked
                    /\ up' = Append(up, Ask("readDiscovery"))
                    /\ asked' = asked \cup {"discovery"}
<1>1. up \in Seq(UpMessages)
  BY DEF TypeInv, QueueTypes
<1>2. \/ m.kind = "discoveryReply" /\ DiscoveryReply(m)
      \/ m.kind = "fullNotify" /\ FullNotify(m)
      \/ m.kind \in {"AddEntity", "RemoveEntity"} /\ PartialNotify(m)
      \/ m.kind \in {"useCasesReply", "useCases"} /\ UseCaseData(m)
  BY DEF HandleMessage
<1>3. CASE m.kind = "discoveryReply" /\ DiscoveryReply(m)
  <2>1. HandleEvent(asked \ {"discovery"})
        = IF "useCases" \in asked THEN <<Ask("subscribe")>> \o <<>>
          ELSE <<Ask("subscribe")>> \o <<Ask("readUseCases")>>
    BY DEF HandleEvent, Requests, Ask
  <2>2. /\ <<Ask("subscribe")>> \o <<>> = <<Ask("subscribe")>>
        /\ up \o <<Ask("subscribe")>> = Append(up, Ask("subscribe"))
    BY <1>1, AskMessages
  <2>3. up \o (<<Ask("subscribe")>> \o <<Ask("readUseCases")>>)
        = Append(Append(up, Ask("subscribe")), Ask("readUseCases"))
    BY <1>1, AskMessages, TwoAppended
  <2> QED
    BY <1>3, <2>1, <2>2, <2>3 DEF DiscoveryReply
<1>4. CASE m.kind = "fullNotify" /\ FullNotify(m)
  <2>1. \/ up' = up /\ asked' = asked
        \/ /\ up' = up \o Requests(asked, "discovery")
           /\ asked' = asked \cup {"discovery"}
    BY <1>4 DEF FullNotify
  <2>2. up \o <<>> = up /\ up \o <<Ask("readDiscovery")>> = Append(up, Ask("readDiscovery"))
    BY <1>1, AskMessages
  <2>3. Requests(asked, "discovery")
        = IF "discovery" \in asked THEN <<>> ELSE <<Ask("readDiscovery")>>
    BY DEF Requests, Ask
  <2> QED
    BY <1>4, <2>1, <2>2, <2>3
<1>5. CASE m.kind \in {"AddEntity", "RemoveEntity"} /\ PartialNotify(m)
  BY <1>5 DEF PartialNotify
<1>6. CASE m.kind \in {"useCasesReply", "useCases"} /\ UseCaseData(m)
  BY <1>6 DEF UseCaseData
<1> QED
  BY <1>2, <1>3, <1>4, <1>5, <1>6

(* The readers' steps.                                                     *)
ReaderStep ==
    \/ ReadDiscovery \/ ReadUseCases \/ SendReply \/ AddSubscription
    \/ RequestDiscovery \/ HandleMessage

LEMMA ReaderKeeps ==
    ASSUME TypeInv, ReaderStep
    PROVE  UNCHANGED <<style, entities, useCases, call, calls>>
           /\ lossy \subseteq lossy'
<1>1. CASE HandleMessage
  BY <1>1, HandleKnown DEF HandleMessage
<1>2. CASE ~HandleMessage
  BY <1>2 DEF ReaderStep, ReadDiscovery, ReadUseCases, SendReply, AddSubscription,
              RequestDiscovery
<1> QED
  BY <1>1, <1>2

LEMMA QueueKept ==
    ASSUME QueueTypes, UNCHANGED reader,
           \/ UNCHANGED up \/ (up # <<>> /\ up' = Tail(up))
           \/ \E m \in UpMessages : up' = Append(up, m),
           \/ UNCHANGED down \/ (down # <<>> /\ down' = Tail(down))
           \/ \E m \in DownMessages : down' = Append(down, m)
    PROVE  QueueTypes'
<1>1. up' \in Seq(UpMessages)
  BY AppendFacts, TailFacts DEF QueueTypes
<1>2. down' \in Seq(DownMessages)
  BY AppendFacts, TailFacts DEF QueueTypes
<1> QED
  BY <1>1, <1>2 DEF QueueTypes

LEMMA ReaderStepTypes ==
    ASSUME TypeInv, ReaderStep
    PROVE  LocalTypes' /\ QueueTypes' /\ RemoteTypes'
<1> USE DEF TypeInv
<1>1. CASE ReadDiscovery
  <2>1. [kind |-> "discoveryReply", entities |-> entities] \in Replies
    BY DEF LocalTypes, Replies
  <2>2. up' \in Seq(UpMessages)
    BY <1>1, TailFacts DEF ReadDiscovery, Received, QueueTypes
  <2> QED
    BY <1>1, <2>1, <2>2 DEF ReadDiscovery, LocalTypes, QueueTypes, RemoteTypes
<1>2. CASE ReadUseCases
  <2>1. [kind |-> "useCasesReply", list |-> useCases] \in Replies
    BY DEF LocalTypes, Replies
  <2>2. up' \in Seq(UpMessages)
    BY <1>2, TailFacts DEF ReadUseCases, Received, QueueTypes
  <2> QED
    BY <1>2, <2>1, <2>2 DEF ReadUseCases, LocalTypes, QueueTypes, RemoteTypes
<1>3. CASE SendReply
  <2>1. reader \in DownMessages
    BY <1>3, ReplyFields DEF SendReply, QueueTypes
  <2>2. down' \in Seq(DownMessages)
    BY <1>3, <2>1, AppendFacts DEF SendReply, QueueTypes
  <2> QED
    BY <1>3, <2>2 DEF SendReply, LocalTypes, QueueTypes, RemoteTypes
<1>4. CASE AddSubscription
  <2>1. up' \in Seq(UpMessages)
    BY <1>4, TailFacts DEF AddSubscription, Received, QueueTypes
  <2> QED
    BY <1>4, <2>1 DEF AddSubscription, LocalTypes, QueueTypes, RemoteTypes
<1>5. CASE RequestDiscovery
  <2>1. up' \in Seq(UpMessages)
    BY <1>5, RequestSent, AskMessages, AppendFacts DEF QueueTypes
  <2>2. reads' \in 0..MaxReads
    BY <1>5, BoundsAssumption DEF RequestDiscovery, RemoteTypes
  <2>3. asked' \subseteq {"discovery", "useCases"}
    BY <1>5, RequestSent DEF RemoteTypes
  <2> QED
    BY <1>5, <2>1, <2>2, <2>3 DEF RequestDiscovery, LocalTypes, QueueTypes, RemoteTypes
<1>6. CASE HandleMessage
  <2> DEFINE m == Head(down)
  <2>1. /\ down # <<>> /\ m \in DownMessages /\ down' = Tail(down)
        /\ known' = Featured(DOMAIN known') /\ DOMAIN known' \subseteq Entities
        /\ knownUseCases' = IF Says(m) THEN ListOf(m) ELSE knownUseCases
        /\ lossy' \subseteq {"entities", "useCases"}
    BY <1>6, HandleKnown
  <2>2. UNCHANGED <<style, local, reader, subscribed, reads, answered>>
    BY <1>6 DEF HandleMessage
  <2>3. /\ m.kind = "discoveryReply" =>
              /\ asked' = (asked \ {"discovery"}) \cup {"useCases"}
              /\ up' = IF "useCases" \in asked
                       THEN Append(up, Ask("subscribe"))
                       ELSE Append(Append(up, Ask("subscribe")),
                                   Ask("readUseCases"))
        /\ m.kind # "discoveryReply" =>
              \/ /\ up' = up
                 /\ asked' = IF m.kind = "useCasesReply"
                             THEN asked \ {"useCases"} ELSE asked
              \/ /\ up' = Append(up, Ask("readDiscovery"))
                 /\ asked' = asked \cup {"discovery"}
    BY <1>6, HandleSent
  <2>4. knownUseCases' \in Lists
    BY <2>1, ReplyFields, EmptyLists DEF Says, ListOf, RemoteTypes
  <2> HIDE DEF m
  <2>5. up \in Seq(UpMessages) /\ Append(up, Ask("subscribe")) \in Seq(UpMessages)
        /\ Append(Append(up, Ask("subscribe")), Ask("readUseCases")) \in Seq(UpMessages)
        /\ Append(up, Ask("readDiscovery")) \in Seq(UpMessages)
    BY AskMessages, AppendFacts DEF QueueTypes
  <2>6. up' \in Seq(UpMessages) /\ asked' \subseteq {"discovery", "useCases"}
    BY <2>3, <2>5 DEF RemoteTypes
  <2>7. down' \in Seq(DownMessages)
    BY <2>1, TailFacts DEF QueueTypes
  <2> QED
    BY <2>1, <2>2, <2>4, <2>6, <2>7 DEF LocalTypes, QueueTypes, RemoteTypes
<1> QED
  BY <1>1, <1>2, <1>3, <1>4, <1>5, <1>6 DEF ReaderStep

LEMMA StepTypes == TypeInv /\ [Next]_vars => TypeInv'
<1> SUFFICES ASSUME TypeInv, [Next]_vars PROVE TypeInv'
  OBVIOUS
<1>1. CASE UNCHANGED vars
  BY <1>1 DEF vars, TypeInv, LocalTypes, CallTypes, QueueTypes, RemoteTypes
<1>2. ASSUME NEW c \in Callers, CallStep(c)
      PROVE  TypeInv'
  <2>1. CallTypes' /\ LocalTypes' /\ CallKeeps /\ Tells
    BY <1>2, CallStepTypes
  <2>2. RemoteTypes'
    BY <2>1 DEF CallKeeps, TypeInv, RemoteTypes
  <2>3. QueueTypes'
    <3>1. \A m \in Notifications : m \in DownMessages
      BY DEF DownMessages
    <3> QED
      BY <2>1, <3>1, QueueKept DEF CallKeeps, Tells, TypeInv
  <2> QED
    BY <2>1, <2>2, <2>3 DEF TypeInv
<1>3. CASE ReaderStep
  <2>1. LocalTypes' /\ QueueTypes' /\ RemoteTypes'
    BY <1>3, ReaderStepTypes
  <2>2. CallTypes'
    BY <1>3, ReaderKeeps DEF CallTypes, TypeInv
  <2> QED
    BY <2>1, <2>2 DEF TypeInv
<1> QED
  BY <1>1, <1>2, <1>3 DEF Next, ReaderStep

(* One read at most, whatever happens to the queues.                       *)
LEMMA OneReader ==
    ASSUME NEW u, NEW r, NEW d, NEW read, NEW reply, NEW w,
           One(u, r, d, read, reply, w), NEW q, q.kind # reply, r.kind # reply
    PROVE  One(u, q, d, read, reply, w)
BY DEF One

LEMMA OneTail ==
    ASSUME NEW M, NEW u \in Seq(M), NEW r, NEW d, NEW read, NEW reply, NEW w,
           One(u, r, d, read, reply, w), NEW v,
           u # <<>>, v = Tail(u), Head(u).kind # read
    PROVE  One(v, r, d, read, reply, w)
<1>1. /\ DOMAIN u = 1..Len(u) /\ DOMAIN v = 1..Len(u) - 1 /\ Head(u) = u[1]
      /\ Len(u) \in Nat \ {0} /\ \A i \in 1..Len(u) - 1 : v[i] = u[i + 1]
  BY TailFacts
<1>2. \A i \in DOMAIN v : i + 1 \in DOMAIN u /\ v[i] = u[i + 1]
  BY <1>1
<1>3. \A i, j \in DOMAIN v : i + 1 = j + 1 => i = j
  BY <1>1
<1>4. \A i \in DOMAIN u : u[i].kind = read => i - 1 \in DOMAIN v /\ v[i - 1] = u[i]
  BY <1>1
<1> QED
  BY <1>2, <1>3, <1>4 DEF One

LEMMA OneAppend ==
    ASSUME NEW M, NEW u \in Seq(M), NEW m \in M, NEW r, NEW d, NEW read, NEW reply,
           NEW w, One(u, r, d, read, reply, w), NEW v, v = Append(u, m),
           m.kind # read
    PROVE  One(v, r, d, read, reply, w)
<1>1. /\ DOMAIN u = 1..Len(u) /\ DOMAIN v = 1..Len(u) + 1 /\ v[Len(u) + 1] = m
      /\ Len(u) \in Nat /\ \A i \in 1..Len(u) : v[i] = u[i]
  BY AppendFacts
<1>2. \A i \in DOMAIN v : v[i].kind = read => i \in DOMAIN u /\ v[i] = u[i]
  BY <1>1
<1>3. \A i \in DOMAIN u : i \in DOMAIN v /\ v[i] = u[i]
  BY <1>1
<1> QED
  BY <1>2, <1>3 DEF One

LEMMA OneAsked ==
    ASSUME NEW M, NEW u \in Seq(M), NEW m \in M, NEW r, NEW d, NEW read, NEW reply,
           One(u, r, d, read, reply, FALSE), NEW v, v = Append(u, m),
           m.kind = read
    PROVE  One(v, r, d, read, reply, TRUE)
<1>1. /\ DOMAIN u = 1..Len(u) /\ DOMAIN v = 1..Len(u) + 1 /\ v[Len(u) + 1] = m
      /\ Len(u) \in Nat /\ \A i \in 1..Len(u) : v[i] = u[i]
  BY AppendFacts
<1>2. /\ \A i \in DOMAIN u : u[i].kind # read
      /\ \A i \in DOMAIN d : d[i].kind # reply
      /\ r.kind # reply
  BY DEF One
<1>3. \A i \in DOMAIN v : v[i].kind = read <=> i = Len(u) + 1
  BY <1>1, <1>2
<1>4. Len(u) + 1 \in DOMAIN v
  BY <1>1
<1> QED
  BY <1>2, <1>3, <1>4 DEF One

(* The same of the messages that come back.                                *)
LEMMA OneDownTail ==
    ASSUME NEW M, NEW d \in Seq(M), NEW r, NEW u, NEW read, NEW reply, NEW w,
           One(u, r, d, read, reply, w), NEW v,
           d # <<>>, v = Tail(d), Head(d).kind # reply
    PROVE  One(u, r, v, read, reply, w)
<1>1. /\ DOMAIN d = 1..Len(d) /\ DOMAIN v = 1..Len(d) - 1 /\ Head(d) = d[1]
      /\ Len(d) \in Nat \ {0} /\ \A i \in 1..Len(d) - 1 : v[i] = d[i + 1]
  BY TailFacts
<1>2. \A i \in DOMAIN v : i + 1 \in DOMAIN d /\ v[i] = d[i + 1]
  BY <1>1
<1>3. \A i, j \in DOMAIN v : i + 1 = j + 1 => i = j
  BY <1>1
<1>4. \A i \in DOMAIN d : d[i].kind = reply => i - 1 \in DOMAIN v /\ v[i - 1] = d[i]
  BY <1>1
<1> QED
  BY <1>2, <1>3, <1>4 DEF One

LEMMA OneDownAppend ==
    ASSUME NEW M, NEW d \in Seq(M), NEW m \in M, NEW r, NEW u, NEW read, NEW reply,
           NEW w, One(u, r, d, read, reply, w), NEW v, v = Append(d, m),
           m.kind # reply
    PROVE  One(u, r, v, read, reply, w)
<1>1. /\ DOMAIN d = 1..Len(d) /\ DOMAIN v = 1..Len(d) + 1 /\ v[Len(d) + 1] = m
      /\ Len(d) \in Nat /\ \A i \in 1..Len(d) : v[i] = d[i]
  BY AppendFacts
<1>2. \A i \in DOMAIN v : v[i].kind = reply => i \in DOMAIN d /\ v[i] = d[i]
  BY <1>1
<1>3. \A i \in DOMAIN d : i \in DOMAIN v /\ v[i] = d[i]
  BY <1>1
<1> QED
  BY <1>2, <1>3 DEF One

(* The read is taken, the reply is sent, and the answer is there.          *)
LEMMA OneTaken ==
    ASSUME NEW M, NEW u \in Seq(M), NEW r, NEW d, NEW read, NEW reply, NEW w,
           One(u, r, d, read, reply, w), NEW v, NEW q, q.kind = reply,
           u # <<>>, v = Tail(u), Head(u).kind = read
    PROVE  One(v, q, d, read, reply, w)
<1>1. /\ DOMAIN u = 1..Len(u) /\ DOMAIN v = 1..Len(u) - 1 /\ Head(u) = u[1]
      /\ Len(u) \in Nat \ {0} /\ \A i \in 1..Len(u) - 1 : v[i] = u[i + 1]
  BY TailFacts
<1>2. 1 \in DOMAIN u /\ u[1].kind = read
  BY <1>1
<1>3. \A i \in DOMAIN v : i + 1 \in DOMAIN u /\ v[i] = u[i + 1] /\ i + 1 # 1
  BY <1>1
<1>4. \A i \in DOMAIN v : v[i].kind # read
  BY <1>2, <1>3 DEF One
<1>5. \A i \in DOMAIN d : d[i].kind # reply
  BY <1>2 DEF One
<1>6. w
  BY <1>2 DEF One
<1> QED
  BY <1>4, <1>5, <1>6 DEF One

LEMMA OneSent ==
    ASSUME NEW M, NEW d \in Seq(M), NEW r \in M, NEW u, NEW read, NEW reply, NEW w,
           One(u, r, d, read, reply, w), NEW v, NEW q, q.kind # reply,
           r.kind = reply, v = Append(d, r)
    PROVE  One(u, q, v, read, reply, w)
<1>1. /\ DOMAIN d = 1..Len(d) /\ DOMAIN v = 1..Len(d) + 1 /\ v[Len(d) + 1] = r
      /\ Len(d) \in Nat /\ \A i \in 1..Len(d) : v[i] = d[i]
  BY AppendFacts
<1>2. /\ \A i \in DOMAIN d : d[i].kind # reply
      /\ \A i \in DOMAIN u : u[i].kind # read /\ w
  BY DEF One
<1>3. \A i \in DOMAIN v : v[i].kind = reply <=> i = Len(d) + 1
  BY <1>1, <1>2
<1>4. Len(d) + 1 \in DOMAIN v /\ w
  BY <1>1 DEF One
<1> QED
  BY <1>2, <1>3, <1>4 DEF One

LEMMA OneAnswered ==
    ASSUME NEW M, NEW d \in Seq(M), NEW r, NEW u, NEW read, NEW reply, NEW w,
           One(u, r, d, read, reply, w), NEW v,
           d # <<>>, v = Tail(d), Head(d).kind = reply
    PROVE  One(u, r, v, read, reply, FALSE)
<1>1. /\ DOMAIN d = 1..Len(d) /\ DOMAIN v = 1..Len(d) - 1 /\ Head(d) = d[1]
      /\ Len(d) \in Nat \ {0} /\ \A i \in 1..Len(d) - 1 : v[i] = d[i + 1]
  BY TailFacts
<1>2. 1 \in DOMAIN d /\ d[1].kind = reply
  BY <1>1
<1>3. \A i \in DOMAIN v : i + 1 \in DOMAIN d /\ v[i] = d[i + 1] /\ i + 1 # 1
  BY <1>1
<1>4. \A i \in DOMAIN v : v[i].kind # reply
  BY <1>2, <1>3 DEF One
<1>5. r.kind # reply /\ \A i \in DOMAIN u : u[i].kind # read
  BY <1>2 DEF One
<1> QED
  BY <1>4, <1>5 DEF One

(* Whether the read waits is all that counts.                              *)
LEMMA OneWaits ==
    ASSUME NEW u, NEW r, NEW d, NEW read, NEW reply, NEW w, NEW x, w <=> x
    PROVE  One(u, r, d, read, reply, w) <=> One(u, r, d, read, reply, x)
BY DEF One

(* ReadInv and StartInv, step by step.                                     *)
LEMMA CallReads ==
    ASSUME TypeInv, ReadInv, CallKeeps, Tells
    PROVE  ReadInv'
<1>1. down \in Seq(DownMessages) /\ UNCHANGED <<up, reader, asked>>
  BY DEF TypeInv, QueueTypes, CallKeeps
<1>2. CASE UNCHANGED down
  BY <1>1, <1>2 DEF ReadInv
<1>3. ASSUME NEW m \in Notifications, down' = Append(down, m)
      PROVE  ReadInv'
  <2>1. m \in DownMessages /\ m.kind # "discoveryReply" /\ m.kind # "useCasesReply"
    BY ReplyFields DEF DownMessages
  <2>2. One(up, reader, down', "readDiscovery", "discoveryReply", "discovery" \in asked)
    BY <1>1, <1>3, <2>1, OneDownAppend DEF ReadInv
  <2>3. One(up, reader, down', "readUseCases", "useCasesReply", "useCases" \in asked)
    BY <1>1, <1>3, <2>1, OneDownAppend DEF ReadInv
  <2> QED
    BY <1>1, <2>2, <2>3 DEF ReadInv
<1> QED
  BY <1>2, <1>3 DEF Tells

LEMMA ReaderReads ==
    ASSUME TypeInv, ReadInv, ReadDiscovery \/ ReadUseCases \/ SendReply \/ AddSubscription
    PROVE  ReadInv'
<1>0. /\ up \in Seq(UpMessages) /\ down \in Seq(DownMessages)
      /\ reader = NoReply \/ reader \in Replies
  BY DEF TypeInv, QueueTypes
<1>1. /\ One(up, reader, down, "readDiscovery", "discoveryReply", "discovery" \in asked)
      /\ One(up, reader, down, "readUseCases", "useCasesReply", "useCases" \in asked)
  BY DEF ReadInv
<1>2. CASE ReadDiscovery
  <2>1. /\ up # <<>> /\ Head(up).kind = "readDiscovery" /\ up' = Tail(up)
        /\ reader = NoReply /\ UNCHANGED <<down, asked>>
        /\ reader' = [kind |-> "discoveryReply", entities |-> entities]
    BY <1>2 DEF ReadDiscovery, Received
  <2>2. /\ reader'.kind = "discoveryReply" /\ reader.kind = "none"
        /\ Head(up).kind # "readUseCases"
    BY <2>1, ReplyFields
  <2>3. One(up', reader', down, "readDiscovery", "discoveryReply", "discovery" \in asked)
    BY <1>0, <1>1, <2>1, <2>2, OneTaken
  <2>4. One(up', reader, down, "readUseCases", "useCasesReply", "useCases" \in asked)
    BY <1>0, <1>1, <2>1, <2>2, OneTail
  <2>5. One(up', reader', down, "readUseCases", "useCasesReply", "useCases" \in asked)
    BY <2>2, <2>4, OneReader
  <2> QED
    BY <2>1, <2>3, <2>5 DEF ReadInv
<1>3. CASE ReadUseCases
  <2>1. /\ up # <<>> /\ Head(up).kind = "readUseCases" /\ up' = Tail(up)
        /\ reader = NoReply /\ UNCHANGED <<down, asked>>
        /\ reader' = [kind |-> "useCasesReply", list |-> useCases]
    BY <1>3 DEF ReadUseCases, Received
  <2>2. /\ reader'.kind = "useCasesReply" /\ reader.kind = "none"
        /\ Head(up).kind # "readDiscovery"
    BY <2>1, ReplyFields
  <2>3. One(up', reader', down, "readUseCases", "useCasesReply", "useCases" \in asked)
    BY <1>0, <1>1, <2>1, <2>2, OneTaken
  <2>4. One(up', reader, down, "readDiscovery", "discoveryReply", "discovery" \in asked)
    BY <1>0, <1>1, <2>1, <2>2, OneTail
  <2>5. One(up', reader', down, "readDiscovery", "discoveryReply", "discovery" \in asked)
    BY <2>2, <2>4, OneReader
  <2> QED
    BY <2>1, <2>3, <2>5 DEF ReadInv
<1>4. CASE SendReply
  <2>1. /\ reader \in Replies /\ down' = Append(down, reader) /\ reader' = NoReply
        /\ UNCHANGED <<up, asked>>
    BY <1>0, <1>4 DEF SendReply
  <2>2. reader'.kind = "none" /\ reader \in DownMessages
    BY <2>1, ReplyFields
  <2>3. CASE reader.kind = "discoveryReply"
    <3>1. One(up, reader', down', "readDiscovery", "discoveryReply", "discovery" \in asked)
      BY <1>0, <1>1, <2>1, <2>2, <2>3, OneSent
    <3>2. One(up, reader, down', "readUseCases", "useCasesReply", "useCases" \in asked)
      BY <1>0, <1>1, <2>1, <2>2, <2>3, OneDownAppend
    <3>3. One(up, reader', down', "readUseCases", "useCasesReply", "useCases" \in asked)
      BY <2>2, <2>3, <3>2, OneReader
    <3> QED
      BY <2>1, <3>1, <3>3 DEF ReadInv
  <2>4. CASE reader.kind = "useCasesReply"
    <3>1. One(up, reader', down', "readUseCases", "useCasesReply", "useCases" \in asked)
      BY <1>0, <1>1, <2>1, <2>2, <2>4, OneSent
    <3>2. One(up, reader, down', "readDiscovery", "discoveryReply", "discovery" \in asked)
      BY <1>0, <1>1, <2>1, <2>2, <2>4, OneDownAppend
    <3>3. One(up, reader', down', "readDiscovery", "discoveryReply", "discovery" \in asked)
      BY <2>2, <2>4, <3>2, OneReader
    <3> QED
      BY <2>1, <3>1, <3>3 DEF ReadInv
  <2> QED
    BY <2>1, <2>3, <2>4, ReplyFields
<1>5. CASE AddSubscription
  <2>1. /\ up # <<>> /\ Head(up).kind = "subscribe" /\ up' = Tail(up)
        /\ UNCHANGED <<down, asked, reader>>
        /\ Head(up).kind # "readDiscovery" /\ Head(up).kind # "readUseCases"
    BY <1>5 DEF AddSubscription, Received
  <2>2. One(up', reader, down, "readDiscovery", "discoveryReply", "discovery" \in asked)
    BY <1>0, <1>1, <2>1, OneTail
  <2>3. One(up', reader, down, "readUseCases", "useCasesReply", "useCases" \in asked)
    BY <1>0, <1>1, <2>1, OneTail
  <2> QED
    BY <2>1, <2>2, <2>3 DEF ReadInv
<1> QED
  BY <1>2, <1>3, <1>4, <1>5

(* A discovery read that is sent if none waits.                            *)
LEMMA DiscoveryAsked ==
    ASSUME TypeInv, NEW u \in Seq(UpMessages), NEW r, NEW d, "discovery" \notin asked,
           One(u, r, d, "readDiscovery", "discoveryReply", "discovery" \in asked),
           One(u, r, d, "readUseCases", "useCasesReply", "useCases" \in asked),
           up' = Append(u, Ask("readDiscovery")), asked' = asked \cup {"discovery"}
    PROVE  /\ One(up', r, d, "readDiscovery", "discoveryReply", "discovery" \in asked')
           /\ One(up', r, d, "readUseCases", "useCasesReply", "useCases" \in asked')
<1>1. /\ Ask("readDiscovery") \in UpMessages
      /\ Ask("readDiscovery").kind = "readDiscovery"
  BY AskMessages
<1>2. One(u, r, d, "readDiscovery", "discoveryReply", FALSE)
  BY OneWaits
<1>3. One(up', r, d, "readDiscovery", "discoveryReply", TRUE)
  BY <1>1, <1>2, OneAsked
<1>4. One(up', r, d, "readUseCases", "useCasesReply", "useCases" \in asked)
  BY <1>1, OneAppend
<1>5. "discovery" \in asked' /\ ("useCases" \in asked' <=> "useCases" \in asked)
  OBVIOUS
<1> QED
  BY <1>3, <1>4, <1>5, OneWaits

LEMMA RequestReads ==
    ASSUME TypeInv, ReadInv, RequestDiscovery
    PROVE  ReadInv'
<1>1. /\ asked' = asked \cup {"discovery"} /\ UNCHANGED <<reader, down>>
      /\ up' = IF "discovery" \in asked THEN up ELSE Append(up, Ask("readDiscovery"))
  BY RequestSent DEF RequestDiscovery
<1>2. CASE "discovery" \in asked
  <2>1. asked' = asked /\ up' = up
    BY <1>1, <1>2
  <2> QED
    BY <1>1, <2>1 DEF ReadInv
<1>3. CASE "discovery" \notin asked
  <2>1. up \in Seq(UpMessages)
    BY DEF TypeInv, QueueTypes
  <2> QED
    BY <1>1, <1>3, <2>1, DiscoveryAsked DEF ReadInv
<1> QED
  BY <1>2, <1>3

LEMMA HandleReads ==
    ASSUME TypeInv, ReadInv, HandleMessage
    PROVE  ReadInv'
<1>0. PICK m : m = Head(down)
  OBVIOUS
<1>1. /\ up \in Seq(UpMessages) /\ down \in Seq(DownMessages)
      /\ down # <<>> /\ down' = Tail(down) /\ reader' = reader
  BY DEF TypeInv, QueueTypes, HandleMessage
<1>2. /\ One(up, reader, down, "readDiscovery", "discoveryReply", "discovery" \in asked)
      /\ One(up, reader, down, "readUseCases", "useCasesReply", "useCases" \in asked)
  BY DEF ReadInv
<1>3. CASE m.kind = "discoveryReply"
  <2>1. One(up, reader, down', "readDiscovery", "discoveryReply", FALSE)
    BY <1>0, <1>1, <1>2, <1>3, OneAnswered
  <2>2. One(up, reader, down', "readUseCases", "useCasesReply", "useCases" \in asked)
    <3>1. Head(down).kind # "useCasesReply"
      BY <1>0, <1>3
    <3> QED
      BY <1>1, <1>2, <3>1, OneDownTail
  <2>3. PICK v : v = Append(up, Ask("subscribe"))
    OBVIOUS
  <2>4. /\ Ask("subscribe") \in UpMessages /\ Ask("subscribe").kind = "subscribe"
        /\ Ask("readUseCases") \in UpMessages
        /\ Ask("readUseCases").kind = "readUseCases"
    BY AskMessages
  <2>5. /\ One(v, reader, down', "readDiscovery", "discoveryReply", FALSE)
        /\ One(v, reader, down', "readUseCases", "useCasesReply", "useCases" \in asked)
        /\ v \in Seq(UpMessages)
    BY <1>1, <2>1, <2>2, <2>3, <2>4, OneAppend, AppendFacts
  <2>6. /\ asked' = (asked \ {"discovery"}) \cup {"useCases"}
        /\ up' = IF "useCases" \in asked THEN v ELSE Append(v, Ask("readUseCases"))
    BY <1>0, <1>3, <2>3, HandleSent
  <2>7. /\ "discovery" \in asked' <=> FALSE
        /\ "useCases" \in asked' <=> TRUE
    BY <2>6
  <2>8. CASE "useCases" \in asked
    <3>1. One(v, reader, down', "readUseCases", "useCasesReply", TRUE)
      BY <2>5, <2>8, OneWaits
    <3> QED
      BY <1>1, <2>5, <2>6, <2>7, <2>8, <3>1, OneWaits DEF ReadInv
  <2>9. CASE "useCases" \notin asked
    <3>1. One(v, reader, down', "readUseCases", "useCasesReply", FALSE)
      BY <2>5, <2>9, OneWaits
    <3>2. up' = Append(v, Ask("readUseCases"))
      BY <2>6, <2>9
    <3>3. One(up', reader, down', "readUseCases", "useCasesReply", TRUE)
      BY <2>4, <2>5, <3>1, <3>2, OneAsked
    <3>4. One(up', reader, down', "readDiscovery", "discoveryReply", FALSE)
      BY <2>4, <2>5, <3>2, OneAppend
    <3> QED
      BY <1>1, <2>7, <3>3, <3>4, OneWaits DEF ReadInv
  <2> QED
    BY <2>8, <2>9
<1>4. CASE m.kind = "useCasesReply"
  <2>1. One(up, reader, down', "readUseCases", "useCasesReply", FALSE)
    BY <1>0, <1>1, <1>2, <1>4, OneAnswered
  <2>2. One(up, reader, down', "readDiscovery", "discoveryReply", "discovery" \in asked)
    <3>1. Head(down).kind # "discoveryReply"
      BY <1>0, <1>4
    <3> QED
      BY <1>1, <1>2, <3>1, OneDownTail
  <2>3. up' = up /\ asked' = asked \ {"useCases"}
    BY <1>0, <1>4, HandleSent
  <2>4. /\ "discovery" \in asked' <=> "discovery" \in asked
        /\ "useCases" \in asked' <=> FALSE
    BY <2>3
  <2> QED
    BY <1>1, <2>1, <2>2, <2>3, <2>4, OneWaits DEF ReadInv
<1>5. CASE m.kind # "discoveryReply" /\ m.kind # "useCasesReply"
  <2>1. One(up, reader, down', "readUseCases", "useCasesReply", "useCases" \in asked)
    BY <1>0, <1>1, <1>2, <1>5, OneDownTail
  <2>2. One(up, reader, down', "readDiscovery", "discoveryReply", "discovery" \in asked)
    BY <1>0, <1>1, <1>2, <1>5, OneDownTail
  <2>3. \/ up' = up /\ asked' = asked
        \/ /\ "discovery" \notin asked /\ up' = Append(up, Ask("readDiscovery"))
           /\ asked' = asked \cup {"discovery"}
    BY <1>0, <1>5, HandleSent
  <2>4. CASE up' = up /\ asked' = asked
    BY <1>1, <2>1, <2>2, <2>4 DEF ReadInv
  <2>5. CASE /\ "discovery" \notin asked /\ up' = Append(up, Ask("readDiscovery"))
             /\ asked' = asked \cup {"discovery"}
    BY <1>1, <2>1, <2>2, <2>5, DiscoveryAsked DEF ReadInv
  <2> QED
    BY <2>3, <2>4, <2>5
<1> QED
  BY <1>3, <1>4, <1>5

LEMMA StepReads == TypeInv /\ ReadInv /\ [Next]_vars => ReadInv'
<1> SUFFICES ASSUME TypeInv, ReadInv, [Next]_vars PROVE ReadInv'
  OBVIOUS
<1>1. CASE UNCHANGED vars
  BY <1>1 DEF vars, ReadInv
<1>2. ASSUME NEW c \in Callers, CallStep(c)
      PROVE  ReadInv'
  BY <1>2, CallStepTypes, CallReads
<1> QED
  BY <1>1, <1>2, ReaderReads, RequestReads, HandleReads DEF Next

-----------------------------------------------------------------------------
LEMMA StepStarts == TypeInv /\ ReadInv /\ StartInv /\ [Next]_vars => StartInv'
<1> SUFFICES ASSUME TypeInv, ReadInv, StartInv, [Next]_vars PROVE StartInv'
  OBVIOUS
<1>0. /\ up \in Seq(UpMessages) /\ down \in Seq(DownMessages)
      /\ reader = NoReply \/ reader \in Replies
  BY DEF TypeInv, QueueTypes
<1>1. CASE UNCHANGED vars
  BY <1>1 DEF vars, StartInv
<1>2. ASSUME NEW c \in Callers, CallStep(c)
      PROVE  StartInv'
  <2>1. CallKeeps /\ Tells
    BY <1>2, CallStepTypes
  <2>2. ~subscribed => UNCHANGED down
    BY <2>1 DEF Tells
  <2>3. subscribed => answered
    BY DEF StartInv
  <2> QED
    BY <2>1, <2>2, <2>3 DEF CallKeeps, StartInv
<1>3. CASE ReadDiscovery
  <2>1. /\ up # <<>> /\ up' = Tail(up) /\ answered'
        /\ Head(up).kind = "readDiscovery"
        /\ reader'.kind = "discoveryReply" /\ UNCHANGED <<down, subscribed, knownUseCases>>
    BY <1>3 DEF ReadDiscovery, Received
  <2>2. ASSUME ~subscribed, NEW i \in DOMAIN up', up'[i].kind = "readUseCases"
        PROVE  \E j \in DOMAIN up' : j < i /\ up'[j].kind = "subscribe"
    <3>1. /\ DOMAIN up = 1..Len(up) /\ DOMAIN up' = 1..Len(up) - 1 /\ Head(up) = up[1]
          /\ Len(up) \in Nat \ {0} /\ \A k \in 1..Len(up) - 1 : up'[k] = up[k + 1]
      BY <1>0, <2>1, TailFacts
    <3>2. i + 1 \in DOMAIN up /\ up[i + 1].kind = "readUseCases"
      BY <2>2, <3>1
    <3>3. PICK j \in DOMAIN up : j < i + 1 /\ up[j].kind = "subscribe"
      BY <2>2, <3>2 DEF StartInv
    <3>4. j # 1
      BY <2>1, <3>1, <3>3
    <3>5. j - 1 \in DOMAIN up' /\ j - 1 < i /\ (j - 1) + 1 = j
      BY <2>2, <3>1, <3>3, <3>4
    <3> QED
      BY <3>1, <3>3, <3>5
  <2> QED
    BY <2>1, <2>2 DEF StartInv
<1>4. CASE ReadUseCases
  <2>1. /\ up # <<>> /\ Head(up).kind = "readUseCases" /\ UNCHANGED <<answered, subscribed>>
    BY <1>4 DEF ReadUseCases, Received
  <2>2. 1 \in DOMAIN up /\ up[1].kind = "readUseCases" /\ DOMAIN up = 1..Len(up)
    BY <1>0, <2>1, TailFacts
  <2>3. subscribed
    <3>1. ~\E j \in DOMAIN up : j < 1
      BY <2>2
    <3> QED
      BY <2>2, <3>1 DEF StartInv
  <2> QED
    BY <2>1, <2>3 DEF StartInv
<1>5. CASE SendReply
  <2>1. /\ reader \in Replies /\ down' = Append(down, reader) /\ reader' = NoReply
        /\ UNCHANGED <<up, subscribed, answered, knownUseCases>>
    BY <1>0, <1>5 DEF SendReply
  <2>2. reader'.kind = "none" /\ reader \in DownMessages
        /\ reader.kind \in {"discoveryReply", "useCasesReply"} /\ NoReply.kind = "none"
    BY <2>1, ReplyFields
  <2>3. answered
    BY <2>2 DEF StartInv
  <2>4. ASSUME ~subscribed
        PROVE  \A i \in DOMAIN down' : down'[i].kind = "discoveryReply"
    <3>1. reader.kind = "discoveryReply"
      BY <2>2, <2>4 DEF StartInv
    <3>2. /\ DOMAIN down = 1..Len(down) /\ DOMAIN down' = 1..Len(down) + 1
          /\ Len(down) \in Nat /\ down'[Len(down) + 1] = reader
          /\ \A i \in 1..Len(down) : down'[i] = down[i]
      BY <1>0, <2>1, <2>2, AppendFacts
    <3>3. \A i \in DOMAIN down' : i \in DOMAIN down \/ i = Len(down) + 1
      BY <3>2
    <3> QED
      BY <2>4, <3>1, <3>2, <3>3 DEF StartInv
  <2> QED
    BY <2>1, <2>2, <2>3, <2>4 DEF StartInv
<1>6. CASE AddSubscription
  <2>1. subscribed' /\ up # <<>> /\ Head(up).kind = "subscribe" /\ answered' = answered
    BY <1>6 DEF AddSubscription, Received
  <2>2. answered
    <3>1. Head(<<[kind |-> "readDiscovery"]>>).kind = "readDiscovery"
      OBVIOUS
    <3> QED
      BY <2>1, <3>1 DEF StartInv
  <2> QED
    BY <2>1, <2>2 DEF StartInv
<1>7. ASSUME NEW m \in UpMessages, m.kind # "readUseCases",
             up' = Append(up, m), ~subscribed
      PROVE  \A i \in DOMAIN up' : up'[i].kind = "readUseCases" =>
                \E j \in DOMAIN up' : j < i /\ up'[j].kind = "subscribe"
  <2>1. /\ DOMAIN up = 1..Len(up) /\ DOMAIN up' = 1..Len(up) + 1
        /\ Len(up) \in Nat /\ up'[Len(up) + 1] = m
        /\ \A i \in 1..Len(up) : up'[i] = up[i]
    BY <1>0, <1>7, AppendFacts
  <2>2. \A i \in DOMAIN up' : i \in DOMAIN up \/ i = Len(up) + 1
    BY <2>1
  <2>3. \A i \in DOMAIN up : i \in DOMAIN up' /\ up'[i] = up[i]
    BY <2>1
  <2> QED
    BY <1>7, <2>1, <2>2, <2>3 DEF StartInv
<1>8. CASE RequestDiscovery
  <2>1. /\ UNCHANGED <<down, reader, subscribed, answered, known, knownUseCases>>
        /\ up' = IF "discovery" \in asked THEN up ELSE Append(up, Ask("readDiscovery"))
    BY <1>8, RequestSent DEF RequestDiscovery
  <2>2. CASE up' = up
    BY <2>1, <2>2 DEF StartInv
  <2>3. CASE "discovery" \notin asked
    <3>1. answered
      <4>1. ASSUME ~answered PROVE FALSE
        <5>1. up = <<[kind |-> "readDiscovery"]>>
          BY <4>1 DEF StartInv
        <5>2. 1 \in DOMAIN up /\ up[1].kind = "readDiscovery"
          BY <5>1
        <5> QED
          BY <2>3, <5>2 DEF ReadInv, One
      <4> QED
        BY <4>1
    <3>2. Ask("readDiscovery") \in UpMessages /\ Ask("readDiscovery").kind = "readDiscovery"
      BY AskMessages
    <3> QED
      BY <1>7, <2>1, <2>3, <3>1, <3>2 DEF StartInv
  <2> QED
    BY <2>1, <2>2, <2>3
<1>9. CASE HandleMessage
  <2>0. PICK m : m = Head(down)
    OBVIOUS
  <2>1. /\ down # <<>> /\ down' = Tail(down) /\ UNCHANGED <<reader, subscribed, answered>>
    BY <1>9 DEF HandleMessage
  <2>2. answered
    BY <2>1 DEF StartInv
  <2>3. CASE subscribed
    BY <2>1, <2>2, <2>3 DEF StartInv
  <2>4. CASE ~subscribed
    <3>1. /\ DOMAIN down = 1..Len(down) /\ DOMAIN down' = 1..Len(down) - 1
          /\ Head(down) = down[1] /\ Len(down) \in Nat \ {0}
          /\ \A k \in 1..Len(down) - 1 : down'[k] = down[k + 1]
      BY <1>0, <2>1, TailFacts
    <3>2. m.kind = "discoveryReply"
      BY <2>0, <2>4, <3>1 DEF StartInv
    <3>3. \A i \in DOMAIN down' : i + 1 \in DOMAIN down /\ down'[i] = down[i + 1]
      BY <3>1
    <3>4. \A i \in DOMAIN down' : down'[i].kind = "discoveryReply"
      BY <2>4, <3>3 DEF StartInv
    <3>5. knownUseCases' = {}
      BY <1>9, <2>0, <3>2, HandleKnown DEF Says, ListOf
    <3>6. PICK v : v = Append(up, Ask("subscribe"))
      OBVIOUS
    <3>7. /\ Ask("subscribe") \in UpMessages /\ Ask("subscribe").kind = "subscribe"
          /\ Ask("readUseCases") \in UpMessages
          /\ Ask("readUseCases").kind = "readUseCases"
      BY AskMessages
    <3>8. up' = v \/ up' = Append(v, Ask("readUseCases"))
      BY <1>9, <2>0, <3>2, <3>6, HandleSent
    <3>9. \A i \in DOMAIN up' : up'[i].kind = "readUseCases" =>
                \E j \in DOMAIN up' : j < i /\ up'[j].kind = "subscribe"
      <4>1. CASE up' = v
        BY <1>7, <2>4, <3>6, <3>7, <4>1
      <4>2. CASE up' = Append(v, Ask("readUseCases"))
        <5>1. /\ v \in Seq(UpMessages) /\ DOMAIN up = 1..Len(up) /\ Len(v) = Len(up) + 1
              /\ DOMAIN v = 1..Len(up) + 1
              /\ Len(up) \in Nat /\ v[Len(up) + 1] = Ask("subscribe")
              /\ \A i \in 1..Len(up) : v[i] = up[i]
          BY <1>0, <3>6, <3>7, AppendFacts
        <5>2. /\ DOMAIN up' = 1..Len(v) + 1 /\ \A i \in 1..Len(v) : up'[i] = v[i]
          BY <3>7, <4>2, <5>1, AppendFacts
        <5>3. /\ Len(up) + 1 \in DOMAIN up' /\ up'[Len(up) + 1].kind = "subscribe"
              /\ \A i \in DOMAIN up : i \in DOMAIN up' /\ up'[i] = up[i]
              /\ \A i \in DOMAIN up' : i \in DOMAIN up \/ i = Len(up) + 1 \/ Len(up) + 1 < i
          BY <3>7, <5>1, <5>2
        <5> QED
          BY <2>4, <5>3 DEF StartInv
      <4> QED
        BY <3>8, <4>1, <4>2
    <3> QED
      BY <2>1, <2>2, <2>4, <3>4, <3>5, <3>9 DEF StartInv
  <2> QED
    BY <2>3, <2>4
<1> QED
  BY <1>1, <1>2, <1>3, <1>4, <1>5, <1>6, <1>8, <1>9 DEF Next

(* A call that is yet to announce what happened to an entity after the     *)
(* first reply was read.                                                   *)
IsLate(r, e) == r.step = "announce" /\ r.entity = e /\ ~r.early
Late(e) == \E c \in Callers : IsLate(call[c], e)
InReply(r, e) == r.kind = "discoveryReply" /\ e \in r.entities

Apart == \A c, d \in Callers :
    call[c] # NoCall /\ call[d] # NoCall /\ call[c].entity = call[d].entity => c = d
Held(r, E) ==
    /\ r.op = "AddEntity" => r.entity \in E
    /\ r.op = "RemoveEntity" => (r.step = "announce" <=> r.entity \notin E)
(* While the entities are not lossy: calls for one entity do not overlap;  *)
(* a call has changed the list or not according to its step; an entity is  *)
(* there exactly if it will be known, by the messages and the reply, or if *)
(* someone is to announce it late; and no addition is missed by one who    *)
(* subscribed.                                                             *)
EntInv ==
    "entities" \notin lossy =>
       /\ Apart
       /\ \A c \in Callers : Held(call[c], entities)
       /\ answered => \A e \in Entities :
             Late(e) \/ (e \in entities <=> \/ Will(down, DOMAIN known, e)
                                            \/ InReply(reader, e))
       /\ subscribed => \A e \in entities : Late(e) \/ Will(down, DOMAIN known, e)

LEMMA LateMoves ==
    ASSUME NEW c \in Callers, Moves(c), NEW e
    PROVE  Late(e)' <=> \/ IsLate(call'[c], e)
                        \/ \E d \in Callers \ {c} : IsLate(call[d], e)
BY DEF Moves, Late

LEMMA LateKept ==
    ASSUME NEW c \in Callers, Moves(c),
           call[c].step # "announce", call'[c].step # "announce"
    PROVE  \A e : Late(e)' <=> Late(e)
<1> SUFFICES ASSUME NEW e PROVE Late(e)' <=> Late(e)
  OBVIOUS
<1>1. ~IsLate(call'[c], e) /\ ~IsLate(call[c], e)
  BY DEF IsLate
<1>2. Late(e) <=> \E d \in Callers \ {c} : IsLate(call[d], e)
  BY <1>1 DEF Late
<1> QED
  BY <1>1, <1>2, LateMoves

LEMMA LateOther ==
    ASSUME NEW c \in Callers, Moves(c), NEW e,
           call[c].step = "announce" => call[c].entity # e,
           call'[c].step = "announce" => call'[c].entity # e
    PROVE  Late(e)' <=> Late(e)
<1>1. ~IsLate(call'[c], e) /\ ~IsLate(call[c], e)
  BY DEF IsLate
<1>2. Late(e) <=> \E d \in Callers \ {c} : IsLate(call[d], e)
  BY <1>1 DEF Late
<1> QED
  BY <1>1, <1>2, LateMoves

LEMMA ApartBegins ==
    ASSUME TypeInv, Apart, NEW c \in Callers, NEW op, NEW step, NEW e,
           NEW available, NEW copy, Begin(c, op, step, e, available, copy),
           Moves(c), call'[c].entity = e, "entities" \notin lossy'
    PROVE  /\ Apart'
           /\ \A d \in Callers \ {c} : call[d] # NoCall => call[d].entity # e
<1>1. lossy' = lossy \cup Meeting(c, op, e)
  BY DEF Begin
<1>2. "entities" \notin Meeting(c, op, e)
  BY <1>1
<1>3. ~\E d \in Others(c) : call[d].entity = e
  BY <1>2 DEF Meeting
<1>4. \A d \in Callers \ {c} : call[d] # NoCall => call[d].entity # e
  BY <1>3 DEF Others
<1> QED
  BY <1>4 DEF Apart, Moves

LEMMA ApartMoves ==
    ASSUME Apart, NEW c \in Callers, Moves(c), call[c] # NoCall,
           call'[c] = NoCall \/ call'[c].entity = call[c].entity
    PROVE  Apart'
<1> SUFFICES ASSUME NEW a \in Callers, NEW b \in Callers, call'[a] # NoCall,
                    call'[b] # NoCall, call'[a].entity = call'[b].entity
             PROVE  a = b
  BY DEF Apart
<1>1. \A d \in Callers \ {c} : call'[d] = call[d]
  BY DEF Moves
<1>2. call[a] # NoCall /\ call'[a].entity = call[a].entity
  BY <1>1
<1>3. call[b] # NoCall /\ call'[b].entity = call[b].entity
  BY <1>1
<1> QED
  BY <1>2, <1>3 DEF Apart

(* What a call does to the entities, with the rest of the messages.        *)
LEMMA WillKept ==
    ASSUME TypeInv, NEW m \in Notifications, down' = Append(down, m), NEW K, NEW e
    PROVE  Will(down', K, e) <=> Adds(m, e) \/ (Will(down, K, e) /\ ~Removes(m, e))
<1>1. down \in Seq(DownMessages) /\ m \in DownMessages
  BY DEF TypeInv, QueueTypes, DownMessages
<1> QED
  BY <1>1, WillAppend

LEMMA WillAppended ==
    ASSUME TypeInv, NEW m \in DownMessages, down' = Append(down, m)
    PROVE  \A e : Will(down', DOMAIN known, e)
                 <=> Adds(m, e) \/ (Will(down, DOMAIN known, e) /\ ~Removes(m, e))
<1>1. PICK K : K = DOMAIN known
  OBVIOUS
<1>2. down \in Seq(DownMessages)
  BY DEF TypeInv, QueueTypes
<1>3. ASSUME NEW e
      PROVE  Will(down', K, e) <=> Adds(m, e) \/ (Will(down, K, e) /\ ~Removes(m, e))
  BY <1>2, WillAppend
<1> QED
  BY <1>1, <1>3

LEMMA WillHandled ==
    ASSUME TypeInv, down # <<>>, down' = Tail(down),
           \A e : e \in DOMAIN known'
                 <=> Adds(Head(down), e)
                     \/ (e \in DOMAIN known /\ ~Removes(Head(down), e))
    PROVE  \A e : Will(down', DOMAIN known', e) <=> Will(down, DOMAIN known, e)
<1>1. PICK K, J : K = DOMAIN known /\ J = DOMAIN known'
  OBVIOUS
<1>2. down \in Seq(DownMessages)
  BY DEF TypeInv, QueueTypes
<1>3. Head(down) = down[1]
  BY <1>2, TailFacts
<1>4. ASSUME NEW e
      PROVE  Will(down', J, e) <=> Will(down, K, e)
  <2>1. e \in J <=> Adds(down[1], e) \/ (e \in K /\ ~Removes(down[1], e))
    BY <1>1, <1>3
  <2> QED
    BY <1>2, <2>1, WillTail
<1> QED
  BY <1>1, <1>4

-----------------------------------------------------------------------------
(* A call that neither changes the entities nor announces them.            *)
LEMMA PlainEntities ==
    ASSUME TypeInv, EntInv, NEW c \in Callers, Moves(c), CallKeeps,
           "entities" \notin lossy' => Apart',
           entities' = entities, Held(call'[c], entities) \/ "entities" \in lossy,
           call[c].step # "announce", call'[c].step # "announce",
           \/ down' = down
           \/ \E L \in Lists : down' = Append(down, [kind |-> "useCases", list |-> L])
    PROVE  EntInv'
<1> SUFFICES ASSUME "entities" \notin lossy' PROVE EntInv'
  BY DEF EntInv
<1>1. "entities" \notin lossy /\ UNCHANGED <<reader, known, answered, subscribed>>
  BY DEF CallKeeps
<1>2. \A e : Will(down', DOMAIN known, e) <=> Will(down, DOMAIN known, e)
  <2> SUFFICES ASSUME NEW e
               PROVE  Will(down', DOMAIN known, e) <=> Will(down, DOMAIN known, e)
    OBVIOUS
  <2>1. ASSUME NEW L \in Lists,
               down' = Append(down, [kind |-> "useCases", list |-> L])
        PROVE  Will(down', DOMAIN known, e) <=> Will(down, DOMAIN known, e)
    <3>1. PICK m \in Notifications : m = [kind |-> "useCases", list |-> L]
      BY DEF Notifications
    <3>2. ~Adds(m, e) /\ ~Removes(m, e)
      BY <3>1 DEF Adds, Removes
    <3> QED
      BY <2>1, <3>1, <3>2, WillKept
  <2> QED
    BY <2>1
<1>3. \A e : Late(e)' <=> Late(e)
  BY LateKept
<1>4. \A d \in Callers : Held(call'[d], entities)
  BY <1>1 DEF Moves, EntInv
<1> QED
  BY <1>1, <1>2, <1>3, <1>4 DEF EntInv

(* A call that changes the entity it is for, and will announce it.         *)
LEMMA ChangedEntities ==
    ASSUME TypeInv, EntInv, NEW c \in Callers, Moves(c), CallKeeps, NEW x,
           "entities" \notin lossy' => Apart',
           \A e : e # x => (e \in entities' <=> e \in entities),
           call'[c].step = "announce", call'[c].entity = x,
           call'[c].early = ~answered, Held(call'[c], entities'), call'[c] # NoCall,
           call[c].step # "announce", down' = down, subscribed => answered
    PROVE  EntInv'
<1> SUFFICES ASSUME "entities" \notin lossy' PROVE EntInv'
  BY DEF EntInv
<1>1. /\ "entities" \notin lossy /\ UNCHANGED <<reader, known, answered, subscribed>>
      /\ Apart'
  BY DEF CallKeeps
<1>2. \A e : e # x => (Late(e)' <=> Late(e))
  BY LateOther
<1>3. answered => Late(x)'
  <2>1. answered => IsLate(call'[c], x)
    BY DEF IsLate
  <2> QED
    BY <2>1, LateMoves
<1>4. \A d \in Callers : Held(call'[d], entities')
  <2> SUFFICES ASSUME NEW d \in Callers, d # c PROVE Held(call'[d], entities')
    OBVIOUS
  <2>1. call'[d] = call[d] /\ Held(call[d], entities)
    BY <1>1 DEF Moves, EntInv
  <2>2. CASE call[d] = NoCall
    BY <2>1, <2>2, NoCallFields DEF Held
  <2>3. CASE call[d] # NoCall
    <3>1. call'[d].entity # x
      BY <1>1, <2>1, <2>3 DEF Apart
    <3> QED
      BY <2>1, <3>1 DEF Held
  <2> QED
    BY <2>2, <2>3
<1>5. ASSUME answered, NEW e \in Entities
      PROVE  Late(e)' \/ (e \in entities' <=> \/ Will(down', DOMAIN known', e)
                                              \/ InReply(reader', e))
  BY <1>1, <1>2, <1>3, <1>5 DEF EntInv
<1>6. ASSUME subscribed, answered, NEW e \in entities'
      PROVE  Late(e)' \/ Will(down', DOMAIN known', e)
  BY <1>1, <1>2, <1>3, <1>6 DEF EntInv
<1> QED
  BY <1>1, <1>4, <1>5, <1>6 DEF EntInv

LEMMA AnnounceEntities ==
    ASSUME TypeInv, EntInv, NEW c \in Callers, Announce(c)
    PROVE  EntInv'
<1> SUFFICES ASSUME "entities" \notin lossy' PROVE EntInv'
  BY DEF EntInv
<1>x. PICK x : x = call[c].entity
  OBVIOUS
<1> DEFINE stale == reader.kind = "discoveryReply" /\ ~(reader.entities \subseteq entities)
<1>1. /\ UNCHANGED <<entities, reader, known, answered, subscribed>>
      /\ Moves(c) /\ call[c] \in CallStates /\ call[c].step = "announce"
      /\ call[c].op \in {"AddEntity", "RemoveEntity"} /\ call'[c] = NoCall
      /\ x \in Entities /\ call[c] # NoCall
  BY <1>x, AnnounceMoves, NoCallFields DEF Announce, TypeInv, CallStates
<1>2. /\ "entities" \notin lossy /\ (subscribed \/ call[c].early)
      /\ ~stale
  BY DEF Announce
<1>3. /\ Apart /\ \A d \in Callers : Held(call[d], entities)
      /\ answered => \A e \in Entities :
             Late(e) \/ (e \in entities <=> \/ Will(down, DOMAIN known, e)
                                            \/ InReply(reader, e))
      /\ subscribed => \A e \in entities : Late(e) \/ Will(down, DOMAIN known, e)
  BY <1>2 DEF EntInv
<1>4. Apart'
  BY <1>1, <1>3, ApartMoves
<1>5. \A d \in Callers : Held(call'[d], entities')
  BY <1>1, <1>3, NoCallFields DEF Moves, Held
<1>6. \A e : e # x => (Late(e)' <=> Late(e))
  BY <1>x, <1>1, LateOther, NoCallFields
<1>7. ~Late(x)'
  <2>1. ~IsLate(call'[c], x)
    BY <1>1, NoCallFields DEF IsLate
  <2>2. \A d \in Callers \ {c} : ~IsLate(call[d], x)
    <3> SUFFICES ASSUME NEW d \in Callers \ {c}, IsLate(call[d], x) PROVE FALSE
      OBVIOUS
    <3>1. call[d] # NoCall /\ call[d].entity = call[c].entity
      BY <1>x, NoCallFields DEF IsLate
    <3>2. c = d
      BY <1>1, <1>3, <3>1 DEF Apart
    <3> QED
      BY <3>2
  <2> QED
    BY <1>1, <2>1, <2>2, LateMoves
<1>8. \A e : InReply(reader, e) => e \in entities
  BY <1>2 DEF InReply
<1>9. x \in entities <=> call[c].op = "AddEntity"
  BY <1>x, <1>1, <1>3 DEF Held
<1>10. entities \subseteq Entities
  BY DEF TypeInv, LocalTypes
<1> HIDE DEF stale
<1>11. CASE ~subscribed
  <2>1. down' = down
    BY <1>11 DEF Announce, Notify
  <2>2. ~Late(x)
    <3>1. \A d \in Callers : ~IsLate(call[d], x)
      BY <1>x, <1>1, <1>2, <1>3, <1>11, NoCallFields DEF Apart, IsLate
    <3> QED
      BY <3>1 DEF Late
  <2>3. ASSUME answered, NEW e \in Entities
        PROVE  Late(e)' \/ (e \in entities' <=> \/ Will(down', DOMAIN known', e)
                                                \/ InReply(reader', e))
    BY <1>1, <1>3, <1>6, <2>1, <2>2, <2>3
  <2> QED
    BY <1>1, <1>4, <1>5, <1>11, <2>3 DEF EntInv
<1>12. CASE subscribed
  <2>1. PICK m \in Notifications : m = Announcement(call[c])
    <3>1. Announcement(call[c]) \in Notifications
      BY <1>x, <1>1, <1>10 DEF Announcement, Notifications
    <3> QED
      BY <3>1
  <2>2. down' = Append(down, m)
    BY <1>12, <2>1 DEF Announce, Notify
  <2>3. \A e : Will(down', DOMAIN known, e)
               <=> Adds(m, e) \/ (Will(down, DOMAIN known, e) /\ ~Removes(m, e))
    BY <2>2, WillKept
  <2>4. CASE style = "full"
    <3>1. m = [kind |-> "fullNotify", entities |-> entities]
      BY <2>1, <2>4 DEF Announcement
    <3>2. \A e : (Adds(m, e) <=> e \in entities) /\ (Removes(m, e) <=> e \notin entities)
      BY <3>1 DEF Adds, Removes
    <3>3. \A e : Will(down', DOMAIN known', e) <=> e \in entities'
      BY <1>1, <2>3, <3>2
    <3> QED
      BY <1>1, <1>4, <1>5, <1>8, <3>3 DEF EntInv
  <2>5. CASE style # "full"
    <3>1. m = [kind |-> call[c].op, entity |-> x]
      BY <1>x, <2>1, <2>5 DEF Announcement
    <3>2. \A e : /\ Adds(m, e) <=> call[c].op = "AddEntity" /\ e = x
                 /\ Removes(m, e) <=> call[c].op = "RemoveEntity" /\ e = x
      BY <1>1, <3>1 DEF Adds, Removes
    <3>3. Will(down', DOMAIN known', x) <=> x \in entities'
      BY <1>1, <1>9, <2>3, <3>2
    <3>4. \A e : e # x => (Will(down', DOMAIN known', e) <=> Will(down, DOMAIN known, e))
      BY <1>1, <2>3, <3>2
    <3>5. ASSUME answered, NEW e \in Entities
          PROVE  Late(e)' \/ (e \in entities' <=> \/ Will(down', DOMAIN known', e)
                                                  \/ InReply(reader', e))
      <4>1. CASE e = x
        BY <1>1, <1>8, <3>3, <4>1
      <4>2. CASE e # x
        BY <1>1, <1>3, <1>6, <3>4, <3>5, <4>2
      <4> QED
        BY <4>1, <4>2
    <3>6. ASSUME NEW e \in entities'
          PROVE  Late(e)' \/ Will(down', DOMAIN known', e)
      <4>1. CASE e = x
        BY <3>3, <3>6, <4>1
      <4>2. CASE e # x
        BY <1>1, <1>3, <1>6, <1>12, <3>4, <3>6, <4>2
      <4> QED
        BY <4>1, <4>2
    <3> QED
      BY <1>1, <1>4, <1>5, <3>5, <3>6 DEF EntInv
  <2> QED
    BY <2>4, <2>5
<1> QED
  BY <1>11, <1>12

LEMMA CallEntities ==
    ASSUME TypeInv, StartInv, EntInv, NEW c \in Callers, CallStep(c)
    PROVE  EntInv'
<1>0. /\ useCases \in Lists /\ entities \subseteq Entities
      /\ subscribed => answered
      /\ CallTypes /\ CallKeeps
  BY CallStepTypes DEF TypeInv, LocalTypes, StartInv
<1>00. "entities" \notin lossy => Apart /\ \A d \in Callers : Held(call[d], entities)
  BY DEF EntInv
<1>01. "entities" \in lossy => "entities" \in lossy'
  BY <1>0 DEF CallKeeps
<1>1. ASSUME NEW e \in Entities, AddEntity(c, e)
      PROVE  EntInv'
  <2>1. Begin(c, "AddEntity", "announce", e, FALSE, {}) /\ {} \in Lists
    BY <1>1, EmptyLists DEF AddEntity
  <2>2. /\ Moves(c) /\ call[c] = NoCall /\ call'[c] \in CallStates
        /\ call'[c].op = "AddEntity" /\ call'[c].step = "announce"
        /\ call'[c].entity = e /\ call'[c].early = ~answered
    <3>0. PICK op, step : op = "AddEntity" /\ step = "announce"
      OBVIOUS
    <3>1. PICK copy \in Lists, available \in BOOLEAN :
             copy = {} /\ available = FALSE
      BY <2>1
    <3>2. Begin(c, op, step, e, available, copy)
      BY <2>1, <3>0, <3>1
    <3> QED
      BY <1>0, <3>0, <3>1, <3>2, BeginMoves
  <2>3. "entities" \notin lossy' => Apart'
    BY <1>00, <1>01, <2>1, <2>2, ApartBegins
  <2>4. /\ entities' = entities \cup {e} /\ down' = down
    BY <1>1 DEF AddEntity
  <2>5. /\ \A x : x # e => (x \in entities' <=> x \in entities)
        /\ Held(call'[c], entities')
        /\ call[c].step # "announce" /\ call'[c] # NoCall
    BY <2>2, <2>4, NoCallFields DEF Held
  <2> QED
    BY <1>0, <2>2, <2>3, <2>4, <2>5, ChangedEntities
<1>2. ASSUME NEW e \in Entities, NEW op, NEW step, NEW available \in BOOLEAN,
             \/ op = "RemoveEntity" /\ step \in {"set", "remove"}
             \/ op \in UseCaseOps /\ step = "set",
             Begin(c, op, step, e, available, useCases), e \in entities,
             UNCHANGED <<entities, down>>
      PROVE  EntInv'
  <2>2. /\ Moves(c) /\ call[c] = NoCall /\ call'[c] \in CallStates
        /\ call'[c].op = op /\ call'[c].step = step /\ call'[c].entity = e
    BY <1>0, <1>2, BeginMoves
  <2>3. "entities" \notin lossy' => Apart'
    BY <1>00, <1>01, <1>2, <2>2, ApartBegins
  <2>4. /\ Held(call'[c], entities)
        /\ call[c].step # "announce" /\ call'[c].step # "announce"
    BY <1>2, <2>2, NoCallFields DEF Held, UseCaseOps
  <2> QED
    BY <1>0, <1>2, <2>2, <2>3, <2>4, PlainEntities
<1>3. ASSUME NEW e \in Entities, RemoveEntity(c, e)
      PROVE  EntInv'
  <2>0. PICK op, step :
           /\ op = "RemoveEntity"
           /\ step = IF useCases = {} THEN "remove" ELSE "set"
    OBVIOUS
  <2>1. PICK available \in BOOLEAN : available = FALSE
    OBVIOUS
  <2>4. op = "RemoveEntity" /\ step \in {"set", "remove"}
    BY <2>0
  <2>2. Begin(c, op, step, e, available, useCases)
    BY <1>3, <2>0, <2>1 DEF RemoveEntity
  <2>3. e \in entities /\ UNCHANGED <<entities, down>>
    BY <1>3 DEF RemoveEntity
  <2> QED
    BY <1>2, <2>2, <2>3, <2>4
<1>4. ASSUME NEW e \in Entities, NEW op \in UseCaseOps, NEW available \in BOOLEAN,
             CopyUseCases(c, op, e, available)
      PROVE  EntInv'
  BY <1>2, <1>4 DEF CopyUseCases
<1>5. CASE SetUseCases(c)
  <2>1. /\ Moves(c) /\ call[c] \in CallStates /\ call'[c] \in CallStates
        /\ call[c].step = "set" /\ call'[c].step = "notify"
        /\ call'[c].op = call[c].op /\ call'[c].entity = call[c].entity
    BY <1>0, <1>5, SetMoves
  <2>2. "entities" \notin lossy' => Apart'
    BY <1>00, <1>01, <2>1, NoCallFields, ApartMoves
  <2>3. UNCHANGED <<entities, down>>
    BY <1>5 DEF SetUseCases
  <2>4. Held(call'[c], entities) \/ "entities" \in lossy
    BY <1>00, <2>1 DEF Held
  <2> QED
    BY <1>0, <2>1, <2>2, <2>3, <2>4, PlainEntities
<1>6. CASE NotifyUseCases(c)
  <2>1. /\ Moves(c) /\ call[c] \in CallStates /\ call[c].step = "notify"
        /\ call[c].op # "RemoveEntity" => call'[c] = NoCall
        /\ call[c].op = "RemoveEntity" =>
              /\ call'[c] \in CallStates /\ call'[c].step = "remove"
              /\ call'[c].op = call[c].op /\ call'[c].entity = call[c].entity
    BY <1>0, <1>6, NotifyMoves
  <2>2. "entities" \notin lossy' => Apart'
    BY <1>00, <1>01, <2>1, NoCallFields, ApartMoves
  <2>3. /\ entities' = entities
        /\ down' = down \/ down' = Append(down, [kind |-> "useCases", list |-> useCases])
    BY <1>6 DEF NotifyUseCases, Notify
  <2>4. /\ Held(call'[c], entities) \/ "entities" \in lossy
        /\ call[c].step # "announce" /\ call'[c].step # "announce"
    BY <1>00, <2>1, NoCallFields DEF Held
  <2> QED
    BY <1>0, <2>1, <2>2, <2>3, <2>4, PlainEntities
<1>7. CASE RemoveFromList(c)
  <2>1. /\ Moves(c) /\ call[c] \in CallStates /\ call'[c] \in CallStates
        /\ call[c].step = "remove" /\ call'[c].step = "announce"
        /\ call[c].op = "RemoveEntity" /\ call'[c].op = "RemoveEntity"
        /\ call'[c].entity = call[c].entity /\ call'[c].early = ~answered
    BY <1>0, <1>7, RemoveMoves
  <2>2. "entities" \notin lossy' => Apart'
    BY <1>00, <1>01, <2>1, NoCallFields, ApartMoves
  <2>3. PICK x : x = call[c].entity
    OBVIOUS
  <2>4. entities' = entities \ {x} /\ down' = down
    BY <1>7, <2>3 DEF RemoveFromList
  <2>5. /\ \A y : y # x => (y \in entities' <=> y \in entities)
        /\ Held(call'[c], entities') /\ call'[c].entity = x
        /\ call[c].step # "announce" /\ call'[c] # NoCall
    BY <2>1, <2>3, <2>4, NoCallFields DEF Held
  <2> QED
    BY <1>0, <2>1, <2>2, <2>4, <2>5, ChangedEntities
<1>8. CASE Announce(c)
  BY <1>8, AnnounceEntities
<1> QED
  BY <1>1, <1>3, <1>4, <1>5, <1>6, <1>7, <1>8, CallStepCases

LEMMA ReaderEntities ==
    ASSUME TypeInv, StartInv, EntInv, ReaderStep
    PROVE  EntInv'
<1> SUFFICES ASSUME "entities" \notin lossy' PROVE EntInv'
  BY DEF EntInv
<1>0. /\ UNCHANGED <<call, entities>> /\ "entities" \notin lossy
      /\ entities \subseteq Entities
  BY ReaderKeeps DEF TypeInv, LocalTypes
<1>1. /\ Apart /\ \A d \in Callers : Held(call[d], entities)
      /\ answered => \A e \in Entities :
             Late(e) \/ (e \in entities <=> \/ Will(down, DOMAIN known, e)
                                            \/ InReply(reader, e))
      /\ subscribed => \A e \in entities : Late(e) \/ Will(down, DOMAIN known, e)
  BY <1>0 DEF EntInv
<1>2. /\ Apart' /\ \A d \in Callers : Held(call'[d], entities')
      /\ \A e : Late(e)' <=> Late(e)
  BY <1>0, <1>1 DEF Apart, Late
<1>3. /\ \A e : ~InReply(NoReply, e)
      /\ down \in Seq(DownMessages) /\ (reader = NoReply \/ reader \in Replies)
  BY ReplyFields DEF InReply, TypeInv, QueueTypes
<1>4. CASE ReadDiscovery
  <2>1. /\ UNCHANGED <<down, known, subscribed>> /\ reader = NoReply
        /\ reader' = [kind |-> "discoveryReply", entities |-> entities]
    BY <1>4 DEF ReadDiscovery, Received
  <2>2. \A e : InReply(reader', e) <=> e \in entities
    BY <2>1 DEF InReply
  <2>3. CASE answered
    BY <1>0, <1>1, <1>2, <1>3, <2>1, <2>2, <2>3 DEF EntInv
  <2>4. CASE ~answered
    <3>1. DOMAIN known = {} /\ down = <<>> /\ ~subscribed
      BY <2>4 DEF StartInv
    <3>2. \A e : ~Will(down, DOMAIN known, e)
      BY <3>1 DEF Will, WillAt
    <3> QED
      BY <1>0, <1>2, <2>1, <2>2, <3>1, <3>2 DEF EntInv
  <2> QED
    BY <2>3, <2>4
<1>5. CASE ReadUseCases
  <2>1. /\ UNCHANGED <<down, known, subscribed, answered>> /\ reader = NoReply
        /\ reader' = [kind |-> "useCasesReply", list |-> useCases]
    BY <1>5 DEF ReadUseCases, Received
  <2>2. \A e : ~InReply(reader', e)
    BY <2>1 DEF InReply
  <2> QED
    BY <1>0, <1>1, <1>2, <1>3, <2>1, <2>2 DEF EntInv
<1>6. CASE SendReply
  <2>1. /\ UNCHANGED <<known, subscribed, answered>> /\ reader \in Replies
        /\ down' = Append(down, reader) /\ reader' = NoReply
    BY <1>3, <1>6 DEF SendReply
  <2>2. reader \in DownMessages /\ reader.kind \in {"discoveryReply", "useCasesReply"}
    BY <2>1, ReplyFields
  <2>3. \A e : (Adds(reader, e) <=> InReply(reader, e)) /\ ~Removes(reader, e)
    BY <2>2 DEF Adds, Removes, InReply
  <2>4. \A e : Will(down', DOMAIN known, e)
               <=> InReply(reader, e) \/ Will(down, DOMAIN known, e)
    BY <2>1, <2>2, <2>3, WillAppended
  <2> QED
    BY <1>0, <1>1, <1>2, <1>3, <2>1, <2>4 DEF EntInv
<1>7. CASE AddSubscription
  <2>1. /\ UNCHANGED <<down, known, answered, reader>> /\ reader = NoReply
        /\ Head(up).kind = "subscribe"
    BY <1>7 DEF AddSubscription, Received
  <2>2. answered
    <3>1. Head(<<[kind |-> "readDiscovery"]>>).kind = "readDiscovery"
      OBVIOUS
    <3> QED
      BY <2>1, <3>1 DEF StartInv
  <2> QED
    BY <1>0, <1>1, <1>2, <1>3, <2>1, <2>2 DEF EntInv
<1>8. CASE RequestDiscovery
  <2>1. UNCHANGED <<down, known, answered, subscribed, reader>>
    BY <1>8 DEF RequestDiscovery
  <2> QED
    BY <1>0, <1>1, <1>2, <2>1 DEF EntInv
<1>9. CASE HandleMessage
  <2>1. /\ UNCHANGED <<answered, subscribed, reader>> /\ down # <<>> /\ down' = Tail(down)
        /\ \A e : e \in DOMAIN known' <=>
                  Adds(Head(down), e)
                  \/ (e \in DOMAIN known /\ ~Removes(Head(down), e))
    BY <1>9, HandleKnown DEF HandleMessage
  <2>6. \A e : Will(down', DOMAIN known', e) <=> Will(down, DOMAIN known, e)
    BY <2>1, WillHandled
  <2> QED
    BY <1>0, <1>1, <1>2, <2>1, <2>6 DEF EntInv
<1> QED
  BY <1>4, <1>5, <1>6, <1>7, <1>8, <1>9 DEF ReaderStep

LEMMA StepEntities == TypeInv /\ StartInv /\ EntInv /\ [Next]_vars => EntInv'
<1> SUFFICES ASSUME TypeInv, StartInv, EntInv, [Next]_vars PROVE EntInv'
  OBVIOUS
<1>1. CASE UNCHANGED vars
  BY <1>1 DEF vars, EntInv, Late, Apart
<1> QED
  BY <1>1, CallEntities, ReaderEntities DEF Next, ReaderStep

(* A call that changes the use cases, or tells of them.                    *)
Uses(r) == r.op \notin {"none", "AddEntity"}
Notifying == \E c \in Callers : call[c].step = "notify"

(* A reply with the use cases is on its way, or will be asked for.         *)
Coming(u, r, d) ==
    \/ \E i \in DOMAIN u : u[i].kind \in {"readUseCases", "readDiscovery"}
    \/ r.kind = "discoveryReply"
    \/ \E i \in DOMAIN d : /\ d[i].kind = "discoveryReply" /\ r.kind # "useCasesReply"
                           /\ \A j \in DOMAIN d : j > i => d[j].kind # "useCasesReply"
(* While the use cases are not lossy: one call at a time copies, changes   *)
(* and sets them; and the list will be the last word, unless a reply with  *)
(* it is coming or it will be notified.                                    *)
Alone ==
    /\ \A c, d \in Callers : Uses(call[c]) /\ Uses(call[d]) => c = d
    /\ \A c \in Callers : call[c].step = "set" => call[c].copy = useCases
Heard ==
    /\ \/ Notifying \/ reader.kind = "useCasesReply" \/ Coming(up, reader, down)
       \/ Word(down, knownUseCases, useCases)
    /\ \/ Notifying \/ Word(down, knownUseCases, useCases)
       \/ Word(down, knownUseCases, {})
    /\ reader.kind = "useCasesReply" => reader.list = useCases \/ Notifying
UseInv == "useCases" \notin lossy => Alone /\ Heard
ComingInv == ~subscribed => Coming(up, reader, down)

LEMMA ComingAppend ==
    ASSUME NEW M, NEW u \in Seq(M), NEW m \in M, NEW v, v = Append(u, m), NEW r, NEW d,
           Coming(u, r, d)
    PROVE  Coming(v, r, d)
<1>1. \A i \in DOMAIN u : i \in DOMAIN v /\ v[i] = u[i]
  BY AppendFacts
<1> QED
  BY <1>1 DEF Coming

LEMMA ComingTail ==
    ASSUME NEW M, NEW u \in Seq(M), u # <<>>, NEW v, v = Tail(u), NEW r, NEW d,
           Head(u).kind = "subscribe", Coming(u, r, d)
    PROVE  Coming(v, r, d)
<1>1. /\ DOMAIN u = 1..Len(u) /\ DOMAIN v = 1..Len(u) - 1 /\ Head(u) = u[1]
      /\ Len(u) \in Nat \ {0} /\ \A i \in 1..Len(u) - 1 : v[i] = u[i + 1]
  BY TailFacts
<1>2. \A i \in DOMAIN u : i # 1 => i - 1 \in DOMAIN v /\ v[i - 1] = u[i]
  BY <1>1
<1>3. u[1].kind \notin {"readUseCases", "readDiscovery"}
  BY <1>1
<1> QED
  BY <1>2, <1>3 DEF Coming

LEMMA ComingSent ==
    ASSUME NEW M, NEW d \in Seq(M), NEW m \in M, NEW s, s = Append(d, m), NEW u, NEW r,
           Coming(u, r, d), m.kind # "useCasesReply"
    PROVE  Coming(u, r, s)
<1>1. /\ DOMAIN d = 1..Len(d) /\ DOMAIN s = 1..Len(d) + 1 /\ Len(d) \in Nat
      /\ s[Len(d) + 1] = m /\ \A i \in 1..Len(d) : s[i] = d[i]
  BY AppendFacts
<1>2. /\ \A i \in DOMAIN d : i \in DOMAIN s /\ s[i] = d[i]
      /\ \A i \in DOMAIN s : i \in DOMAIN d \/ s[i] = m
  BY <1>1
<1> QED
  BY <1>2 DEF Coming

LEMMA ReplyIsComing ==
    ASSUME NEW M, NEW d \in Seq(M), NEW m \in M, NEW s, s = Append(d, m), NEW u, NEW r,
           m.kind = "discoveryReply", r.kind # "useCasesReply"
    PROVE  Coming(u, r, s)
<1>1. /\ DOMAIN s = 1..Len(d) + 1 /\ Len(d) \in Nat /\ s[Len(d) + 1] = m
  BY AppendFacts
<1>2. /\ Len(d) + 1 \in DOMAIN s
      /\ \A i \in DOMAIN s : ~(i > Len(d) + 1)
  BY <1>1
<1> QED
  BY <1>1, <1>2 DEF Coming

LEMMA ComingHandled ==
    ASSUME TypeInv, ReadInv, HandleMessage, Coming(up, reader, down)
    PROVE  Coming(up', reader', down')
<1>0. PICK m : m = Head(down)
  OBVIOUS
<1>1. /\ up \in Seq(UpMessages) /\ down \in Seq(DownMessages)
      /\ down # <<>> /\ down' = Tail(down) /\ reader' = reader
  BY DEF TypeInv, QueueTypes, HandleMessage
<1>2. /\ DOMAIN down = 1..Len(down) /\ DOMAIN down' = 1..Len(down) - 1 /\ m = down[1]
      /\ Len(down) \in Nat \ {0} /\ \A i \in 1..Len(down) - 1 : down'[i] = down[i + 1]
  BY <1>0, <1>1, TailFacts
<1>3. PICK v : v = Append(up, Ask("subscribe"))
  OBVIOUS
<1>4. /\ Ask("subscribe") \in UpMessages /\ Ask("readUseCases") \in UpMessages
      /\ Ask("readDiscovery") \in UpMessages /\ Ask("readUseCases").kind = "readUseCases"
  BY AskMessages
<1>5. v \in Seq(UpMessages) /\ \A i \in DOMAIN up : i \in DOMAIN v /\ v[i] = up[i]
  BY <1>1, <1>3, <1>4, AppendFacts
<1>6. \A i \in DOMAIN up : i \in DOMAIN up' /\ up'[i] = up[i]
  <2>1. CASE up' = up
    BY <2>1
  <2>2. CASE up' = Append(up, Ask("readDiscovery"))
    BY <1>1, <1>4, <2>2, AppendFacts
  <2>3. CASE up' = v
    BY <1>5, <2>3
  <2>4. CASE up' = Append(v, Ask("readUseCases"))
    <3>1. \A i \in DOMAIN v : i \in DOMAIN up' /\ up'[i] = v[i]
      BY <1>4, <1>5, <2>4, AppendFacts
    <3> QED
      BY <1>5, <3>1
  <2> QED
    BY <1>0, <1>3, <2>1, <2>2, <2>3, <2>4, HandleSent
<1>7. CASE \/ \E i \in DOMAIN up : up[i].kind \in {"readUseCases", "readDiscovery"}
           \/ reader.kind = "discoveryReply"
  BY <1>1, <1>6, <1>7 DEF Coming
<1>8. ASSUME NEW i \in DOMAIN down, down[i].kind = "discoveryReply",
             reader.kind # "useCasesReply",
             \A j \in DOMAIN down : j > i => down[j].kind # "useCasesReply"
      PROVE  Coming(up', reader', down')
  <2>1. CASE i # 1
    <3>1. i - 1 \in DOMAIN down' /\ down'[i - 1] = down[i]
      BY <1>2, <1>8, <2>1
    <3>2. \A j \in DOMAIN down' : j > i - 1 =>
             j + 1 \in DOMAIN down /\ j + 1 > i /\ down'[j] = down[j + 1]
      BY <1>2, <1>8
    <3> QED
      BY <1>1, <1>8, <3>1, <3>2 DEF Coming
  <2>2. CASE i = 1
    <3>1. m.kind = "discoveryReply"
      BY <1>2, <1>8, <2>2
    <3>2. up' = IF "useCases" \in asked THEN v ELSE Append(v, Ask("readUseCases"))
      BY <1>0, <1>3, <3>1, HandleSent
    <3>3. CASE "useCases" \notin asked
      <4>1. Len(v) + 1 \in DOMAIN up' /\ up'[Len(v) + 1] = Ask("readUseCases")
        BY <1>4, <1>5, <3>2, <3>3, AppendFacts
      <4> QED
        BY <1>4, <4>1 DEF Coming
    <3>4. CASE "useCases" \in asked
      <4>1. ~\E j \in DOMAIN down : down[j].kind = "useCasesReply"
        <5>1. \A j \in DOMAIN down : j > 1 \/ j = 1
          BY <1>2
        <5> QED
          BY <1>8, <2>2, <5>1
      <4>2. \E j \in DOMAIN up : up[j].kind = "readUseCases"
        BY <1>8, <3>4, <4>1 DEF ReadInv, One
      <4> QED
        BY <1>7, <4>2
    <3> QED
      BY <3>3, <3>4
  <2> QED
    BY <2>1, <2>2
<1> QED
  BY <1>7, <1>8 DEF Coming

(* Before the subscription nothing is said of use cases.                   *)
LEMMA NothingSaid ==
    ASSUME TypeInv, StartInv, ~subscribed
    PROVE  Word(down, knownUseCases, {})
<1>1. /\ down \in Seq(DownMessages) /\ knownUseCases = {}
      /\ \A i \in DOMAIN down : Says(down[i]) /\ ListOf(down[i]) = {}
  BY DEF TypeInv, QueueTypes, StartInv, Says, ListOf
<1>2. CASE down = <<>>
  BY <1>1, <1>2 DEF Word
<1>3. CASE down # <<>>
  <2>1. Len(down) \in DOMAIN down /\ \A j \in DOMAIN down : ~(j > Len(down))
    BY <1>1, <1>3
  <2> QED
    BY <1>1, <2>1 DEF Word
<1> QED
  BY <1>2, <1>3

LEMMA NoReadYet ==
    ASSUME TypeInv, StartInv, ReadUseCases
    PROVE  subscribed
<1>1. up # <<>> /\ Head(up).kind = "readUseCases" /\ up \in Seq(UpMessages)
  BY DEF ReadUseCases, Received, TypeInv, QueueTypes
<1>2. 1 \in DOMAIN up /\ up[1].kind = "readUseCases" /\ DOMAIN up = 1..Len(up)
  BY <1>1, TailFacts
<1>3. ~\E j \in DOMAIN up : j < 1
  BY <1>2
<1> QED
  BY <1>2, <1>3 DEF StartInv

LEMMA CallComing ==
    ASSUME TypeInv, ComingInv, CallKeeps, Tells
    PROVE  ComingInv'
<1>1. ~subscribed => UNCHANGED down
  BY DEF Tells
<1> QED
  BY <1>1 DEF CallKeeps, ComingInv

LEMMA StepComing == TypeInv /\ ReadInv /\ StartInv /\ ComingInv /\ [Next]_vars => ComingInv'
<1> SUFFICES ASSUME TypeInv, ReadInv, StartInv, ComingInv, [Next]_vars PROVE ComingInv'
  OBVIOUS
<1>0. up \in Seq(UpMessages) /\ down \in Seq(DownMessages)
  BY DEF TypeInv, QueueTypes
<1>1. CASE UNCHANGED vars
  BY <1>1 DEF vars, ComingInv
<1>2. ASSUME NEW c \in Callers, CallStep(c)
      PROVE  ComingInv'
  BY <1>2, CallStepTypes, CallComing
<1>3. CASE ReadDiscovery
  BY <1>3 DEF ReadDiscovery, Coming, ComingInv
<1>4. CASE ReadUseCases
  BY <1>4, NoReadYet DEF ReadUseCases, ComingInv
<1>5. CASE SendReply
  <2>1. /\ reader \in Replies /\ down' = Append(down, reader) /\ reader' = NoReply
        /\ UNCHANGED <<up, subscribed>>
    BY <1>5 DEF SendReply, TypeInv, QueueTypes
  <2>2. /\ reader \in DownMessages /\ reader.kind \in {"discoveryReply", "useCasesReply"}
        /\ reader'.kind = "none"
    BY <2>1, ReplyFields
  <2>3. ~subscribed => reader.kind = "discoveryReply"
    BY <2>2 DEF StartInv
  <2>4. ASSUME reader.kind = "discoveryReply"
        PROVE  Coming(up', reader', down')
    <3>1. PICK u, r : u = up' /\ r = reader'
      OBVIOUS
    <3>2. Coming(u, r, down')
      <4>1. r.kind # "useCasesReply"
        BY <2>2, <3>1
      <4> QED
        BY <1>0, <2>1, <2>2, <2>4, <4>1, ReplyIsComing
    <3> QED
      BY <3>1, <3>2
  <2> QED
    BY <2>1, <2>3, <2>4 DEF ComingInv
<1>6. CASE AddSubscription
  BY <1>6 DEF AddSubscription, ComingInv
<1>7. CASE RequestDiscovery
  <2>1. /\ UNCHANGED <<down, reader, subscribed>>
        /\ up' = IF "discovery" \in asked THEN up ELSE Append(up, Ask("readDiscovery"))
    BY <1>7, RequestSent DEF RequestDiscovery
  <2>2. Ask("readDiscovery") \in UpMessages
    BY AskMessages
  <2>3. Coming(up, reader, down) => Coming(up', reader, down)
    BY <1>0, <2>1, <2>2, ComingAppend
  <2> QED
    BY <2>1, <2>3 DEF ComingInv
<1>8. CASE HandleMessage
  BY <1>8, ComingHandled DEF ComingInv, HandleMessage
<1> QED
  BY <1>1, <1>2, <1>3, <1>4, <1>5, <1>6, <1>7, <1>8 DEF Next

(* The words that the messages will leave behind.                          *)
LEMMA WordSent ==
    ASSUME TypeInv, NEW m \in DownMessages, down' = Append(down, m)
    PROVE  /\ Says(m) => Word(down', knownUseCases, ListOf(m))
           /\ ~Says(m) => \A L : Word(down', knownUseCases, L)
                                 <=> Word(down, knownUseCases, L)
<1>1. PICK K : K = knownUseCases
  OBVIOUS
<1>2. down \in Seq(DownMessages)
  BY DEF TypeInv, QueueTypes
<1>3. ASSUME NEW L
      PROVE  /\ Says(m) => (Word(down', K, L) <=> ListOf(m) = L)
             /\ ~Says(m) => (Word(down', K, L) <=> Word(down, K, L))
  BY <1>2, WordAppend
<1> QED
  BY <1>1, <1>3

LEMMA WordHandled ==
    ASSUME TypeInv, down # <<>>, down' = Tail(down),
           knownUseCases' = IF Says(Head(down)) THEN ListOf(Head(down))
                            ELSE knownUseCases
    PROVE  \A L : Word(down', knownUseCases', L) <=> Word(down, knownUseCases, L)
<1>1. PICK K, J : K = knownUseCases /\ J = knownUseCases'
  OBVIOUS
<1>2. down \in Seq(DownMessages)
  BY DEF TypeInv, QueueTypes
<1>3. Head(down) = down[1]
  BY <1>2, TailFacts
<1>4. J = IF Says(down[1]) THEN ListOf(down[1]) ELSE K
  BY <1>1, <1>3
<1>5. ASSUME NEW L
      PROVE  Word(down', J, L) <=> Word(down, K, L)
  BY <1>2, <1>4, WordTail
<1> QED
  BY <1>1, <1>5

LEMMA AloneBegins ==
    ASSUME TypeInv, Alone, NEW c \in Callers, NEW op, NEW step, NEW e,
           NEW available, Begin(c, op, step, e, available, useCases),
           Moves(c), call'[c].copy = useCases, op # "AddEntity", call[c] = NoCall,
           "useCases" \notin lossy', useCases' = useCases
    PROVE  Alone'
<1>1. lossy' = lossy \cup Meeting(c, op, e)
  BY DEF Begin
<1>2. "useCases" \notin Meeting(c, op, e)
  BY <1>1
<1>3. ~\E d \in Others(c) : call[d].op # "AddEntity"
  BY <1>2 DEF Meeting
<1>4. \A d \in Callers \ {c} : ~Uses(call[d])
  BY <1>3, NoCallFields DEF Others, Uses
<1>5. \A d \in Callers \ {c} : ~Uses(call'[d])
  BY <1>4 DEF Moves
<1>6. \A a, b \in Callers : Uses(call'[a]) /\ Uses(call'[b]) => a = b
  BY <1>5
<1>7. \A a \in Callers : call'[a].step = "set" => call'[a].copy = useCases'
  BY DEF Moves, Alone
<1> QED
  BY <1>6, <1>7 DEF Alone

LEMMA AloneMoves ==
    ASSUME Alone, NEW c \in Callers, Moves(c), call'[c].step # "set",
           Uses(call'[c]) => Uses(call[c]), useCases' = useCases
    PROVE  Alone'
<1>1. \A d \in Callers : Uses(call'[d]) => Uses(call[d])
  BY DEF Moves
<1>2. \A a, b \in Callers : Uses(call'[a]) /\ Uses(call'[b]) => a = b
  BY <1>1 DEF Alone
<1>3. \A a \in Callers : call'[a].step = "set" => call'[a].copy = useCases'
  BY DEF Moves, Alone
<1> QED
  BY <1>2, <1>3 DEF Alone

LEMMA NotifyingKept ==
    ASSUME NEW c \in Callers, Moves(c), call[c].step # "notify" \/ call'[c].step = "notify"
    PROVE  Notifying => Notifying'
BY DEF Moves, Notifying

(* A call that neither changes the use cases nor tells of them.            *)
LEMMA PlainUses ==
    ASSUME TypeInv, UseInv, NEW c \in Callers, Moves(c), CallKeeps,
           "useCases" \notin lossy' => Alone',
           useCases' = useCases, call[c].step # "notify",
           \/ down' = down
           \/ \E m \in Notifications : ~Says(m) /\ down' = Append(down, m)
    PROVE  UseInv'
<1> SUFFICES ASSUME "useCases" \notin lossy' PROVE UseInv'
  BY DEF UseInv
<1>1. /\ UNCHANGED <<reader, up, knownUseCases>> /\ "useCases" \notin lossy /\ Alone'
      /\ down \in Seq(DownMessages)
  BY DEF CallKeeps, TypeInv, QueueTypes
<1>2. Heard
  BY <1>1 DEF UseInv
<1>3. Notifying => Notifying'
  BY NotifyingKept
<1>4. /\ \A L : Word(down', knownUseCases, L) <=> Word(down, knownUseCases, L)
      /\ Coming(up, reader, down) => Coming(up, reader, down')
  <2>1. CASE down' = down
    BY <2>1
  <2>2. ASSUME NEW m \in Notifications, ~Says(m), down' = Append(down, m)
        PROVE  <1>4!:
    <3>1. m \in DownMessages /\ m.kind # "useCasesReply"
      BY <2>2 DEF DownMessages, Says
    <3> QED
      BY <1>1, <2>2, <3>1, WordSent, ComingSent
  <2> QED
    BY <2>1, <2>2
<1>5. Heard'
  BY <1>1, <1>2, <1>3, <1>4 DEF Heard
<1> QED
  BY <1>1, <1>5 DEF UseInv

LEMMA CallUses ==
    ASSUME TypeInv, StartInv, ComingInv, UseInv, NEW c \in Callers, CallStep(c)
    PROVE  UseInv'
<1>0. /\ useCases \in Lists /\ entities \subseteq Entities /\ CallTypes /\ CallKeeps
      /\ "useCases" \in lossy => "useCases" \in lossy'
  BY CallStepTypes DEF TypeInv, LocalTypes, CallKeeps
<1>00. "useCases" \notin lossy => Alone /\ Heard
  BY DEF UseInv
<1>1. ASSUME NEW e \in Entities, AddEntity(c, e)
      PROVE  UseInv'
  <2>1. Begin(c, "AddEntity", "announce", e, FALSE, {})
    BY <1>1 DEF AddEntity
  <2>2. /\ Moves(c) /\ call[c] = NoCall
        /\ call'[c].op = "AddEntity" /\ call'[c].step = "announce"
    <3>0. PICK op, step : op = "AddEntity" /\ step = "announce"
      OBVIOUS
    <3>1. PICK copy \in Lists, available \in BOOLEAN :
             copy = {} /\ available = FALSE
      BY EmptyLists
    <3>2. Begin(c, op, step, e, available, copy)
      BY <2>1, <3>0, <3>1
    <3> QED
      BY <1>0, <3>0, <3>1, <3>2, BeginMoves
  <2>3. useCases' = useCases /\ down' = down
    BY <1>1 DEF AddEntity
  <2>4. /\ ~Uses(call'[c]) /\ call'[c].step # "set" /\ call[c].step # "notify"
    BY <2>2, NoCallFields DEF Uses
  <2>5. "useCases" \notin lossy' => Alone'
    BY <1>0, <1>00, <2>2, <2>3, <2>4, AloneMoves
  <2> QED
    BY <1>0, <2>2, <2>3, <2>4, <2>5, PlainUses
<1>2. ASSUME NEW e \in Entities, NEW op, NEW step, NEW available \in BOOLEAN,
             \/ op = "RemoveEntity" /\ step \in {"set", "remove"}
             \/ op \in UseCaseOps /\ step = "set",
             Begin(c, op, step, e, available, useCases),
             UNCHANGED <<useCases, down>>
      PROVE  UseInv'
  <2>1. /\ Moves(c) /\ call[c] = NoCall /\ call'[c].copy = useCases
    BY <1>0, <1>2, BeginMoves
  <2>2. op # "AddEntity" /\ call[c].step # "notify"
    BY <1>2, <2>1, NoCallFields DEF UseCaseOps
  <2>3. "useCases" \notin lossy' => Alone'
    BY <1>0, <1>00, <1>2, <2>1, <2>2, AloneBegins
  <2> QED
    BY <1>0, <1>2, <2>1, <2>2, <2>3, PlainUses
<1>3. ASSUME NEW e \in Entities, RemoveEntity(c, e)
      PROVE  UseInv'
  <2>0. PICK op, step :
           /\ op = "RemoveEntity"
           /\ step = IF useCases = {} THEN "remove" ELSE "set"
    OBVIOUS
  <2>1. PICK available \in BOOLEAN : available = FALSE
    OBVIOUS
  <2>2. Begin(c, op, step, e, available, useCases) /\ UNCHANGED <<useCases, down>>
    BY <1>3, <2>0, <2>1 DEF RemoveEntity
  <2>3. op = "RemoveEntity" /\ step \in {"set", "remove"}
    BY <2>0
  <2> QED
    BY <1>2, <2>2, <2>3
<1>4. ASSUME NEW e \in Entities, NEW op \in UseCaseOps, NEW available \in BOOLEAN,
             CopyUseCases(c, op, e, available)
      PROVE  UseInv'
  BY <1>2, <1>4 DEF CopyUseCases
<1>5. CASE SetUseCases(c)
  <2> SUFFICES ASSUME "useCases" \notin lossy' PROVE UseInv'
    BY DEF UseInv
  <2>1. /\ Moves(c) /\ call[c] \in CallStates /\ call[c].step = "set"
        /\ call'[c].step = "notify" /\ call'[c].op = call[c].op
    BY <1>0, <1>5, SetMoves
  <2>2. UNCHANGED <<reader, down, up, knownUseCases, lossy>>
    BY <1>5 DEF SetUseCases
  <2>3. Alone /\ Heard
    BY <1>00, <2>2
  <2>4. Notifying'
    BY <2>1 DEF Notifying
  <2>5. Word(down, knownUseCases, useCases) \/ Notifying' 
    BY <2>4
  <2>6. Uses(call[c])
    <3>1. IsCall(call[c])
      BY DEF TypeInv, CallTypes
    <3> QED
      BY <2>1, <3>1, NoCallFields DEF Uses, IsCall
  <2>7. \A d \in Callers \ {c} : call'[d].step # "set"
    <3> SUFFICES ASSUME NEW d \in Callers \ {c}, call'[d].step = "set" PROVE FALSE
      OBVIOUS
    <3>1. call[d].step = "set" /\ IsCall(call[d])
      BY <2>1 DEF Moves, TypeInv, CallTypes
    <3>2. Uses(call[d])
      BY <3>1, NoCallFields DEF Uses, IsCall
    <3> QED
      BY <2>3, <2>6, <3>2 DEF Alone
  <2>8. \A d \in Callers : Uses(call'[d]) => Uses(call[d])
    BY <2>1 DEF Moves, Uses
  <2>9. Alone'
    BY <2>1, <2>3, <2>7, <2>8 DEF Alone
  <2>10. Heard'
    BY <2>4 DEF Heard
  <2> QED
    BY <2>9, <2>10 DEF UseInv
<1>6. CASE NotifyUseCases(c)
  <2> SUFFICES ASSUME "useCases" \notin lossy' PROVE UseInv'
    BY DEF UseInv
  <2>1. /\ Moves(c) /\ call[c] \in CallStates /\ call[c].step = "notify"
        /\ call[c].op # "RemoveEntity" => call'[c] = NoCall
        /\ call[c].op = "RemoveEntity" =>
              call'[c].step = "remove" /\ call'[c].op = call[c].op
    BY <1>0, <1>6, NotifyMoves
  <2>2. /\ UNCHANGED <<reader, up, knownUseCases, useCases, subscribed>>
        /\ reader.kind = "useCasesReply" => reader.list = useCases
        /\ down' = IF subscribed THEN Append(down, [kind |-> "useCases", list |-> useCases])
                   ELSE down
    BY <1>6 DEF NotifyUseCases, Notify
  <2>3. Alone
    BY <1>0, <1>00
  <2>4. /\ call'[c].step # "set" /\ Uses(call'[c]) => Uses(call[c])
    BY <2>1, NoCallFields DEF Uses
  <2>5. Alone'
    BY <2>1, <2>2, <2>3, <2>4, NoCallFields, AloneMoves DEF Uses
  <2>6. CASE subscribed
    <3>1. PICK m \in Notifications : m = [kind |-> "useCases", list |-> useCases]
      BY <1>0 DEF Notifications
    <3>2. m \in DownMessages /\ Says(m) /\ ListOf(m) = useCases
      BY <3>1 DEF DownMessages, Says, ListOf
    <3>3. Word(down', knownUseCases, useCases)
      BY <2>2, <2>6, <3>1, <3>2, WordSent
    <3>4. Heard'
      BY <2>2, <3>3 DEF Heard
    <3> QED
      BY <2>5, <3>4 DEF UseInv
  <2>7. CASE ~subscribed
    <3>1. down' = down /\ Coming(up, reader, down) /\ Word(down, knownUseCases, {})
      BY <2>2, <2>7, NothingSaid DEF ComingInv
    <3>2. Heard'
      BY <2>2, <3>1 DEF Heard
    <3> QED
      BY <2>5, <3>2 DEF UseInv
  <2> QED
    BY <2>6, <2>7
<1>7. CASE RemoveFromList(c)
  <2>1. /\ Moves(c) /\ call[c].step = "remove" /\ call'[c].step = "announce"
        /\ call[c].op = "RemoveEntity" /\ call'[c].op = "RemoveEntity"
    BY <1>0, <1>7, RemoveMoves
  <2>2. UNCHANGED <<useCases, down>>
    BY <1>7 DEF RemoveFromList
  <2>3. "useCases" \notin lossy' => Alone'
    BY <1>0, <1>00, <2>1, <2>2, AloneMoves DEF Uses
  <2> QED
    BY <1>0, <2>1, <2>2, <2>3, PlainUses
<1>8. CASE Announce(c)
  <2>1. /\ Moves(c) /\ call[c] \in CallStates /\ call[c].step = "announce"
        /\ call[c].op \in {"AddEntity", "RemoveEntity"} /\ call'[c] = NoCall
    BY <1>0, <1>8, AnnounceMoves
  <2>2. useCases' = useCases
    BY <1>8 DEF Announce
  <2>3. "useCases" \notin lossy' => Alone'
    BY <1>0, <1>00, <2>1, <2>2, NoCallFields, AloneMoves DEF Uses
  <2>4. /\ Announcement(call[c]) \in Notifications /\ ~Says(Announcement(call[c]))
    BY <1>0, <2>1 DEF Announcement, Notifications, CallStates, Says
  <2>5. down' = down \/ down' = Append(down, Announcement(call[c]))
    BY <1>8 DEF Announce, Notify
  <2> QED
    BY <1>0, <2>1, <2>2, <2>3, <2>4, <2>5, PlainUses
<1> QED
  BY <1>1, <1>3, <1>4, <1>5, <1>6, <1>7, <1>8, CallStepCases

LEMMA ReaderUses ==
    ASSUME TypeInv, ReadInv, UseInv, ReaderStep
    PROVE  UseInv'
<1> SUFFICES ASSUME "useCases" \notin lossy' PROVE UseInv'
  BY DEF UseInv
<1>0. /\ UNCHANGED <<call, useCases>> /\ "useCases" \notin lossy
      /\ useCases \in Lists
      /\ up \in Seq(UpMessages) /\ down \in Seq(DownMessages)
      /\ (reader = NoReply \/ reader \in Replies) /\ NoReply.kind = "none"
  BY ReaderKeeps, ReplyFields DEF TypeInv, LocalTypes, QueueTypes
<1>1. Alone' /\ Heard /\ (Notifying <=> Notifying')
  BY <1>0 DEF UseInv, Alone, Notifying
<1>3. CASE ReadDiscovery
  <2>1. /\ reader'.kind = "discoveryReply" /\ reader = NoReply
        /\ UNCHANGED <<down, knownUseCases>>
    BY <1>3 DEF ReadDiscovery, Received
  <2> QED
    BY <1>0, <1>1, <2>1 DEF Heard, UseInv, Coming
<1>4. CASE ReadUseCases
  <2>1. /\ reader'.kind = "useCasesReply" /\ reader = NoReply /\ reader'.list = useCases
        /\ UNCHANGED <<down, knownUseCases>>
    BY <1>4 DEF ReadUseCases, Received
  <2> QED
    BY <1>0, <1>1, <2>1 DEF Heard, UseInv
<1>5. CASE SendReply
  <2>1. /\ reader \in Replies /\ down' = Append(down, reader) /\ reader' = NoReply
        /\ UNCHANGED <<up, knownUseCases>>
    BY <1>0, <1>5 DEF SendReply
  <2>2. /\ reader \in DownMessages /\ reader.kind \in {"discoveryReply", "useCasesReply"}
        /\ reader'.kind = "none"
    BY <2>1, ReplyFields
  <2>3. Says(reader) /\ Word(down', knownUseCases, ListOf(reader))
    BY <2>1, <2>2, WordSent DEF Says
  <2>4. CASE reader.kind = "discoveryReply"
    <3>1. ListOf(reader) = {}
      BY <2>4 DEF ListOf
    <3>2. Coming(up', reader', down')
      <4>1. PICK u, r : u = up' /\ r = reader'
        OBVIOUS
      <4>2. Coming(u, r, down')
        BY <1>0, <2>1, <2>2, <2>4, <4>1, ReplyIsComing
      <4> QED
        BY <4>1, <4>2
    <3> QED
      BY <1>1, <2>1, <2>2, <2>3, <3>1, <3>2 DEF Heard, UseInv
  <2>5. CASE reader.kind = "useCasesReply"
    <3>1. ListOf(reader) = reader.list
      BY <2>5 DEF ListOf
    <3>2. ListOf(reader) = useCases \/ Notifying
      BY <1>1, <2>5, <3>1 DEF Heard
    <3> QED
      BY <1>0, <1>1, <2>1, <2>2, <2>3, <3>2 DEF Heard, UseInv
  <2> QED
    BY <2>2, <2>4, <2>5
<1>6. CASE AddSubscription
  <2>1. /\ UNCHANGED <<down, reader, knownUseCases>>
        /\ up # <<>> /\ up' = Tail(up) /\ Head(up).kind = "subscribe"
    BY <1>6 DEF AddSubscription, Received
  <2>2. Coming(up, reader, down) => Coming(up', reader, down)
    BY <1>0, <2>1, ComingTail
  <2> QED
    BY <1>0, <1>1, <2>1, <2>2 DEF Heard, UseInv
<1>7. CASE RequestDiscovery
  <2>1. /\ UNCHANGED <<down, reader, knownUseCases>>
        /\ up' = IF "discovery" \in asked THEN up ELSE Append(up, Ask("readDiscovery"))
    BY <1>7, RequestSent DEF RequestDiscovery
  <2>2. Ask("readDiscovery") \in UpMessages
    BY AskMessages
  <2>3. Coming(up, reader, down) => Coming(up', reader, down)
    BY <1>0, <2>1, <2>2, ComingAppend
  <2> QED
    BY <1>0, <1>1, <2>1, <2>3 DEF Heard, UseInv
<1>8. CASE HandleMessage
  <2>1. /\ reader' = reader /\ down # <<>> /\ down' = Tail(down)
        /\ knownUseCases' = IF Says(Head(down)) THEN ListOf(Head(down))
                            ELSE knownUseCases
    BY <1>8, HandleKnown DEF HandleMessage
  <2>2. \A L : Word(down', knownUseCases', L) <=> Word(down, knownUseCases, L)
    BY <2>1, WordHandled
  <2>3. Coming(up, reader, down) => Coming(up', reader', down')
    BY <1>8, ComingHandled
  <2> QED
    BY <1>0, <1>1, <2>1, <2>2, <2>3 DEF Heard, UseInv
<1> QED
  BY <1>3, <1>4, <1>5, <1>6, <1>7, <1>8 DEF ReaderStep

LEMMA StepUses ==
    TypeInv /\ ReadInv /\ StartInv /\ ComingInv /\ UseInv /\ [Next]_vars => UseInv'
<1> SUFFICES ASSUME TypeInv, ReadInv, StartInv, ComingInv, UseInv, [Next]_vars PROVE UseInv'
  OBVIOUS
<1>1. CASE UNCHANGED vars
  BY <1>1 DEF vars, UseInv, Alone, Heard, Notifying
<1> QED
  BY <1>1, CallUses, ReaderUses DEF Next, ReaderStep

(* An entity that the other device knows by the time it hears of its use   *)
(* case.                                                                   *)
Usable(e) == /\ e \in entities
             /\ \A c \in Callers : call[c].op = "AddEntity" => call[c].entity # e
AllUsable(list) == \A e \in Of(list) : Usable(e)
Placed(r) == /\ r.op \in UseCaseOps => Usable(r.entity)
             /\ r.op = "RemoveEntity" /\ r.step # "set" => r.entity \notin Of(useCases)
HaveInv ==
    lossy = {} =>
       /\ AllUsable(useCases)
       /\ reader.kind = "useCasesReply" => AllUsable(reader.list)
       /\ \E W : Word(down, knownUseCases, W) /\ AllUsable(W)
       /\ \A c \in Callers : Placed(call[c])
       /\ Ordered(down, DOMAIN known, knownUseCases)

LEMMA UsableKept ==
    ASSUME NEW c \in Callers, Moves(c), entities \subseteq entities',
           call'[c].op = "AddEntity" => call'[c].entity \notin entities
    PROVE  \A e : Usable(e) => Usable(e)'
<1> SUFFICES ASSUME NEW e, Usable(e) PROVE Usable(e)'
  OBVIOUS
<1>1. \A d \in Callers \ {c} : call'[d] = call[d]
  BY DEF Moves
<1>2. \A d \in Callers : call'[d].op = "AddEntity" => call'[d].entity # e
  BY <1>1 DEF Usable
<1> QED
  BY <1>2 DEF Usable

LEMMA UsableNotLate ==
    ASSUME TypeInv, \A c \in Callers : Held(call[c], entities), NEW e, Usable(e)
    PROVE  ~Late(e)
<1> SUFFICES ASSUME NEW c \in Callers, IsLate(call[c], e) PROVE FALSE
  BY DEF Late
<1>1. IsCall(call[c]) /\ call[c].step = "announce" /\ call[c].entity = e
  BY DEF TypeInv, CallTypes, IsLate
<1>2. call[c].op \in {"AddEntity", "RemoveEntity"}
  BY <1>1, NoCallFields DEF IsCall, CallStates
<1> QED
  BY <1>1, <1>2 DEF Held, Usable

LEMMA OrderedSent ==
    ASSUME TypeInv, NEW m \in DownMessages, down' = Append(down, m),
           Ordered(down, DOMAIN known, knownUseCases),
           Says(m) => \A e \in Of(ListOf(m)) : Will(down, DOMAIN known, e),
           NEW W, Word(down, knownUseCases, W),
           \A e \in Entities : Removes(m, e) => e \notin Of(W)
    PROVE  Ordered(down', DOMAIN known, knownUseCases)
<1>1. PICK K, L : K = DOMAIN known /\ L = knownUseCases
  OBVIOUS
<1>2. down \in Seq(DownMessages)
  BY DEF TypeInv, QueueTypes
<1>3. Ordered(down', K, L)
  BY <1>1, <1>2, OrderedAppend
<1> QED
  BY <1>1, <1>3

LEMMA OrderedHandled ==
    ASSUME TypeInv, down # <<>>, down' = Tail(down),
           Ordered(down, DOMAIN known, knownUseCases),
           knownUseCases' = IF Says(Head(down)) THEN ListOf(Head(down))
                            ELSE knownUseCases,
           \A e : e \in DOMAIN known'
                 <=> Adds(Head(down), e)
                     \/ (e \in DOMAIN known /\ ~Removes(Head(down), e))
    PROVE  Ordered(down', DOMAIN known', knownUseCases')
<1>1. PICK K, L, J, N : /\ K = DOMAIN known /\ L = knownUseCases
                        /\ J = DOMAIN known' /\ N = knownUseCases'
  OBVIOUS
<1>2. down \in Seq(DownMessages) /\ Of(L) \subseteq Entities
  BY <1>1, EmptyLists DEF TypeInv, QueueTypes, RemoteTypes
<1>3. Head(down) = down[1]
  BY <1>2, TailFacts
<1>4. /\ N = IF Says(down[1]) THEN ListOf(down[1]) ELSE L
      /\ \A e : e \in J <=> Adds(down[1], e) \/ (e \in K /\ ~Removes(down[1], e))
  BY <1>1, <1>3
<1>5. Ordered(down', J, N)
  BY <1>1, <1>2, <1>4, OrderedTail
<1> QED
  BY <1>1, <1>5

(* The calls of others.                                                    *)
LEMMA PlacedKept ==
    ASSUME NEW c \in Callers, Moves(c), \A d \in Callers : Placed(call[d]),
           \A e : Usable(e) => Usable(e)', Of(useCases') \subseteq Of(useCases),
           Placed(call[c])'
    PROVE  \A d \in Callers : Placed(call[d])'
<1> SUFFICES ASSUME NEW d \in Callers, d # c PROVE Placed(call[d])'
  OBVIOUS
<1>1. call'[d] = call[d] /\ Placed(call[d])
  BY DEF Moves
<1> QED
  BY <1>1 DEF Placed

(* A call that leaves the use cases and what is usable alone.              *)
LEMMA PlainHave ==
    ASSUME TypeInv, HaveInv, NEW c \in Callers, Moves(c), CallKeeps,
           useCases' = useCases, down' = down,
           \A e : Usable(e) => Usable(e)', lossy' = {} => Placed(call[c])'
    PROVE  HaveInv'
<1> SUFFICES ASSUME lossy' = {} PROVE HaveInv'
  BY DEF HaveInv
<1>1. lossy = {} /\ UNCHANGED <<reader, known, knownUseCases>>
  BY DEF CallKeeps
<1>2. \A d \in Callers : Placed(call[d])'
  BY <1>1, PlacedKept DEF HaveInv
<1>3. /\ AllUsable(useCases)'
      /\ reader'.kind = "useCasesReply" => AllUsable(reader.list)'
      /\ \E W : Word(down', knownUseCases', W) /\ \A e \in Of(W) : Usable(e)'
  BY <1>1 DEF HaveInv, AllUsable
<1> QED
  BY <1>1, <1>2, <1>3 DEF HaveInv, AllUsable

LEMMA BeginHave ==
    ASSUME TypeInv, EntInv, HaveInv, NEW c \in Callers, NEW op, NEW step,
           NEW e \in entities, NEW available \in BOOLEAN, CallKeeps,
           \/ op = "RemoveEntity" /\ (step = "set" \/ (useCases = {} /\ step = "remove"))
           \/ op \in UseCaseOps /\ step = "set",
           Begin(c, op, step, e, available, useCases),
           UNCHANGED <<entities, useCases, down>>
    PROVE  HaveInv'
<1>0. useCases \in Lists /\ entities \subseteq Entities /\ CallTypes
  BY DEF TypeInv, LocalTypes
<1>1. /\ Moves(c) /\ call[c] = NoCall /\ call'[c] \in CallStates
      /\ call'[c].op = op /\ call'[c].step = step /\ call'[c].entity = e
  BY <1>0, BeginMoves
<1>2. call'[c].op # "AddEntity"
  BY <1>1 DEF UseCaseOps
<1>3. \A x : Usable(x) => Usable(x)'
  BY <1>1, <1>2, UsableKept
<1>4. ASSUME lossy' = {}
      PROVE  Placed(call[c])'
  <2>1. "entities" \notin lossy' /\ "entities" \notin lossy
    BY <1>4 DEF CallKeeps
  <2>2. \A d \in Callers \ {c} : call[d] # NoCall => call[d].entity # e
    BY <1>1, <2>1, ApartBegins DEF EntInv
  <2>3. Usable(e)
    BY <1>1, <2>2, NoCallFields DEF Usable
  <2>4. Usable(e)'
    BY <1>3, <2>3
  <2>5. step # "set" => e \notin Of(useCases)
    BY EmptyLists DEF UseCaseOps
  <2> QED
    BY <1>1, <2>4, <2>5 DEF Placed, UseCaseOps
<1> QED
  BY <1>1, <1>3, <1>4, PlainHave

LEMMA SetHave ==
    ASSUME TypeInv, UseInv, HaveInv, NEW c \in Callers, SetUseCases(c), CallKeeps
    PROVE  HaveInv'
<1> SUFFICES ASSUME lossy' = {} PROVE HaveInv'
  BY DEF HaveInv
<1>0. PICK r : r = call[c]
  OBVIOUS
<1>1. /\ Moves(c) /\ r \in CallStates /\ call'[c] \in CallStates
      /\ r.step = "set" /\ call'[c].step = "notify"
      /\ call'[c].op = r.op /\ call'[c].entity = r.entity
      /\ r = NoCall \/ r.op = "AddEntity" => r.step # "set"
  BY <1>0, SetMoves, NoCallFields DEF TypeInv, CallTypes, IsCall
<1>2. /\ lossy = {} /\ UNCHANGED <<entities, down, reader, known, knownUseCases>>
      /\ useCases' = {Changed(r)}
  BY <1>0 DEF SetUseCases, CallKeeps
<1>3. /\ Alone /\ r.copy = useCases
      /\ AllUsable(useCases) /\ \A d \in Callers : Placed(call[d])
  BY <1>0, <1>1, <1>2 DEF UseInv, HaveInv, Alone
<1>4. \A e : Usable(e) => Usable(e)'
  BY <1>1, <1>2, UsableKept
<1>5. Of(useCases') = DOMAIN Changed(r)
  BY <1>1, <1>2, ChangedList, EmptyLists DEF Of
<1>6. ASSUME NEW e \in Of(useCases')
      PROVE  Usable(e)
  <2>1. CASE e \in Of(useCases)
    BY <1>3, <2>1 DEF AllUsable
  <2>2. CASE e \notin Of(useCases)
    <3>1. e = r.entity /\ r.op \in UseCaseOps
      BY <1>1, <1>3, <1>5, <1>6, <2>2, ChangedList
    <3> QED
      BY <1>0, <1>3, <3>1 DEF Placed
  <2> QED
    BY <2>1, <2>2
<1>7. Placed(call[c])'
  <2>1. r.op \in UseCaseOps => Usable(r.entity)'
    BY <1>0, <1>3, <1>4 DEF Placed
  <2>2. r.op = "RemoveEntity" => r.entity \notin Of(useCases')
    BY <1>1, <1>3, <1>5, ChangedList DEF UseCaseOps
  <2> QED
    BY <1>1, <2>1, <2>2 DEF Placed
<1>8. ASSUME NEW d \in Callers
      PROVE  Placed(call[d])'
  <2>1. CASE d = c
    BY <1>7, <2>1
  <2>2. CASE d # c
    <3>1. call'[d] = call[d] /\ Placed(call[d])
      BY <1>1, <1>3, <2>2 DEF Moves
    <3>2. Uses(r)
      BY <1>1, NoCallFields DEF Uses
    <3>3. call[d].op # "RemoveEntity"
      BY <1>0, <1>3, <2>2, <3>2 DEF Alone, Uses
    <3> QED
      BY <1>4, <3>1, <3>3 DEF Placed
  <2> QED
    BY <2>1, <2>2
<1>9. /\ reader'.kind = "useCasesReply" => AllUsable(reader.list)'
      /\ \E W : Word(down', knownUseCases', W) /\ AllUsable(W)'
      /\ AllUsable(useCases)'
  BY <1>2, <1>4, <1>6 DEF HaveInv, AllUsable
<1> QED
  BY <1>2, <1>8, <1>9 DEF HaveInv

LEMMA NotifyHave ==
    ASSUME TypeInv, EntInv, HaveInv, NEW c \in Callers, NotifyUseCases(c), CallKeeps
    PROVE  HaveInv'
<1> SUFFICES ASSUME lossy' = {} PROVE HaveInv'
  BY DEF HaveInv
<1>1. /\ Moves(c) /\ call[c] \in CallStates /\ call[c].step = "notify"
      /\ call[c].op # "RemoveEntity" => call'[c] = NoCall
      /\ call[c].op = "RemoveEntity" =>
            /\ call'[c].step = "remove"
            /\ call'[c].op = call[c].op /\ call'[c].entity = call[c].entity
  BY NotifyMoves DEF TypeInv
<1>2. /\ lossy = {} /\ UNCHANGED <<entities, useCases, reader, known, knownUseCases>>
      /\ down' = IF subscribed THEN Append(down, [kind |-> "useCases", list |-> useCases])
                 ELSE down
  BY DEF NotifyUseCases, CallKeeps, Notify
<1>3. /\ \A e : Usable(e) => Usable(e)'
  BY <1>1, <1>2, UsableKept, NoCallFields
<1>4. Placed(call[c])'
  <2>1. Placed(call[c])
    BY <1>2 DEF HaveInv
  <2> QED
    BY <1>1, <1>2, <2>1, NoCallFields DEF Placed, UseCaseOps
<1>5. CASE ~subscribed
  BY <1>1, <1>2, <1>3, <1>4, <1>5, PlainHave
<1>6. CASE subscribed
  <2>0. useCases \in Lists
    BY DEF TypeInv, LocalTypes
  <2>1. PICK m \in Notifications : m = [kind |-> "useCases", list |-> useCases]
    BY <2>0 DEF Notifications
  <2>2. /\ m \in DownMessages /\ Says(m) /\ ListOf(m) = useCases
        /\ down' = Append(down, m) /\ \A e : ~Removes(m, e)
    BY <1>2, <1>6, <2>1 DEF DownMessages, Says, ListOf, Removes
  <2>3. Word(down', knownUseCases, useCases)
    BY <2>2, WordSent
  <2>4. \A d \in Callers : Placed(call[d])'
    BY <1>1, <1>2, <1>3, <1>4, PlacedKept DEF HaveInv
  <2>5. ASSUME NEW e \in Of(useCases)
        PROVE  Will(down, DOMAIN known, e)
    <3>1. Usable(e) /\ e \in entities
      BY <1>2 DEF HaveInv, AllUsable, Usable
    <3>2. ~Late(e)
      BY <1>2, <3>1, UsableNotLate DEF EntInv
    <3> QED
      BY <1>2, <1>6, <3>1, <3>2 DEF EntInv
  <2>6. Ordered(down', DOMAIN known, knownUseCases)
    <3>1. PICK W : Word(down, knownUseCases, W)
      BY <1>2 DEF HaveInv
    <3>2. Ordered(down, DOMAIN known, knownUseCases)
      BY <1>2 DEF HaveInv
    <3> QED
      BY <2>2, <2>5, <3>1, <3>2, OrderedSent
  <2>7. /\ reader'.kind = "useCasesReply" => AllUsable(reader.list)'
        /\ AllUsable(useCases)'
    BY <1>2, <1>3 DEF HaveInv, AllUsable
  <2>8. \E W : Word(down', knownUseCases', W) /\ AllUsable(W)'
    BY <1>2, <2>3, <2>7 DEF AllUsable
  <2> QED
    BY <1>2, <2>4, <2>6, <2>7, <2>8 DEF HaveInv
<1> QED
  BY <1>5, <1>6

LEMMA RemoveHave ==
    ASSUME TypeInv, UseInv, HaveInv, NEW c \in Callers, RemoveFromList(c), CallKeeps
    PROVE  HaveInv'
<1> SUFFICES ASSUME lossy' = {} PROVE HaveInv'
  BY DEF HaveInv
<1>0. PICK x : x = call[c].entity
  OBVIOUS
<1>1. /\ Moves(c) /\ call[c] \in CallStates /\ call'[c] \in CallStates
      /\ call[c].step = "remove" /\ call'[c].step = "announce"
      /\ call[c].op = "RemoveEntity" /\ call'[c].op = "RemoveEntity"
      /\ call'[c].entity = x
  BY <1>0, RemoveMoves DEF TypeInv
<1>2. /\ lossy = {} /\ UNCHANGED <<useCases, reader, down, known, knownUseCases>>
      /\ entities' = entities \ {x}
  BY <1>0 DEF RemoveFromList, CallKeeps
<1>3. /\ Alone /\ Heard /\ AllUsable(useCases) /\ \A d \in Callers : Placed(call[d])
      /\ Ordered(down, DOMAIN known, knownUseCases)
  BY <1>2 DEF UseInv, HaveInv
<1>4. x \notin Of(useCases)
  BY <1>0, <1>1, <1>3 DEF Placed
<1>5. ASSUME NEW d \in Callers, Uses(call[d])
      PROVE  d = c
  BY <1>1, <1>3, <1>5 DEF Alone, Uses
<1>6. ~Notifying
  <2> SUFFICES ASSUME NEW d \in Callers, call[d].step = "notify" PROVE FALSE
    BY DEF Notifying
  <2>1. Uses(call[d])
    <3>1. IsCall(call[d])
      BY DEF TypeInv, CallTypes
    <3> QED
      BY <3>1, NoCallFields DEF IsCall, Uses
  <2> QED
    BY <1>1, <1>5, <2>1
<1>7. \A e : Usable(e) /\ e # x => Usable(e)'
  BY <1>1, <1>2 DEF Usable, Moves
<1>8. AllUsable(useCases)'
  BY <1>2, <1>3, <1>4, <1>7 DEF AllUsable
<1>9. reader'.kind = "useCasesReply" => AllUsable(reader.list)'
  BY <1>2, <1>3, <1>6, <1>8 DEF Heard, AllUsable
<1>10. \E W : Word(down', knownUseCases', W) /\ AllUsable(W)'
  <2>1. AllUsable({})'
    BY EmptyLists DEF AllUsable
  <2>2. Word(down, knownUseCases, useCases) \/ Word(down, knownUseCases, {})
    BY <1>3, <1>6 DEF Heard
  <2> QED
    BY <1>2, <1>8, <2>1, <2>2 DEF AllUsable
<1>11. ASSUME NEW d \in Callers
       PROVE  Placed(call[d])'
  <2>1. CASE d = c
    BY <1>1, <1>2, <1>4, <2>1 DEF Placed, UseCaseOps
  <2>2. CASE d # c
    <3>1. call'[d] = call[d] /\ ~Uses(call[d])
      BY <1>1, <1>5, <2>2 DEF Moves
    <3> QED
      BY <3>1 DEF Placed, Uses, UseCaseOps
  <2> QED
    BY <2>1, <2>2
<1> QED
  BY <1>2, <1>3, <1>8, <1>9, <1>10, <1>11 DEF HaveInv

LEMMA AnnounceHave ==
    ASSUME TypeInv, EntInv, HaveInv, NEW c \in Callers, Announce(c), CallKeeps
    PROVE  HaveInv'
<1> SUFFICES ASSUME lossy' = {} PROVE HaveInv'
  BY DEF HaveInv
<1>0. PICK x : x = call[c].entity
  OBVIOUS
<1>1. /\ Moves(c) /\ call[c] \in CallStates /\ call[c].step = "announce"
      /\ call[c].op \in {"AddEntity", "RemoveEntity"} /\ call'[c] = NoCall
      /\ x \in Entities
  BY <1>0, AnnounceMoves DEF TypeInv, CallStates
<1>2. /\ lossy = {} /\ UNCHANGED <<entities, useCases, reader, known, knownUseCases>>
      /\ down' = IF subscribed THEN Append(down, Announcement(call[c])) ELSE down
      /\ entities \subseteq Entities
  BY DEF Announce, CallKeeps, Notify, TypeInv, LocalTypes
<1>3. \A e : Usable(e) => Usable(e)'
  BY <1>1, <1>2, UsableKept, NoCallFields
<1>4. Placed(call[c])'
  BY <1>1, NoCallFields DEF Placed, UseCaseOps
<1>5. CASE ~subscribed
  BY <1>1, <1>2, <1>3, <1>4, <1>5, PlainHave
<1>6. CASE subscribed
  <2>0. /\ Announcement(call[c]) \in Notifications
        /\ call[c].op = "RemoveEntity" => x \notin entities
    BY <1>0, <1>1, <1>2 DEF Announcement, Notifications, EntInv, Held
  <2>1. PICK m \in Notifications : m = Announcement(call[c])
    BY <2>0
  <2>2. m \in DownMessages /\ ~Says(m) /\ down' = Append(down, m)
    BY <1>1, <1>2, <1>6, <2>1 DEF DownMessages, Says, Announcement
  <2>3. \A e : Removes(m, e) => e \notin entities
    BY <1>0, <1>1, <2>0, <2>1 DEF Announcement, Removes
  <2>4. \A d \in Callers : Placed(call[d])'
    BY <1>1, <1>2, <1>3, <1>4, PlacedKept DEF HaveInv
  <2>5. PICK W : Word(down, knownUseCases, W) /\ AllUsable(W)
    BY <1>2 DEF HaveInv
  <2>6. \A e \in Entities : Removes(m, e) => e \notin Of(W)
    BY <2>3, <2>5 DEF AllUsable, Usable
  <2>7. Ordered(down', DOMAIN known, knownUseCases)
    <3>1. Ordered(down, DOMAIN known, knownUseCases)
      BY <1>2 DEF HaveInv
    <3> QED
      BY <2>2, <2>5, <2>6, <3>1, OrderedSent
  <2>8. Word(down', knownUseCases, W)
    BY <2>2, <2>5, WordSent
  <2>9. /\ reader'.kind = "useCasesReply" => AllUsable(reader.list)'
        /\ AllUsable(useCases)' /\ AllUsable(W)'
    BY <1>2, <1>3, <2>5 DEF HaveInv, AllUsable
  <2> QED
    BY <1>2, <2>4, <2>7, <2>8, <2>9 DEF HaveInv
<1> QED
  BY <1>5, <1>6

LEMMA CallHave ==
    ASSUME TypeInv, EntInv, UseInv, HaveInv, NEW c \in Callers, CallStep(c)
    PROVE  HaveInv'
<1>0. CallKeeps /\ CallTypes /\ entities \subseteq Entities
  BY CallStepTypes DEF TypeInv, LocalTypes
<1>1. ASSUME NEW e \in Entities, AddEntity(c, e)
      PROVE  HaveInv'
  <2>1. /\ Begin(c, "AddEntity", "announce", e, FALSE, {})
        /\ entities' = entities \cup {e} /\ e \notin entities
        /\ useCases' = useCases /\ down' = down
    BY <1>1 DEF AddEntity
  <2>2. /\ Moves(c) /\ call'[c].op = "AddEntity" /\ call'[c].entity = e
    <3>0. PICK op, step : op = "AddEntity" /\ step = "announce"
      OBVIOUS
    <3>1. PICK copy \in Lists, available \in BOOLEAN :
             copy = {} /\ available = FALSE
      BY EmptyLists
    <3>2. Begin(c, op, step, e, available, copy)
      BY <2>1, <3>0, <3>1
    <3> QED
      BY <1>0, <3>0, <3>1, <3>2, BeginMoves
  <2>3. \A x : Usable(x) => Usable(x)'
    BY <2>1, <2>2, UsableKept
  <2>4. Placed(call[c])'
    BY <2>2 DEF Placed, UseCaseOps
  <2> QED
    BY <1>0, <2>1, <2>2, <2>3, <2>4, PlainHave
<1>3. ASSUME NEW e \in Entities, RemoveEntity(c, e)
      PROVE  HaveInv'
  <2>0. PICK op, step :
           /\ op = "RemoveEntity"
           /\ step = IF useCases = {} THEN "remove" ELSE "set"
    OBVIOUS
  <2>1. PICK available \in BOOLEAN : available = FALSE
    OBVIOUS
  <2>2. /\ Begin(c, op, step, e, available, useCases)
        /\ UNCHANGED <<entities, useCases, down>> /\ e \in entities
    BY <1>3, <2>0, <2>1 DEF RemoveEntity
  <2>3. op = "RemoveEntity" /\ (step = "set" \/ (useCases = {} /\ step = "remove"))
    BY <2>0
  <2> QED
    BY <1>0, <2>2, <2>3, BeginHave
<1>4. ASSUME NEW e \in Entities, NEW op \in UseCaseOps, NEW available \in BOOLEAN,
             CopyUseCases(c, op, e, available)
      PROVE  HaveInv'
  <2>1. PICK step : step = "set"
    OBVIOUS
  <2>2. /\ Begin(c, op, step, e, available, useCases)
        /\ UNCHANGED <<entities, useCases, down>> /\ e \in entities
    BY <1>4, <2>1 DEF CopyUseCases
  <2> QED
    BY <1>0, <2>1, <2>2, BeginHave
<1> QED
  BY <1>0, <1>1, <1>3, <1>4, SetHave, NotifyHave, RemoveHave, AnnounceHave, CallStepCases

LEMMA ReaderHave ==
    ASSUME TypeInv, StartInv, EntInv, HaveInv, ReaderStep
    PROVE  HaveInv'
<1> SUFFICES ASSUME lossy' = {} PROVE HaveInv'
  BY DEF HaveInv
<1>0. /\ UNCHANGED <<call, entities, useCases>> /\ lossy = {}
      /\ down \in Seq(DownMessages)
      /\ (reader = NoReply \/ reader \in Replies) /\ NoReply.kind = "none"
  BY ReaderKeeps, ReplyFields DEF TypeInv, LocalTypes, QueueTypes
<1>1. /\ AllUsable(useCases)
      /\ reader.kind = "useCasesReply" => AllUsable(reader.list)
      /\ \A c \in Callers : Placed(call[c])
      /\ Ordered(down, DOMAIN known, knownUseCases)
  BY <1>0 DEF HaveInv
<1>2. PICK W : Word(down, knownUseCases, W) /\ AllUsable(W)
  BY <1>0 DEF HaveInv
<1>3. \A e : Usable(e)' <=> Usable(e)
  BY <1>0 DEF Usable
<1>4. /\ AllUsable(useCases)' /\ AllUsable(W)' /\ \A c \in Callers : Placed(call[c])'
  BY <1>0, <1>1, <1>2, <1>3 DEF AllUsable, Placed
<1>5. CASE ReadDiscovery
  <2>1. /\ reader'.kind = "discoveryReply" /\ UNCHANGED <<down, known, knownUseCases>>
    BY <1>5 DEF ReadDiscovery
  <2> QED
    BY <1>1, <1>2, <1>4, <2>1 DEF HaveInv
<1>6. CASE ReadUseCases
  <2>1. /\ reader'.list = useCases /\ UNCHANGED <<down, known, knownUseCases>>
    BY <1>6 DEF ReadUseCases
  <2>2. AllUsable(reader.list)'
    BY <1>1, <1>3, <2>1 DEF AllUsable
  <2> QED
    BY <1>1, <1>2, <1>4, <2>1, <2>2 DEF HaveInv
<1>7. CASE SendReply
  <2>1. /\ reader \in Replies /\ down' = Append(down, reader) /\ reader' = NoReply
        /\ UNCHANGED <<known, knownUseCases>>
    BY <1>0, <1>7 DEF SendReply
  <2>2. /\ reader \in DownMessages /\ reader.kind \in {"discoveryReply", "useCasesReply"}
        /\ reader'.kind = "none"
    BY <2>1, ReplyFields
  <2>3. Says(reader) /\ Word(down', knownUseCases, ListOf(reader))
        /\ \A e : ~Removes(reader, e)
    BY <2>1, <2>2, WordSent DEF Says, Removes
  <2>4. AllUsable(ListOf(reader))
    BY <1>1, <2>2, EmptyLists DEF ListOf, AllUsable
  <2>5. ASSUME NEW e \in Of(ListOf(reader))
        PROVE  Will(down, DOMAIN known, e)
    <3>1. reader.kind = "useCasesReply"
      BY <2>2, EmptyLists DEF ListOf
    <3>2. Usable(e) /\ e \in entities /\ e \in Entities
      BY <2>4 DEF AllUsable, Usable, TypeInv, LocalTypes
    <3>3. ~Late(e)
      BY <1>0, <3>2, UsableNotLate DEF EntInv
    <3>4. answered
      BY <1>0, <3>1 DEF StartInv
    <3>5. ~InReply(reader, e)
      BY <3>1 DEF InReply
    <3> QED
      BY <1>0, <3>2, <3>3, <3>4, <3>5 DEF EntInv
  <2>6. Ordered(down', DOMAIN known, knownUseCases)
    BY <1>1, <1>2, <2>1, <2>2, <2>3, <2>5, OrderedSent
  <2>7. \E X : Word(down', knownUseCases', X) /\ AllUsable(X)'
    <3>1. PICK X : X = ListOf(reader)
      OBVIOUS
    <3>2. AllUsable(X)'
      BY <1>3, <2>4, <3>1 DEF AllUsable
    <3> QED
      BY <2>1, <2>3, <3>1, <3>2
  <2> QED
    BY <1>4, <2>1, <2>2, <2>6, <2>7 DEF HaveInv
<1>8. CASE AddSubscription \/ RequestDiscovery
  <2>1. UNCHANGED <<down, reader, known, knownUseCases>>
    BY <1>8 DEF AddSubscription, RequestDiscovery
  <2>2. reader'.kind = "useCasesReply" => AllUsable(reader.list)'
    BY <1>1, <1>3, <2>1 DEF AllUsable
  <2> QED
    BY <1>1, <1>2, <1>4, <2>1, <2>2 DEF HaveInv
<1>9. CASE HandleMessage
  <2>1. /\ reader' = reader /\ down # <<>> /\ down' = Tail(down)
        /\ knownUseCases' = IF Says(Head(down)) THEN ListOf(Head(down))
                            ELSE knownUseCases
        /\ \A e : e \in DOMAIN known' <=>
                  Adds(Head(down), e)
                  \/ (e \in DOMAIN known /\ ~Removes(Head(down), e))
    BY <1>9, HandleKnown DEF HandleMessage
  <2>2. Word(down', knownUseCases', W)
    BY <1>2, <2>1, WordHandled
  <2>3. Ordered(down', DOMAIN known', knownUseCases')
    BY <1>1, <2>1, OrderedHandled
  <2>4. reader'.kind = "useCasesReply" => AllUsable(reader.list)'
    BY <1>1, <1>3, <2>1 DEF AllUsable
  <2> QED
    BY <1>4, <2>2, <2>3, <2>4 DEF HaveInv
<1> QED
  BY <1>5, <1>6, <1>7, <1>8, <1>9 DEF ReaderStep

LEMMA StepHave ==
    TypeInv /\ StartInv /\ EntInv /\ UseInv /\ HaveInv /\ [Next]_vars => HaveInv'
<1> SUFFICES ASSUME TypeInv, StartInv, EntInv, UseInv, HaveInv, [Next]_vars PROVE HaveInv'
  OBVIOUS
<1>1. CASE UNCHANGED vars
  BY <1>1 DEF vars, HaveInv, AllUsable, Usable, Placed
<1> QED
  BY <1>1, CallHave, ReaderHave DEF Next, ReaderStep

LEMMA InitInv ==
    Init => TypeInv /\ ReadInv /\ StartInv /\ EntInv
            /\ ComingInv /\ UseInv /\ HaveInv
<1> SUFFICES ASSUME Init
             PROVE  TypeInv /\ ReadInv /\ StartInv /\ EntInv
                    /\ ComingInv /\ UseInv /\ HaveInv
  OBVIOUS
<1> USE DEF Init
<1>1. /\ known = Featured({}) /\ DOMAIN known = {} /\ knownUseCases = {}
      /\ {} \in Lists /\ Of({}) = {}
  BY EmptyLists DEF NoUseCases, Featured
<1>2. /\ \A c \in Callers : call[c] = NoCall /\ IsCall(call[c])
      /\ call = [c \in Callers |-> call[c]]
      /\ NoCall.op = "none" /\ NoCall.step = "idle" /\ NoReply.kind = "none"
  BY NoCallFields, ReplyFields
<1>3. /\ Ask("readDiscovery") \in UpMessages /\ up = <<Ask("readDiscovery")>>
      /\ down = <<>>
  BY AskMessages DEF Ask
<1>4. /\ up \in Seq(UpMessages) /\ DOMAIN up = {1} /\ up[1].kind = "readDiscovery"
      /\ down \in Seq(DownMessages) /\ DOMAIN down = {} /\ Len(down) = 0
  BY <1>3, AskMessages
<1>5. TypeInv
  <2>1. LocalTypes
    BY <1>1, StylesAssumption DEF LocalTypes
  <2>2. CallTypes
    BY <1>2, BoundsAssumption DEF CallTypes
  <2>3. QueueTypes
    BY <1>4 DEF QueueTypes
  <2>4. RemoteTypes
    BY <1>1, BoundsAssumption DEF RemoteTypes
  <2> QED
    BY <2>1, <2>2, <2>3, <2>4 DEF TypeInv
<1>6. ReadInv
  BY <1>2, <1>4 DEF ReadInv, One
<1>7. StartInv
  BY <1>1, <1>2, <1>4 DEF StartInv
<1>8. EntInv
  BY <1>2 DEF EntInv, Apart, Held
<1>9. ComingInv
  BY <1>4 DEF ComingInv, Coming
<1>10. Word(down, knownUseCases, {})
  BY <1>1, <1>4 DEF Word
<1>11. UseInv
  BY <1>2, <1>10 DEF UseInv, Alone, Heard, Uses
<1>12. HaveInv
  <2>1. AllUsable({}) /\ \A c \in Callers : Placed(call[c])
    BY <1>1, <1>2 DEF AllUsable, Placed, UseCaseOps
  <2>2. Ordered(down, DOMAIN known, knownUseCases)
    BY <1>1, <1>4 DEF Ordered
  <2> QED
    BY <1>2, <1>10, <2>1, <2>2 DEF HaveInv
<1> QED
  BY <1>5, <1>6, <1>7, <1>8, <1>9, <1>11, <1>12

-----------------------------------------------------------------------------
(* What the invariants say when nothing is under way.                      *)
LEMMA AtMostOne ==
    ASSUME NEW S, \A x, y \in S : x = y
    PROVE  /\ Cardinality(S) \in {0, 1}
           /\ Cardinality(S) = 1 => S # {}
<1>1. CASE S = {}
  BY <1>1, FS_EmptySet
<1>2. ASSUME NEW x \in S
      PROVE  Cardinality(S) = 1
  <2>1. S = {x}
    BY <1>2
  <2> QED
    BY <2>1, FS_Singleton
<1> QED
  BY <1>1, <1>2

LEMMA OneUnderWay ==
    ASSUME TypeInv, NEW read, NEW reply, NEW waits,
           One(up, reader, down, read, reply, waits)
    PROVE  UnderWay(read, reply) <= 1
<1> DEFINE A == {i \in 1..Len(up) : up[i].kind = read}
           B == {i \in 1..Len(down) : down[i].kind = reply}
<1>1. DOMAIN up = 1..Len(up) /\ DOMAIN down = 1..Len(down)
  BY DEF TypeInv, QueueTypes
<1>2. \A i, j \in A : i = j
  BY <1>1 DEF One
<1>3. \A i, j \in B : i = j
  BY <1>1 DEF One
<1>4. ~(A # {} /\ B # {})
  BY <1>1 DEF One
<1>5. reader.kind = reply => A = {} /\ B = {}
  BY <1>1 DEF One
<1>6. UnderWay(read, reply)
      = Cardinality(A) + Cardinality(B) + IF reader.kind = reply THEN 1 ELSE 0
  BY DEF UnderWay
<1> HIDE DEF A, B
<1>7. /\ Cardinality(A) \in {0, 1} /\ (Cardinality(A) = 1 => A # {})
      /\ Cardinality(B) \in {0, 1} /\ (Cardinality(B) = 1 => B # {})
  BY <1>2, <1>3, AtMostOne
<1> QED
  BY <1>4, <1>5, <1>6, <1>7

LEMMA TypesFollow == TypeInv /\ ReadInv => NodeTypeOK
<1> SUFFICES ASSUME TypeInv, ReadInv PROVE NodeTypeOK
  OBVIOUS
<1>1. ASSUME NEW lists \in Lists
      PROVE  lists \subseteq UseCaseLists /\ Cardinality(lists) <= 1
  <2>1. lists \subseteq UseCaseLists /\ \A x, y \in lists : x = y
    BY DEF Lists
  <2>2. Cardinality(lists) \in {0, 1}
    BY <2>1, AtMostOne
  <2> QED
    BY <2>1, <2>2
<1>2. /\ UnderWay("readDiscovery", "discoveryReply") <= 1
      /\ UnderWay("readUseCases", "useCasesReply") <= 1
  BY OneUnderWay DEF ReadInv
<1>3. /\ style \in Styles /\ entities \subseteq Entities
      /\ useCases \in Lists /\ knownUseCases \in Lists
      /\ DOMAIN known \subseteq Entities
      /\ subscribed \in BOOLEAN /\ answered \in BOOLEAN
      /\ calls \in 0..MaxCalls /\ reads \in 0..MaxReads
      /\ lossy \subseteq {"entities", "useCases"}
  BY DEF TypeInv, LocalTypes, CallTypes, RemoteTypes
<1> QED
  BY <1>1, <1>2, <1>3 DEF NodeTypeOK

LEMMA QuietFacts ==
    ASSUME TypeInv, StartInv, Quiet
    PROVE  /\ answered /\ \A e : ~Late(e) /\ ~InReply(reader, e)
           /\ ~Notifying /\ ~Coming(up, reader, down) /\ reader.kind = "none"
           /\ \A e : Will(down, DOMAIN known, e) <=> e \in DOMAIN known
           /\ \A L : Word(down, knownUseCases, L) => knownUseCases = L
<1>1. /\ \A c \in Callers : call[c].step = "idle"
      /\ reader.kind = "none" /\ up = <<>> /\ down = <<>>
      /\ DOMAIN up = {} /\ DOMAIN down = {} /\ Len(down) = 0
  BY NoCallFields, ReplyFields DEF Quiet
<1>2. answered
  <2>1. <<>> # <<[kind |-> "readDiscovery"]>>
    OBVIOUS
  <2> QED
    BY <1>1, <2>1 DEF StartInv
<1>3. /\ \A e : ~Late(e) /\ ~InReply(reader, e)
      /\ ~Notifying /\ ~Coming(up, reader, down)
  BY <1>1 DEF Late, IsLate, InReply, Notifying, Coming
<1>4. \A e : Will(down, DOMAIN known, e) <=> e \in DOMAIN known
  <2> SUFFICES ASSUME NEW e
               PROVE  Will(down, DOMAIN known, e) <=> e \in DOMAIN known
    OBVIOUS
  <2> QED
    BY <1>1, WillStart DEF Will
<1>5. \A L : Word(down, knownUseCases, L) => knownUseCases = L
  BY <1>1 DEF Word
<1> QED
  BY <1>1, <1>2, <1>3, <1>4, <1>5

LEMMA EntitiesFollows == TypeInv /\ StartInv /\ EntInv => EntitiesFollow
<1> SUFFICES ASSUME TypeInv, StartInv, EntInv, Quiet, "entities" \notin lossy
             PROVE  DOMAIN known = entities /\ \A e \in entities : known[e]
  BY DEF EntitiesFollow
<1>1. /\ entities \subseteq Entities /\ DOMAIN known \subseteq Entities
      /\ known = Featured(DOMAIN known)
  BY DEF TypeInv, LocalTypes, RemoteTypes
<1>2. \A e \in Entities : e \in entities <=> e \in DOMAIN known
  BY QuietFacts DEF EntInv
<1>3. \A e \in DOMAIN known : known[e]
  BY <1>1 DEF Featured
<1> QED
  BY <1>1, <1>2, <1>3

LEMMA UsesFollow == TypeInv /\ StartInv /\ UseInv => UseCasesFollow
<1> SUFFICES ASSUME TypeInv, StartInv, UseInv, Quiet, "useCases" \notin lossy
             PROVE  OnlyOf(knownUseCases) = OnlyOf(useCases)
  BY DEF UseCasesFollow
<1>1. knownUseCases = useCases
  BY QuietFacts DEF UseInv, Heard
<1> QED
  BY <1>1

LEMMA UsesHave == HaveInv => UseCasesHaveEntity
BY DEF HaveInv, Ordered, Of, UseCasesHaveEntity

LEMMA AllInv == Spec => [](TypeInv /\ ReadInv /\ StartInv /\ EntInv
                          /\ ComingInv /\ UseInv /\ HaveInv)
<1> DEFINE I == TypeInv /\ ReadInv /\ StartInv /\ EntInv
                /\ ComingInv /\ UseInv /\ HaveInv
<1>1. Init => I
  BY InitInv
<1>2. I /\ [Next]_vars => I'
  BY StepTypes, StepReads, StepStarts, StepEntities, StepComing, StepUses, StepHave
<1> QED
  BY <1>1, <1>2, PTL DEF Spec

(* The types, and at most one read of each kind under way: RequestCache's  *)
(* promise as the two devices see it, with the reader's reply counted.     *)
THEOREM NodeTypesCorrect == Spec => []NodeTypeOK
BY AllInv, TypesFollow, PTL

(* The discovering device ends up with the entities of the other one, each *)
(* with its features, whatever the order of calls, reads and replies.      *)
THEOREM EntitiesCorrect == Spec => []EntitiesFollow
BY AllInv, EntitiesFollows, PTL

(* The same of the use cases, those of before the subscription included.   *)
THEOREM UseCasesCorrect == Spec => []UseCasesFollow
BY AllInv, UsesFollow, PTL

(* No use case is ever known of an entity that is not: while no call meets *)
(* another, RemoveEntity takes the use cases back before the entity goes.  *)
THEOREM UseCasesPlaced == Spec => []UseCasesHaveEntity
BY AllInv, UsesHave, PTL
=============================================================================
