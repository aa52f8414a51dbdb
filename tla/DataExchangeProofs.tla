------------------------- MODULE DataExchangeProofs -------------------------
(***************************************************************************)
(* Theorems about the update of lists and the exchange of function data,   *)
(* for every list of the data model whose items have keys, any values, and *)
(* any number of calls and requests.                                       *)
(***************************************************************************)
EXTENDS DataExchange, FiniteSetTheorems, WellFoundedInduction, TLAPS

(* The schemas of the functions that Init chooses from.                    *)
KeysOf(t) == ItemsIn(t.keys)
FieldsOf(t) == {Rest} \cup t.check \cup KeysOf(t)
LastKey(t) == t.keys[Len(t.keys)]
IsSchema(t) ==
    /\ Len(t.keys) \in Nat /\ Len(t.keys) # 0
    /\ KeysOf(t) \cap t.check = {}
    /\ Rest \notin KeysOf(t) \cup t.check
    /\ t.ignored \cap FieldsOf(t) = {}
    /\ t.check # {} => t.ignored = {}

(* Items of a list, those that have all their keys and guards, and when    *)
(* two of them are told to be the same.                                    *)
Values == Int \cup BOOLEAN \cup RestValues \cup {Initially}
ItemsOf(t) ==
    {x \in UNION {[D -> Values] : D \in SUBSET FieldsOf(t)} :
        \A f \in KeysOf(t) \cap DOMAIN x :
            /\ x[f] \in Int
            /\ f # LastKey(t) => x[f] = 1}
Full(t) == {x \in ItemsOf(t) : KeysOf(t) \cup t.check \subseteq DOMAIN x}
SameKeys(t, x, y) == \A f \in KeysOf(t) : x[f] = y[f]

LEMMA ItemsHave ==
    ASSUME NEW t, NEW x \in ItemsOf(t)
    PROVE  /\ x = [f \in DOMAIN x |-> x[f]]
           /\ DOMAIN x \subseteq FieldsOf(t)
           /\ \A f \in DOMAIN x : x[f] \in Values
           /\ \A f \in KeysOf(t) \cap DOMAIN x :
                 /\ x[f] \in Int
                 /\ f # LastKey(t) => x[f] = 1
BY DEF ItemsOf

LEMMA ItemsAre ==
    ASSUME NEW t, NEW x, x = [f \in DOMAIN x |-> x[f]],
           DOMAIN x \subseteq FieldsOf(t),
           \A f \in DOMAIN x : x[f] \in Values,
           \A f \in KeysOf(t) \cap DOMAIN x :
               x[f] \in Int /\ (f # LastKey(t) => x[f] = 1)
    PROVE  x \in ItemsOf(t)
<1>1. x \in [DOMAIN x -> Values]
  OBVIOUS
<1>2. x \in UNION {[D -> Values] : D \in SUBSET FieldsOf(t)}
  BY <1>1
<1> QED
  BY <1>2 DEF ItemsOf

LEMMA OverItems ==
    ASSUME NEW t, NEW x \in ItemsOf(t), NEW y \in ItemsOf(t)
    PROVE  Over(x, y) \in ItemsOf(t)
<1>1. PICK z : z = Over(x, y)
  OBVIOUS
<1>2. /\ z = [f \in DOMAIN z |-> z[f]]
      /\ DOMAIN z = DOMAIN x \cup DOMAIN y
      /\ \A f \in DOMAIN x : z[f] = x[f]
      /\ \A f \in DOMAIN y \ DOMAIN x : z[f] = y[f]
  BY <1>1 DEF Over
<1>3. \A f \in DOMAIN z : z[f] \in Values
  BY <1>2, ItemsHave
<1>4. \A f \in KeysOf(t) \cap DOMAIN z :
          z[f] \in Int /\ (f # LastKey(t) => z[f] = 1)
  BY <1>2, ItemsHave
<1>5. DOMAIN z \subseteq FieldsOf(t)
  BY <1>2, ItemsHave
<1> QED
  BY <1>1, <1>2, <1>3, <1>4, <1>5, ItemsAre

LEMMA WithoutItems ==
    ASSUME NEW t, NEW x \in ItemsOf(t), NEW S
    PROVE  Without(x, S) \in ItemsOf(t)
<1>1. PICK z : z = Without(x, S)
  OBVIOUS
<1>2. /\ z = [f \in DOMAIN z |-> z[f]]
      /\ DOMAIN z = DOMAIN x \ S
      /\ \A f \in DOMAIN z : z[f] = x[f]
  BY <1>1 DEF Without
<1> QED
  BY <1>1, <1>2, ItemsHave, ItemsAre

(* The values of all keys tell items apart.                                *)
LEMMA HashOfFull ==
    ASSUME NEW t, IsSchema(t), NEW x \in Full(t)
    PROVE  hashKey(t, x) = [i \in 1..Len(t.keys) |-> x[t.keys[i]]]
<1>1. PICK l \in Nat : l = Len(t.keys)
  BY DEF IsSchema
<1> DEFINE known == {n \in 0..Len(t.keys) :
                        \A i \in 1..n : t.keys[i] \in DOMAIN x}
<1>2. \A i \in 1..l : t.keys[i] \in DOMAIN x
  BY <1>1 DEF Full, KeysOf, ItemsIn
<1>3. l \in known /\ \A m \in known : m <= l
  BY <1>1, <1>2
<1>4. \A n \in known : (\A m \in known : m <= n) => n = l
  BY <1>1, <1>3
<1> HIDE DEF known
<1>5. (CHOOSE n \in known : \A m \in known : m <= n) = l
  BY <1>3, <1>4
<1> QED
  BY <1>1, <1>5 DEF hashKey, known

LEMMA HashOfItems ==
    ASSUME NEW t, IsSchema(t), NEW x \in Full(t), NEW y \in Full(t)
    PROVE  hashKey(t, x) = hashKey(t, y) <=> SameKeys(t, x, y)
<1>1. PICK l \in Nat : l = Len(t.keys)
  BY DEF IsSchema
<1>2. PICK k : k = t.keys
  OBVIOUS
<1>3. /\ hashKey(t, x) = [i \in 1..l |-> x[k[i]]]
      /\ hashKey(t, y) = [i \in 1..l |-> y[k[i]]]
  BY <1>1, <1>2, HashOfFull
<1>4. SameKeys(t, x, y) <=> \A i \in 1..l : x[k[i]] = y[k[i]]
  BY <1>1, <1>2 DEF SameKeys, KeysOf, ItemsIn
<1>5. [i \in 1..l |-> x[k[i]]] = [i \in 1..l |-> y[k[i]]]
      <=> \A i \in 1..l : x[k[i]] = y[k[i]]
  <2>1. \A i \in 1..l : /\ [j \in 1..l |-> x[k[j]]][i] = x[k[i]]
                        /\ [j \in 1..l |-> y[k[j]]][i] = y[k[i]]
    OBVIOUS
  <2> QED
    BY <2>1
<1> QED
  BY <1>3, <1>4, <1>5

-----------------------------------------------------------------------------
(* Induction over the naturals, for sets, which the provers can be told.   *)
LEMMA LeastNatural ==
    ASSUME NEW S, S \subseteq Nat, S # {}
    PROVE  \E x \in S : \A y \in S : x <= y
<1> DEFINE R == OpToRel(<, Nat)
<1>1. IsWellFoundedOn(R, Nat)
  BY NatLessThanWellFounded
<1>2. \A x, y \in Nat : x < y => <<x, y>> \in R
  BY DEF OpToRel
<1> HIDE DEF R
<1>3. PICK x \in S : \A y \in S : <<y, x>> \notin R
  BY <1>1, WFMin, Zenon
<1>4. \A y \in S : x \in Nat /\ y \in Nat /\ ~(y < x)
  BY <1>2, <1>3
<1> QED
  BY <1>3, <1>4

LEMMA SetInduction ==
    ASSUME NEW S, 0 \in S, \A n \in Nat : n \in S => n + 1 \in S
    PROVE  \A n \in Nat : n \in S
<1> SUFFICES ASSUME Nat \ S # {} PROVE FALSE
  OBVIOUS
<1>1. PICK x \in Nat \ S : \A y \in Nat \ S : x <= y
  BY LeastNatural
<1>2. x - 1 \in Nat /\ x - 1 \in S
  BY <1>1
<1> QED
  BY <1>1, <1>2

(* One step of KeptOf, and its table up to an index.                       *)
KeepStep(s, S, k, m) ==
    IF m = 0 THEN <<>>
    ELSE IF s[m] \in S THEN Append(k[m - 1], s[m])
    ELSE k[m - 1]
KeepTable(s, S, k, n) == k = [m \in 0..n |-> KeepStep(s, S, k, m)]

LEMMA TableExists ==
    ASSUME NEW s, NEW S, NEW n \in Nat
    PROVE  \E k : KeepTable(s, S, k, n)
<1> DEFINE Good == {m \in Nat : \E k : KeepTable(s, S, k, m)}
<1>1. 0 \in Good
  <2>1. KeepTable(s, S, [m \in 0..0 |-> <<>>], 0)
    BY DEF KeepTable, KeepStep
  <2> QED
    BY <2>1
<1>2. ASSUME NEW m \in Nat, m \in Good
      PROVE  m + 1 \in Good
  <2>1. PICK k : KeepTable(s, S, k, m)
    BY <1>2
  <2> DEFINE e == [j \in 0..m + 1 |->
                      IF j \in 0..m THEN k[j] ELSE KeepStep(s, S, k, j)]
  <2>2. \A j \in 0..m + 1 : j - 1 \in 0..m \/ j = 0
    OBVIOUS
  <2>3. \A j \in 0..m + 1 : e[j] = KeepStep(s, S, k, j)
    BY <2>1 DEF KeepTable
  <2>4. \A j \in 0..m : e[j] = k[j]
    OBVIOUS
  <2>5. \A j \in 0..m + 1 : KeepStep(s, S, e, j) = KeepStep(s, S, k, j)
    BY <2>2, <2>4 DEF KeepStep
  <2>6. e = [j \in 0..m + 1 |-> e[j]]
    OBVIOUS
  <2> HIDE DEF e
  <2>7. e = [j \in 0..m + 1 |-> KeepStep(s, S, e, j)]
    BY <2>3, <2>5, <2>6
  <2>8. KeepTable(s, S, e, m + 1)
    BY <2>7 DEF KeepTable
  <2> QED
    BY <2>8
<1> HIDE DEF Good
<1>3. n \in Good
  BY <1>1, <1>2, SetInduction
<1> QED
  BY <1>3 DEF Good

LEMMA KeptTable ==
    ASSUME NEW s, NEW S, NEW n \in Nat, Len(s) = n
    PROVE  \E k : KeepTable(s, S, k, n) /\ KeptOf(s, S) = k[n]
<1> DEFINE T(f) == f = [m \in 0..n |->
            IF m = 0 THEN <<>>
            ELSE IF s[m] \in S THEN Append(f[m - 1], s[m]) ELSE f[m - 1]]
<1>1. PICK k : k = CHOOSE f : T(f)
  OBVIOUS
<1>2. KeptOf(s, S) = k[n]
  BY <1>1, Zenon DEF KeptOf
<1>3. \E f : T(f)
  <2>1. PICK g : KeepTable(s, S, g, n)
    BY TableExists
  <2>2. T(g)
    BY <2>1, Zenon DEF KeepTable, KeepStep
  <2> QED
    BY <2>2, Zenon
<1>4. T(k)
  BY <1>1, <1>3, Zenon
<1>5. KeepTable(s, S, k, n)
  BY <1>4, Zenon DEF KeepTable, KeepStep
<1> QED
  BY <1>2, <1>5

(* Where the items come from that KeptOf keeps: all places of such items,  *)
(* in their order.                                                         *)
Placed(s, S, m, list, g) ==
    /\ \A i \in 1..Len(list) : /\ g[i] \in 1..m /\ s[g[i]] \in S
                               /\ list[i] = s[g[i]]
    /\ \A i, j \in 1..Len(list) : i < j => g[i] < g[j]
    /\ \A j \in 1..m : s[j] \in S => \E i \in 1..Len(list) : g[i] = j

LEMMA KeptPlaces ==
    ASSUME NEW T, NEW s \in Seq(T), NEW S
    PROVE  /\ KeptOf(s, S) \in Seq(T)
           /\ \E g : Placed(s, S, Len(s), KeptOf(s, S), g)
<1>1. PICK n \in Nat : n = Len(s) /\ DOMAIN s = 1..n
  OBVIOUS
<1>2. PICK k : KeepTable(s, S, k, n) /\ KeptOf(s, S) = k[n]
  BY <1>1, KeptTable
<1> DEFINE Fine(m) == k[m] \in Seq(T) /\ \E g : Placed(s, S, m, k[m], g)
<1> DEFINE Good == {m \in Nat : m <= n => Fine(m)}
<1>3. 0 \in Good
  <2>1. k[0] = <<>>
    BY <1>2 DEF KeepTable, KeepStep
  <2>2. <<>> \in Seq(T) /\ Len(<<>>) = 0
    OBVIOUS
  <2>3. Placed(s, S, 0, <<>>, <<>>)
    BY <2>2 DEF Placed
  <2>4. Fine(0)
    BY <2>1, <2>2, <2>3
  <2> QED
    BY <2>4
<1>4. ASSUME NEW m \in Nat, m \in Good
      PROVE  m + 1 \in Good
  <2> SUFFICES ASSUME m + 1 <= n
               PROVE  /\ k[m + 1] \in Seq(T)
                      /\ \E g : Placed(s, S, m + 1, k[m + 1], g)
    OBVIOUS
  <2>1. k[m] \in Seq(T) /\ \E g : Placed(s, S, m, k[m], g)
    BY <1>4
  <2>2. m + 1 \in 0..n /\ m + 1 # 0 /\ m + 1 - 1 = m
    BY <1>4
  <2>3. k[m + 1] = IF s[m + 1] \in S THEN Append(k[m], s[m + 1]) ELSE k[m]
    <3>1. k[m + 1] = KeepStep(s, S, k, m + 1)
      BY <1>2, <2>2 DEF KeepTable
    <3> QED
      BY <2>2, <3>1 DEF KeepStep
  <2>4. PICK x \in T : x = s[m + 1]
    BY <1>1
  <2>5. PICK p \in Seq(T) : p = k[m]
    BY <2>1
  <2>6. PICK g : Placed(s, S, m, p, g)
    BY <2>1, <2>5
  <2>7. \A j \in 1..m + 1 : j \in 1..m \/ j = m + 1
    OBVIOUS
  <2>8. CASE x \in S
    <3>1. PICK l \in Nat : l = Len(p)
      OBVIOUS
    <3>2. PICK q : q = Append(p, x)
      OBVIOUS
    <3>3. /\ Len(q) = l + 1 /\ q \in Seq(T)
          /\ \A i \in 1..l : q[i] = p[i]
          /\ q[l + 1] = x
      BY <3>1, <3>2
    <3>4. PICK h : h = [i \in 1..l + 1 |-> IF i = l + 1 THEN m + 1 ELSE g[i]]
      OBVIOUS
    <3>5. \A i \in 1..l : h[i] = g[i] /\ h[i] \in 1..m
      BY <2>6, <3>1, <3>4 DEF Placed
    <3>6. h[l + 1] = m + 1
      BY <3>4
    <3>7. \A i \in 1..l + 1 : i \in 1..l \/ i = l + 1
      OBVIOUS
    <3>8. ASSUME NEW i \in 1..l + 1
          PROVE  h[i] \in 1..m + 1 /\ s[h[i]] \in S /\ q[i] = s[h[i]]
      <4>1. CASE i \in 1..l
        <5>1. g[i] \in 1..m /\ s[g[i]] \in S /\ p[i] = s[g[i]]
          BY <2>6, <3>1, <4>1 DEF Placed
        <5> QED
          BY <3>3, <3>5, <4>1, <5>1
      <4>2. CASE i = l + 1
        BY <2>4, <2>8, <3>3, <3>6, <4>2
      <4> QED
        BY <3>7, <4>1, <4>2
    <3>9. \A i, j \in 1..l + 1 : i < j => h[i] < h[j]
      <4> SUFFICES ASSUME NEW i \in 1..l + 1, NEW j \in 1..l + 1, i < j
                   PROVE  h[i] < h[j]
        OBVIOUS
      <4>1. i \in 1..l
        OBVIOUS
      <4>2. CASE j = l + 1
        BY <3>5, <3>6, <4>1, <4>2
      <4>3. CASE j \in 1..l
        BY <2>6, <3>1, <3>5, <4>1, <4>3 DEF Placed
      <4> QED
        BY <3>7, <4>2, <4>3
    <3>10. \A j \in 1..m + 1 : s[j] \in S => \E i \in 1..l + 1 : h[i] = j
      <4> SUFFICES ASSUME NEW j \in 1..m + 1, s[j] \in S
                   PROVE  \E i \in 1..l + 1 : h[i] = j
        OBVIOUS
      <4>1. CASE j = m + 1
        <5>1. l + 1 \in 1..l + 1
          BY <3>1
        <5> QED
          BY <3>6, <4>1, <5>1
      <4>2. CASE j \in 1..m
        <5>1. PICK i \in 1..l : g[i] = j
          BY <2>6, <3>1, <4>2 DEF Placed
        <5> QED
          BY <3>5, <5>1
      <4> QED
        BY <2>7, <4>1, <4>2
    <3>11. Placed(s, S, m + 1, q, h)
      BY <3>3, <3>8, <3>9, <3>10 DEF Placed
    <3> QED
      BY <2>3, <2>4, <2>5, <2>8, <3>2, <3>3, <3>11
  <2>9. CASE x \notin S
    <3>1. s[m + 1] \notin S
      BY <2>4, <2>9
    <3>2. \A i \in 1..m : i \in 1..m + 1
      OBVIOUS
    <3>3. \A i \in 1..Len(p) : /\ g[i] \in 1..m + 1 /\ s[g[i]] \in S
                               /\ p[i] = s[g[i]]
      BY <2>6, <3>2 DEF Placed
    <3>4. \A j \in 1..m + 1 : s[j] \in S => \E i \in 1..Len(p) : g[i] = j
      BY <2>6, <2>7, <3>1 DEF Placed
    <3>5. Placed(s, S, m + 1, p, g)
      BY <2>6, <3>3, <3>4 DEF Placed
    <3> QED
      BY <2>3, <2>4, <2>5, <2>9, <3>5
  <2> QED
    BY <2>8, <2>9
<1> HIDE DEF Good
<1>5. n \in Good
  BY <1>1, <1>3, <1>4, SetInduction
<1> QED
  BY <1>1, <1>2, <1>5 DEF Good

-----------------------------------------------------------------------------
(* Sorting.  The places of a strict total order are 1 to n.                *)
Before(B, n, i) == {j \in 1..n : j # i /\ <<j, i>> \in B}
Place(B, n, i) == 1 + Cardinality(Before(B, n, i))
Ranked(B, n) ==
    \A i, j, k \in 1..n :
        /\ i # j => <<i, j>> \in B \/ <<j, i>> \in B
        /\ ~(<<i, j>> \in B /\ <<j, i>> \in B)
        /\ <<i, j>> \in B /\ <<j, k>> \in B => <<i, k>> \in B

LEMMA RankGrows ==
    ASSUME NEW n \in Nat, NEW B, Ranked(B, n),
           NEW i \in 1..n, NEW j \in 1..n, <<i, j>> \in B
    PROVE  /\ Cardinality(Before(B, n, i)) \in Nat
           /\ Cardinality(Before(B, n, j)) \in Nat
           /\ Cardinality(Before(B, n, i)) < Cardinality(Before(B, n, j))
<1>1. PICK P : P = Before(B, n, i)
  OBVIOUS
<1>2. PICK Q : Q = Before(B, n, j)
  OBVIOUS
<1>3. IsFiniteSet(1..n) /\ P \subseteq 1..n /\ Q \subseteq 1..n
  <2>1. n \in Int /\ 1 \in Int
    OBVIOUS
  <2>2. IsFiniteSet(1..n)
    BY <2>1, FS_Interval
  <2> QED
    BY <1>1, <1>2, <2>2 DEF Before
<1>4. IsFiniteSet(P) /\ IsFiniteSet(Q)
  BY <1>3, FS_Subset
<1>5. P \subseteq Q
  <2> SUFFICES ASSUME NEW m \in P PROVE m \in Q
    OBVIOUS
  <2>1. m \in 1..n /\ <<m, i>> \in B
    BY <1>1 DEF Before
  <2>2. <<m, j>> \in B
    BY <2>1 DEF Ranked
  <2>3. m # j
    BY <2>1 DEF Ranked
  <2> QED
    BY <1>2, <2>1, <2>2, <2>3 DEF Before
<1>6. i \in Q /\ i \notin P
  <2>1. i # j
    BY DEF Ranked
  <2> QED
    BY <1>1, <1>2, <2>1 DEF Before
<1>7. P # Q
  BY <1>6
<1>8. Cardinality(P) <= Cardinality(Q) /\ Cardinality(P) # Cardinality(Q)
  BY <1>4, <1>5, <1>7, FS_Subset
<1>9. Cardinality(P) \in Nat /\ Cardinality(Q) \in Nat
  BY <1>4, FS_CardinalityType
<1> QED
  BY <1>1, <1>2, <1>8, <1>9

LEMMA RanksAre ==
    ASSUME NEW n \in Nat, NEW B, Ranked(B, n)
    PROVE  \A i \in 1..n :
              /\ Place(B, n, i) \in 1..n
              /\ \A j \in 1..n :
                    Place(B, n, i)
                        = Place(B, n, j) => i = j
<1>1. ASSUME NEW i \in 1..n
      PROVE  Place(B, n, i) \in 1..n
  <2>1. PICK P : P = Before(B, n, i)
    OBVIOUS
  <2>2. IsFiniteSet(1..n) /\ Cardinality(1..n) = n /\ P \subseteq 1..n
    BY <2>1, FS_Interval DEF Before
  <2>3. i \notin P
    BY <2>1 DEF Before
  <2>4. IsFiniteSet(P) /\ Cardinality(P) <= n
    BY <2>2, FS_Subset
  <2>5. P # 1..n
    BY <2>3
  <2>6. Cardinality(P) # n
    BY <2>2, <2>5, FS_Subset
  <2>7. Cardinality(P) \in Nat
    BY <2>4, FS_CardinalityType
  <2> QED
    BY <2>1, <2>4, <2>6, <2>7 DEF Place
<1>2. ASSUME NEW i \in 1..n, NEW j \in 1..n,
             Place(B, n, i)
                 = Place(B, n, j)
      PROVE  i = j
  <2>1. PICK a : a = Cardinality(Before(B, n, i))
    OBVIOUS
  <2>2. PICK b : b = Cardinality(Before(B, n, j))
    OBVIOUS
  <2> SUFFICES ASSUME i # j PROVE FALSE
    OBVIOUS
  <2>4. CASE <<i, j>> \in B
    <3>1. a \in Nat /\ b \in Nat /\ a < b
      BY <2>1, <2>2, <2>4, RankGrows
    <3> QED
      BY <1>2, <2>1, <2>2, <3>1 DEF Place
  <2>5. CASE <<j, i>> \in B
    <3>1. a \in Nat /\ b \in Nat /\ b < a
      BY <2>1, <2>2, <2>5, RankGrows
    <3> QED
      BY <1>2, <2>1, <2>2, <3>1 DEF Place
  <2> QED
    BY <2>4, <2>5 DEF Ranked
<1> QED
  BY <1>1, <1>2

LEMMA RanksOnto ==
    ASSUME NEW n \in Nat, NEW B, Ranked(B, n), NEW m \in 1..n
    PROVE  \E i \in 1..n : Place(B, n, i) = m
<1>1. PICK f : f = [i \in 1..n |-> Place(B, n, i)]
  OBVIOUS
<1>2. f \in [1..n -> 1..n]
  BY <1>1, RanksAre
<1>3. \A i, j \in 1..n : f[i] = f[j] => i = j
  BY <1>1, RanksAre
<1>4. f \in Injection(1..n, 1..n)
  BY <1>2, <1>3 DEF Injection, IsInjective
<1>5. IsFiniteSet(1..n)
  BY FS_Interval
<1>6. f \in Surjection(1..n, 1..n)
  BY <1>4, <1>5, FS_Injection
<1>7. \E i \in 1..n : f[i] = m
  BY <1>6 DEF Surjection
<1> QED
  BY <1>1, <1>7

(* SortedBefore compares items that have their keys by the keys in front   *)
(* of the first one it does not look at.                                   *)
Lex(t, l, k, a, b, i) ==
    /\ \A j \in 1..i : k[j] \notin t.unsorted
    /\ \A j \in 1..(i - 1) : a[k[j]] = b[k[j]]
    /\ a[k[i]] < b[k[i]]

LEMMA SortedIs ==
    ASSUME NEW t, IsSchema(t), NEW a \in Full(t), NEW b \in Full(t),
           NEW l, l = Len(t.keys), NEW k, k = t.keys
    PROVE  /\ l \in Nat
           /\ \A i \in 1..l : a[k[i]] \in Int /\ b[k[i]] \in Int
           /\ SortedBefore(t, a, b) <=> \E i \in 1..l : Lex(t, l, k, a, b, i)
<1>1. l \in Nat
  BY DEF IsSchema
<1>2. \A i \in 1..l : k[i] \in DOMAIN a \cap DOMAIN b /\ k[i] \in KeysOf(t)
  BY DEF Full, KeysOf, ItemsIn
<1>3. \A i \in 1..l : a[k[i]] \in Int /\ b[k[i]] \in Int
  BY <1>2, ItemsHave DEF Full
<1>4. \A i \in 1..l : \A j \in 1..i : j \in 1..l
  BY <1>1
<1>5. SortedBefore(t, a, b) <=> \E i \in 1..l : Lex(t, l, k, a, b, i)
  BY <1>2, <1>4 DEF SortedBefore, Lex
<1> QED
  BY <1>1, <1>3, <1>5

LEMMA SortedAsymmetric ==
    ASSUME NEW t, IsSchema(t), NEW a \in Full(t), NEW b \in Full(t),
           SortedBefore(t, a, b), SortedBefore(t, b, a)
    PROVE  FALSE
<1>1. PICK l \in Nat : l = Len(t.keys)
  BY DEF IsSchema
<1>2. PICK k : k = t.keys
  OBVIOUS
<1>3. PICK i \in 1..l : Lex(t, l, k, a, b, i)
  BY <1>1, <1>2, SortedIs
<1>4. PICK j \in 1..l : Lex(t, l, k, b, a, j)
  BY <1>1, <1>2, SortedIs
<1>5. \A m \in 1..l : a[k[m]] \in Int /\ b[k[m]] \in Int
  BY <1>1, <1>2, SortedIs
<1>6. i < j => i \in 1..(j - 1)
  OBVIOUS
<1>7. j < i => j \in 1..(i - 1)
  OBVIOUS
<1>8. ~(i < j)
  BY <1>3, <1>4, <1>5, <1>6 DEF Lex
<1>9. ~(j < i)
  BY <1>3, <1>4, <1>5, <1>7 DEF Lex
<1>10. i = j
  BY <1>8, <1>9
<1> QED
  BY <1>3, <1>4, <1>5, <1>10 DEF Lex

LEMMA SortedBetween ==
    ASSUME NEW t, IsSchema(t), NEW a \in Full(t), NEW b \in Full(t),
           NEW c \in Full(t), SortedBefore(t, a, c)
    PROVE  SortedBefore(t, a, b) \/ SortedBefore(t, b, c)
<1>1. PICK l \in Nat : l = Len(t.keys)
  BY DEF IsSchema
<1>2. PICK k : k = t.keys
  OBVIOUS
<1>3. PICK i \in 1..l : Lex(t, l, k, a, c, i)
  BY <1>1, <1>2, SortedIs
<1>4. \A m \in 1..l : a[k[m]] \in Int /\ b[k[m]] \in Int /\ c[k[m]] \in Int
  BY <1>1, <1>2, SortedIs
<1> DEFINE D == {m \in 1..i : a[k[m]] # b[k[m]]}
<1>5. CASE D = {}
  <2>1. \A m \in 1..i : a[k[m]] = b[k[m]]
    BY <1>5
  <2>2. \A m \in 1..(i - 1) : m \in 1..i
    OBVIOUS
  <2>3. i \in 1..i
    OBVIOUS
  <2>4. Lex(t, l, k, b, c, i)
    BY <1>3, <2>1, <2>2, <2>3 DEF Lex
  <2> QED
    BY <1>1, <1>2, <2>4, SortedIs
<1>6. CASE D # {}
  <2>1. PICK d \in D : \A m \in D : d <= m
    <3>1. D \subseteq Nat
      OBVIOUS
    <3> QED
      BY <1>6, <3>1, LeastNatural
  <2>2. d \in 1..i /\ a[k[d]] # b[k[d]] /\ d \in 1..l
    BY <2>1
  <2>3. \A m \in 1..(d - 1) :
            m \in 1..i /\ m \in 1..(i - 1) /\ a[k[m]] = b[k[m]]
    <3>1. \A m \in 1..(d - 1) : m \in 1..i /\ m \in 1..(i - 1) /\ ~(d <= m)
      BY <2>2
    <3> QED
      BY <2>1, <3>1
  <2>4. \A m \in 1..d : m \in 1..i
    BY <2>2
  <2>5. d = i \/ d \in 1..(i - 1)
    BY <2>2
  <2>6. CASE a[k[d]] < b[k[d]]
    <3>1. Lex(t, l, k, a, b, d)
      BY <1>3, <2>3, <2>4, <2>6 DEF Lex
    <3> QED
      BY <1>1, <1>2, <2>2, <3>1, SortedIs
  <2>7. CASE b[k[d]] < a[k[d]]
    <3>1. \A m \in 1..(d - 1) : b[k[m]] = c[k[m]]
      BY <1>3, <2>3 DEF Lex
    <3>2. a[k[d]] <= c[k[d]]
      BY <1>3, <1>4, <2>2, <2>5 DEF Lex
    <3>3. b[k[d]] < c[k[d]]
      BY <1>4, <2>2, <2>7, <3>2
    <3>4. Lex(t, l, k, b, c, d)
      BY <1>3, <2>4, <3>1, <3>3 DEF Lex
    <3> QED
      BY <1>1, <1>2, <2>2, <3>4, SortedIs
  <2> QED
    BY <1>4, <2>2, <2>6, <2>7
<1> QED
  BY <1>5, <1>6

(* SortData moves the items of a list, and no more.                        *)
Permutes(p, n) ==
    /\ p \in [1..n -> 1..n]
    /\ \A i, j \in 1..n : p[i] = p[j] => i = j
    /\ \A j \in 1..n : \E i \in 1..n : p[i] = j

LEMMA SortMoves ==
    ASSUME NEW t, IsSchema(t), NEW list \in Seq(Full(t)),
           NEW n, n = Len(list)
    PROVE  \E p : /\ Permutes(p, n)
                  /\ SortData(t, list) = [i \in 1..n |-> list[p[i]]]
<1>1. n \in Nat /\ n = Len(list)
  OBVIOUS
<1>2. \A i \in 1..n : list[i] \in Full(t)
  BY <1>1
<1> DEFINE before(i, j) == \/ SortedBefore(t, list[i], list[j])
                           \/ i < j /\ ~SortedBefore(t, list[j], list[i])
           B == {p \in (1..n) \X (1..n) : before(p[1], p[2])}
           place(i) == 1 + Cardinality({j \in 1..n : j # i /\ before(j, i)})
<1>3. \A i, j \in 1..n : <<i, j>> \in B <=> before(i, j)
  OBVIOUS
<1>4. \A i, j, k \in 1..n :
          /\ SortedBefore(t, list[i], list[j])
                 => ~SortedBefore(t, list[j], list[i])
          /\ SortedBefore(t, list[i], list[k])
                 => \/ SortedBefore(t, list[i], list[j])
                    \/ SortedBefore(t, list[j], list[k])
  BY <1>2, SortedAsymmetric, SortedBetween
<1>5. Ranked(B, n)
  <2>1. ASSUME NEW i \in 1..n, NEW j \in 1..n, NEW k \in 1..n
        PROVE  /\ i # j => before(i, j) \/ before(j, i)
               /\ ~(before(i, j) /\ before(j, i))
               /\ before(i, j) /\ before(j, k) => before(i, k)
    <3>1. i # j => i < j \/ j < i
      OBVIOUS
    <3>2. ~(i < j /\ j < i) /\ (i < j /\ j < k => i < k)
      OBVIOUS
    <3> QED
      BY <1>4, <3>1, <3>2
  <2> HIDE DEF before, B
  <2>2. ASSUME NEW i \in 1..n, NEW j \in 1..n, NEW k \in 1..n
        PROVE  /\ i # j => <<i, j>> \in B \/ <<j, i>> \in B
               /\ ~(<<i, j>> \in B /\ <<j, i>> \in B)
               /\ <<i, j>> \in B /\ <<j, k>> \in B => <<i, k>> \in B
    <3>1. /\ <<i, j>> \in B <=> before(i, j)
          /\ <<j, i>> \in B <=> before(j, i)
          /\ <<j, k>> \in B <=> before(j, k)
          /\ <<i, k>> \in B <=> before(i, k)
      BY <1>3
    <3>2. /\ i # j => before(i, j) \/ before(j, i)
          /\ ~(before(i, j) /\ before(j, i))
          /\ before(i, j) /\ before(j, k) => before(i, k)
      BY <2>1
    <3> QED
      BY Zenon, <3>1, <3>2
  <2> QED
    BY Zenon, <2>2 DEF Ranked
<1>6. \A i \in 1..n : place(i) = Place(B, n, i)
  <2> SUFFICES ASSUME NEW i \in 1..n
               PROVE  {j \in 1..n : j # i /\ before(j, i)} = Before(B, n, i)
    BY DEF Place
  <2> QED
    BY <1>3 DEF Before
<1>7. SortData(t, list)
        = [m \in 1..n |-> list[CHOOSE i \in 1..n : place(i) = m]]
  BY <1>1 DEF SortData
<1> HIDE DEF before, B, place
<1>8. \A i \in 1..n : /\ place(i) \in 1..n
                      /\ \A j \in 1..n : place(i) = place(j) => i = j
  BY <1>5, <1>6, RanksAre
<1>9. \A m \in 1..n : \E i \in 1..n : place(i) = m
  <2> SUFFICES ASSUME NEW m \in 1..n PROVE \E i \in 1..n : place(i) = m
    OBVIOUS
  <2>1. PICK i \in 1..n : Place(B, n, i) = m
    BY <1>5, RanksOnto
  <2> QED
    BY <1>6, <2>1
<1>10. PICK p : p = [m \in 1..n |-> CHOOSE i \in 1..n : place(i) = m]
  OBVIOUS
<1>11. \A m \in 1..n : p[m] \in 1..n /\ place(p[m]) = m
  BY <1>9, <1>10
<1>12. p \in [1..n -> 1..n]
  BY <1>10, <1>11
<1>13. \A i, j \in 1..n : p[i] = p[j] => i = j
  BY <1>11
<1>14. ASSUME NEW j \in 1..n
       PROVE  \E i \in 1..n : p[i] = j
  <2>1. PICK m \in 1..n : m = place(j)
    BY <1>8
  <2>2. p[m] \in 1..n /\ place(p[m]) = place(j)
    BY <1>11, <2>1
  <2>3. p[m] = j
    BY <1>8, <2>2
  <2> QED
    BY <2>3
<1>15. SortData(t, list) = [m \in 1..n |-> list[p[m]]]
  BY <1>7, <1>10
<1> QED
  BY <1>12, <1>13, <1>14, <1>15 DEF Permutes

(* No two items of a list have the same keys.                              *)
Distinct(t, list) ==
    \A i, j \in 1..Len(list) : SameKeys(t, list[i], list[j]) => i = j

LEMMA SortKeeps ==
    ASSUME NEW t, IsSchema(t), NEW list \in Seq(Full(t))
    PROVE  /\ SortData(t, list) \in Seq(Full(t))
           /\ Len(SortData(t, list)) = Len(list)
           /\ ItemsIn(SortData(t, list)) = ItemsIn(list)
           /\ Distinct(t, list) => Distinct(t, SortData(t, list))
<1>1. PICK n \in Nat : n = Len(list)
  OBVIOUS
<1>0. PICK p : /\ Permutes(p, n)
               /\ SortData(t, list) = [i \in 1..n |-> list[p[i]]]
  BY <1>1, SortMoves
<1>2. /\ p \in [1..n -> 1..n]
      /\ \A i, j \in 1..n : p[i] = p[j] => i = j
      /\ \A j \in 1..n : \E i \in 1..n : p[i] = j
      /\ SortData(t, list) = [i \in 1..n |-> list[p[i]]]
  BY <1>0 DEF Permutes
<1>3. PICK s : s = SortData(t, list)
  OBVIOUS
<1>4. \A i \in 1..n : /\ p[i] \in 1..n /\ s[i] = list[p[i]]
                      /\ list[i] \in Full(t)
  <2>1. \A i \in 1..n : p[i] \in 1..n
    BY <1>2
  <2>2. s = [i \in 1..n |-> list[p[i]]]
    BY <1>2, <1>3
  <2>3. \A i \in 1..n : list[i] \in Full(t)
    BY <1>1
  <2> QED
    BY <2>1, <2>2, <2>3
<1>5. s \in Seq(Full(t)) /\ Len(s) = n
  <2>1. s = [i \in 1..n |-> s[i]]
    BY <1>2, <1>3
  <2>2. \A i \in 1..n : s[i] \in Full(t)
    BY <1>4
  <2>3. s \in [1..n -> Full(t)]
    BY <2>1, <2>2
  <2> QED
    BY <2>3
<1>6. ItemsIn(s) = ItemsIn(list)
  <2>1. \A i \in 1..n : \E j \in 1..n : s[i] = list[j]
    BY <1>4
  <2>2. \A j \in 1..n : \E i \in 1..n : s[i] = list[j]
    <3> SUFFICES ASSUME NEW j \in 1..n PROVE \E i \in 1..n : s[i] = list[j]
      OBVIOUS
    <3>1. PICK i \in 1..n : p[i] = j
      BY <1>2
    <3> QED
      BY <1>4, <3>1
  <2>3. Len(s) = n /\ Len(list) = n
    BY <1>1, <1>5
  <2>4. ItemsIn(s) \subseteq ItemsIn(list)
    <3> SUFFICES ASSUME NEW x \in ItemsIn(s)
                 PROVE  x \in ItemsIn(list)
      OBVIOUS
    <3>1. PICK i \in 1..n : x = s[i]
      BY <2>3 DEF ItemsIn
    <3>2. PICK j \in 1..n : x = list[j]
      BY <2>1, <3>1
    <3> QED
      BY <2>3, <3>2 DEF ItemsIn
  <2>5. ItemsIn(list) \subseteq ItemsIn(s)
    <3> SUFFICES ASSUME NEW x \in ItemsIn(list)
                 PROVE  x \in ItemsIn(s)
      OBVIOUS
    <3>1. PICK j \in 1..n : x = list[j]
      BY <2>3 DEF ItemsIn
    <3>2. PICK i \in 1..n : x = s[i]
      BY <2>2, <3>1
    <3> QED
      BY <2>3, <3>2 DEF ItemsIn
  <2> QED
    BY <2>4, <2>5
<1>7. Distinct(t, list) => Distinct(t, s)
  <2>1. Len(s) = n /\ Len(list) = n
    BY <1>1, <1>5
  <2> SUFFICES ASSUME Distinct(t, list), NEW i \in 1..n, NEW j \in 1..n,
                      SameKeys(t, s[i], s[j])
               PROVE  i = j
    BY <2>1 DEF Distinct
  <2>2. SameKeys(t, list[p[i]], list[p[j]])
    BY <1>4
  <2>3. p[i] = p[j]
    BY <1>4, <2>1, <2>2 DEF Distinct
  <2> QED
    BY <1>2, <2>3
<1> QED
  BY <1>1, <1>3, <1>5, <1>6, <1>7

-----------------------------------------------------------------------------
(* Merging.  What an item becomes that is completed by one with its keys.  *)
Completed(t, remote, x, y, u) ==
    /\ u \in Full(t)
    /\ SameKeys(t, u, x)
    /\ DOMAIN u = DOMAIN x \cup DOMAIN y
    /\ remote => \A f \in t.check : u[f] = x[f]
    /\ ~remote => \A f \in DOMAIN y : u[f] = y[f]
    /\ updateFields(t, remote, u, y) = u

LEMMA UpdatedFields ==
    ASSUME NEW t, IsSchema(t), NEW remote \in BOOLEAN,
           NEW x \in Full(t), NEW y \in Full(t), SameKeys(t, x, y),
           NEW u, u = updateFields(t, remote, x, y)
    PROVE  Completed(t, remote, x, y, u)
<1>1. PICK z : z = IF remote THEN Without(y, t.check) ELSE y
  OBVIOUS
<1>2. /\ DOMAIN z = IF remote THEN DOMAIN y \ t.check ELSE DOMAIN y
      /\ \A f \in DOMAIN z : z[f] = y[f]
  BY <1>1 DEF Without
<1>3. z \in ItemsOf(t)
  BY <1>1, WithoutItems DEF Full
<1>4. u = Over(z, x)
  BY <1>1 DEF updateFields
<1>5. /\ u = [f \in DOMAIN u |-> u[f]]
      /\ DOMAIN u = DOMAIN z \cup DOMAIN x
      /\ \A f \in DOMAIN z : u[f] = z[f]
      /\ \A f \in DOMAIN x \ DOMAIN z : u[f] = x[f]
  BY <1>4 DEF Over
<1>6. u \in ItemsOf(t)
  BY <1>3, <1>4, OverItems DEF Full
<1>7. t.check \subseteq DOMAIN x /\ KeysOf(t) \subseteq DOMAIN x
  BY DEF Full
<1>8. DOMAIN u = DOMAIN x \cup DOMAIN y
  BY <1>2, <1>5, <1>7
<1>9. u \in Full(t)
  BY <1>6, <1>7, <1>8 DEF Full
<1>10. SameKeys(t, u, x)
  BY <1>2, <1>5, <1>7 DEF SameKeys
<1>11. remote => \A f \in t.check : u[f] = x[f]
  BY <1>2, <1>5, <1>7
<1>12. ~remote => \A f \in DOMAIN y : u[f] = y[f]
  BY <1>2, <1>5
<1>13. updateFields(t, remote, u, y) = u
  <2>1. PICK v : v = updateFields(t, remote, u, y)
    OBVIOUS
  <2>2. v = Over(z, u)
    BY <1>1, <2>1 DEF updateFields
  <2>3. /\ v = [f \in DOMAIN v |-> v[f]]
        /\ DOMAIN v = DOMAIN z \cup DOMAIN u
        /\ \A f \in DOMAIN z : v[f] = z[f]
        /\ \A f \in DOMAIN u \ DOMAIN z : v[f] = u[f]
    BY <2>2 DEF Over
  <2>4. DOMAIN v = DOMAIN u /\ \A f \in DOMAIN u : v[f] = u[f]
    BY <1>5, <2>3
  <2> QED
    BY <1>5, <2>1, <2>3, <2>4
<1> QED
  BY <1>8, <1>9, <1>10, <1>11, <1>12, <1>13 DEF Completed

(* What Merge makes of one item: the last new one with its keys counts.    *)
LastMatch(t, x, new, j) ==
    /\ j \in 1..Len(new) /\ SameKeys(t, new[j], x)
    /\ \A k \in 1..Len(new) : SameKeys(t, new[k], x) => k <= j
Unmatched(t, x, new) == \A j \in 1..Len(new) : ~SameKeys(t, new[j], x)
Becomes(t, remote, x, new, y) ==
    \/ y = x /\ (Unmatched(t, x, new) \/ (remote /\ ~writeAllowed(t, x)))
    \/ /\ remote => writeAllowed(t, x)
       /\ \E j \in 1..Len(new) :
             LastMatch(t, x, new, j) /\ y = updateFields(t, remote, x, new[j])

(* The new items that are appended, in their order.                        *)
Appends(t, list, new, rest, g) ==
    /\ \A i \in 1..Len(rest) : /\ g[i] \in 1..Len(new) /\ rest[i] = new[g[i]]
                               /\ Unmatched(t, new[g[i]], list)
    /\ \A i, j \in 1..Len(rest) : i < j => g[i] < g[j]
    /\ \A j \in 1..Len(new) :
          Unmatched(t, new[j], list) => \E i \in 1..Len(rest) : g[i] = j

LEMMA Greatest ==
    ASSUME NEW n \in Nat, NEW S, S \subseteq 1..n, S # {}
    PROVE  \E x \in S : \A y \in S : y <= x
<1> DEFINE D == {n - x : x \in S}
<1>1. D \subseteq Nat /\ D # {}
  <2>1. \A x \in S : x \in 1..n
    OBVIOUS
  <2>2. \A x \in 1..n : n - x \in Nat
    OBVIOUS
  <2> QED
    BY <2>1, <2>2
<1>2. PICK d \in D : \A e \in D : d <= e
  BY <1>1, LeastNatural
<1>3. PICK x \in S : d = n - x
  BY <1>2
<1>4. \A y \in S : n - x <= n - y
  BY <1>2, <1>3
<1> QED
  BY <1>3, <1>4

LEMMA MergeMakes ==
    ASSUME NEW t, IsSchema(t), NEW remote \in BOOLEAN,
           NEW list \in Seq(Full(t)), NEW new \in Seq(Full(t))
    PROVE  \E merged, rest :
              /\ Merge(t, remote, list, new).list = merged \o rest
              /\ merged \in Seq(Full(t)) /\ Len(merged) = Len(list)
              /\ \A i \in 1..Len(list) :
                    Becomes(t, remote, list[i], new, merged[i])
              /\ remote => rest = <<>>
              /\ rest \in Seq(Full(t))
              /\ ~remote => \E g : Appends(t, list, new, rest, g)
<1>1. PICK n \in Nat : n = Len(list)
  OBVIOUS
<1>2. PICK m \in Nat : m = Len(new)
  OBVIOUS
<1>3. \A i \in 1..n : list[i] \in Full(t)
  BY <1>1
<1>4. \A j \in 1..m : new[j] \in Full(t)
  BY <1>2
<1> DEFINE matching(x) ==
               {j \in 1..Len(new) : hashKey(t, new[j]) = hashKey(t, x)}
           last(x) == new[CHOOSE j \in matching(x) :
                             \A k \in matching(x) : k <= j]
           updated(x) == IF matching(x) # {} /\ (remote => writeAllowed(t, x))
                         THEN updateFields(t, remote, x, last(x)) ELSE x
           all == [i \in 1..Len(list) |-> updated(list[i])]
           fresh == {x \in ItemsIn(new) : \A i \in 1..Len(list) :
                        hashKey(t, list[i]) # hashKey(t, x)}
           more == IF remote THEN <<>> ELSE KeptOf(new, fresh)
<1>5. Merge(t, remote, list, new).list = all \o more
  <2>1. Merge(t, remote, list, new) =
            [list |-> all \o more,
             ok |-> remote => \A i \in 1..Len(list) :
                                 writeAllowed(t, list[i])]
    BY Zenon DEF Merge
  <2> HIDE DEF all, more
  <2> QED
    BY <2>1
<1> HIDE DEF updated, fresh
<1>6. PICK merged : merged = all
  OBVIOUS
<1>7. PICK rest : rest = more
  OBVIOUS
<1>81. Merge(t, remote, list, new).list = merged \o rest
  BY <1>5, <1>6, <1>7, Zenon
<1>82. merged = [i \in 1..n |-> updated(list[i])]
  BY <1>1, <1>6
<1>83. rest = IF remote THEN <<>> ELSE KeptOf(new, fresh)
  BY <1>7
<1> HIDE DEF all, more
<1>8. \A x \in Full(t) :
          /\ matching(x) = {j \in 1..m : SameKeys(t, new[j], x)}
          /\ matching(x) # {} =>
                LastMatch(t, x, new, CHOOSE j \in matching(x) :
                                        \A k \in matching(x) : k <= j)
  <2> SUFFICES ASSUME NEW x \in Full(t)
               PROVE  /\ matching(x) = {j \in 1..m : SameKeys(t, new[j], x)}
                      /\ matching(x) # {} =>
                            LastMatch(t, x, new,
                                      CHOOSE j \in matching(x) :
                                          \A k \in matching(x) : k <= j)
    OBVIOUS
  <2>1. matching(x) = {j \in 1..m : SameKeys(t, new[j], x)}
    BY <1>2, <1>4, HashOfItems
  <2>2. PICK S : S = matching(x)
    OBVIOUS
  <2>3. S \subseteq 1..m
    BY <2>1, <2>2
  <2>4. S # {} => \E j \in S : \A k \in S : k <= j
    BY <2>3, Greatest
  <2>5. S # {} => LastMatch(t, x, new, CHOOSE j \in S : \A k \in S : k <= j)
    <3> SUFFICES ASSUME S # {}
                 PROVE  LastMatch(t, x, new,
                                  CHOOSE j \in S : \A k \in S : k <= j)
      OBVIOUS
    <3>1. PICK c : c = CHOOSE j \in S : \A k \in S : k <= j
      OBVIOUS
    <3>2. c \in S /\ \A k \in S : k <= c
      BY <2>4, <3>1
    <3>3. LastMatch(t, x, new, c)
      BY <1>2, <2>1, <2>2, <3>2 DEF LastMatch
    <3> QED
      BY <3>1, <3>3
  <2> QED
    BY <2>1, <2>2, <2>5
<1> HIDE DEF matching
<1>9. \A i \in 1..n : Becomes(t, remote, list[i], new, merged[i])
  <2> SUFFICES ASSUME NEW i \in 1..n
               PROVE  Becomes(t, remote, list[i], new, merged[i])
    OBVIOUS
  <2>1. PICK x \in Full(t) : x = list[i]
    BY <1>3
  <2>2. PICK y : y = merged[i]
    OBVIOUS
  <2>3. y = updated(x)
    BY <1>82, <2>1, <2>2
  <2>4. CASE matching(x) # {} /\ (remote => writeAllowed(t, x))
    <3>1. PICK a : a = CHOOSE j \in matching(x) :
                             \A k \in matching(x) : k <= j
      OBVIOUS
    <3>2. LastMatch(t, x, new, a)
      BY <1>8, <2>4, <3>1
    <3>3. y = updateFields(t, remote, x, new[a])
      BY <2>3, <2>4, <3>1 DEF updated
    <3> QED
      BY <2>1, <2>2, <2>4, <3>2, <3>3 DEF Becomes, LastMatch
  <2>5. CASE ~(matching(x) # {} /\ (remote => writeAllowed(t, x)))
    <3>1. y = x
      BY <2>3, <2>5 DEF updated
    <3>2. matching(x) = {} => Unmatched(t, x, new)
      BY <1>2, <1>8 DEF Unmatched
    <3> QED
      BY <2>1, <2>2, <2>5, <3>1, <3>2 DEF Becomes
  <2> QED
    BY <2>4, <2>5
<1>10. \A i \in 1..n : merged[i] \in Full(t)
  <2> SUFFICES ASSUME NEW i \in 1..n PROVE merged[i] \in Full(t)
    OBVIOUS
  <2>1. PICK x \in Full(t) : x = list[i]
    BY <1>3
  <2>2. PICK y : y = merged[i] /\ Becomes(t, remote, x, new, y)
    BY <1>9, <2>1
  <2>3. ASSUME NEW j \in 1..Len(new), LastMatch(t, x, new, j),
               y = updateFields(t, remote, x, new[j])
        PROVE  y \in Full(t)
    <3>1. new[j] \in Full(t)
      BY <1>2, <1>4, <2>3
    <3>2. SameKeys(t, x, new[j])
      BY <2>3 DEF LastMatch, SameKeys
    <3> QED
      BY <2>3, <3>1, <3>2, UpdatedFields DEF Completed
  <2> QED
    BY <2>2, <2>3 DEF Becomes
<1>11. merged \in Seq(Full(t)) /\ Len(merged) = n
  <2>1. merged = [i \in 1..n |-> merged[i]]
    BY <1>82
  <2>2. merged \in [1..n -> Full(t)]
    BY <1>10, <2>1
  <2> QED
    BY <2>2
<1>12. rest \in Seq(Full(t))
  <2>1. KeptOf(new, fresh) \in Seq(Full(t))
    BY KeptPlaces
  <2>2. <<>> \in Seq(Full(t))
    OBVIOUS
  <2> QED
    BY <1>83, <2>1, <2>2
<1>13. ~remote => \E g : Appends(t, list, new, rest, g)
  <2> SUFFICES ASSUME ~remote
               PROVE  \E g : Appends(t, list, new, rest, g)
    OBVIOUS
  <2>1. PICK g : Placed(new, fresh, m, rest, g)
    BY <1>2, <1>83, KeptPlaces
  <2>2. \A j \in 1..m : new[j] \in fresh <=> Unmatched(t, new[j], list)
    <3> SUFFICES ASSUME NEW j \in 1..m
                 PROVE  new[j] \in fresh <=> Unmatched(t, new[j], list)
      OBVIOUS
    <3>1. new[j] \in ItemsIn(new)
      BY <1>2 DEF ItemsIn
    <3>2. \A i \in 1..n : hashKey(t, list[i]) = hashKey(t, new[j])
                              <=> SameKeys(t, list[i], new[j])
      BY <1>3, <1>4, HashOfItems
    <3> QED
      BY <1>1, <3>1, <3>2 DEF Unmatched, fresh
  <2> HIDE DEF fresh
  <2>3. Appends(t, list, new, rest, g)
    BY <1>2, <2>1, <2>2 DEF Placed, Appends
  <2> QED
    BY <2>3
<1>14. remote => rest = <<>>
  BY <1>83
<1> QED
  BY <1>1, <1>81, <1>9, <1>11, <1>12, <1>13, <1>14

LEMMA SameKeysEqual ==
    ASSUME NEW t, NEW x, NEW y, NEW z
    PROVE  /\ SameKeys(t, x, x)
           /\ SameKeys(t, x, y) => SameKeys(t, y, x)
           /\ SameKeys(t, x, y) /\ SameKeys(t, y, z) => SameKeys(t, x, z)
BY DEF SameKeys

LEMMA GuardsEqual ==
    ASSUME NEW t, NEW x \in Full(t), NEW y \in Full(t),
           \A f \in t.check : x[f] = y[f]
    PROVE  writeAllowed(t, x) <=> writeAllowed(t, y)
BY DEF writeAllowed, Full

Became(t, remote, x, new, y) ==
    /\ y \in Full(t)
    /\ SameKeys(t, y, x)
    /\ DOMAIN x \subseteq DOMAIN y
    /\ remote => \A f \in t.check : y[f] = x[f]
    /\ remote /\ ~writeAllowed(t, x) => y = x
    /\ Becomes(t, remote, y, new, y)

LEMMA BecomesKeeps ==
    ASSUME NEW t, IsSchema(t), NEW remote \in BOOLEAN, NEW x \in Full(t),
           NEW new \in Seq(Full(t)), NEW y, Becomes(t, remote, x, new, y)
    PROVE  Became(t, remote, x, new, y)
<1>1. CASE y = x /\ (Unmatched(t, x, new) \/ (remote /\ ~writeAllowed(t, x)))
  BY <1>1, SameKeysEqual DEF Becomes, Became
<1>2. CASE /\ remote => writeAllowed(t, x)
           /\ \E j \in 1..Len(new) : /\ LastMatch(t, x, new, j)
                                     /\ y = updateFields(t, remote, x, new[j])
  <2>1. PICK j \in 1..Len(new) : /\ LastMatch(t, x, new, j)
                                 /\ y = updateFields(t, remote, x, new[j])
    BY <1>2
  <2>2. PICK z \in Full(t) : z = new[j]
    OBVIOUS
  <2>3. SameKeys(t, z, x) /\ SameKeys(t, x, z)
    BY <2>1, <2>2, SameKeysEqual DEF LastMatch
  <2>4. /\ y \in Full(t)
        /\ SameKeys(t, y, x)
        /\ DOMAIN y = DOMAIN x \cup DOMAIN z
        /\ remote => \A f \in t.check : y[f] = x[f]
        /\ updateFields(t, remote, y, z) = y
    <3>1. y = updateFields(t, remote, x, z)
      BY <2>1, <2>2
    <3>2. Completed(t, remote, x, z, y)
      BY <2>3, <3>1, UpdatedFields
    <3> QED
      BY <3>2 DEF Completed
  <2>5. \A k \in 1..Len(new) :
            SameKeys(t, new[k], y) <=> SameKeys(t, new[k], x)
    BY <2>4 DEF SameKeys
  <2>6. LastMatch(t, y, new, j)
    BY <2>1, <2>5 DEF LastMatch
  <2>7. remote => writeAllowed(t, y)
    BY <1>2, <2>4, GuardsEqual
  <2>8. Becomes(t, remote, y, new, y)
    BY <2>2, <2>4, <2>6, <2>7 DEF Becomes
  <2> QED
    BY <1>2, <2>4, <2>8 DEF Became
<1> QED
  BY <1>1, <1>2 DEF Becomes

IsJoined(T, a, b, c, n, e) ==
    /\ c \in Seq(T) /\ Len(c) = n + e
    /\ \A i \in 1..n : i \in 1..n + e /\ c[i] = a[i]
    /\ \A i \in 1..n + e :
          ~(i <= n) => i - n \in 1..e /\ c[i] = b[i - n]
    /\ \A i \in 1..e : n + i \in 1..n + e /\ c[n + i] = b[i]

LEMMA Joined ==
    ASSUME NEW T, NEW a \in Seq(T), NEW b \in Seq(T), NEW c, c = a \o b,
           NEW n, n = Len(a), NEW e, e = Len(b)
    PROVE  IsJoined(T, a, b, c, n, e)
<1>1. n \in Nat /\ e \in Nat
  OBVIOUS
<1>2. c \in Seq(T) /\ Len(c) = n + e
  OBVIOUS
<1>3. \A i \in 1..n + e : c[i] = IF i <= n THEN a[i] ELSE b[i - n]
  BY <1>1
<1> QED
  BY <1>1, <1>2, <1>3 DEF IsJoined

MergeResult(t, remote, list, new, r) ==
    /\ r \in Seq(Full(t)) /\ Len(list) <= Len(r)
    /\ remote => Len(r) = Len(list)
    /\ \A i \in 1..Len(list) : Becomes(t, remote, list[i], new, r[i])
    /\ ~remote => \A j \in 1..Len(new) :
          Unmatched(t, new[j], list) => new[j] \in ItemsIn(r)
    /\ \A i \in 1..Len(r) : ~(i <= Len(list)) => r[i] \in ItemsIn(new)
    /\ Distinct(t, list) /\ Distinct(t, new) => Distinct(t, r)

LEMMA MergeKeeps ==
    ASSUME NEW t, IsSchema(t), NEW remote \in BOOLEAN,
           NEW list \in Seq(Full(t)), NEW new \in Seq(Full(t)),
           NEW r, r = Merge(t, remote, list, new).list
    PROVE  MergeResult(t, remote, list, new, r)
<1>1. PICK n \in Nat : n = Len(list)
  OBVIOUS
<1>2. PICK m \in Nat : m = Len(new)
  OBVIOUS
<1>3. PICK merged, rest :
          /\ Merge(t, remote, list, new).list = merged \o rest
          /\ merged \in Seq(Full(t)) /\ Len(merged) = Len(list)
          /\ \A i \in 1..Len(list) :
                Becomes(t, remote, list[i], new, merged[i])
          /\ remote => rest = <<>>
          /\ rest \in Seq(Full(t))
          /\ ~remote => \E g : Appends(t, list, new, rest, g)
  BY MergeMakes
<1>4. PICK e \in Nat : e = Len(rest)
  BY <1>3
<1>5. /\ r \in Seq(Full(t)) /\ Len(r) = n + e
      /\ \A i \in 1..n : r[i] = merged[i]
      /\ \A i \in 1..n + e : ~(i <= n) => i - n \in 1..e /\ r[i] = rest[i - n]
      /\ \A i \in 1..e : n + i \in 1..n + e /\ r[n + i] = rest[i]
  <2>1. r = merged \o rest /\ Len(merged) = n
    BY <1>1, <1>3
  <2> QED
    <3>1. IsJoined(Full(t), merged, rest, r, n, e)
      BY <1>3, <1>4, <2>1, Joined
    <3> QED
      BY <3>1 DEF IsJoined
<1>6. \A i \in 1..n : /\ i \in 1..n + e
                      /\ list[i] \in Full(t)
                      /\ Becomes(t, remote, list[i], new, r[i])
  BY <1>1, <1>3, <1>5
<1>7. CASE remote
  <2>1. rest = <<>> /\ e = 0
    BY <1>3, <1>4, <1>7
  <2>2. Distinct(t, list) => Distinct(t, r)
    <3> SUFFICES ASSUME Distinct(t, list), NEW i \in 1..n, NEW j \in 1..n,
                        SameKeys(t, r[i], r[j])
                 PROVE  i = j
      BY <1>5, <2>1 DEF Distinct
    <3>1. SameKeys(t, r[i], list[i]) /\ SameKeys(t, r[j], list[j])
      BY <1>6, BecomesKeeps DEF Became
    <3>2. SameKeys(t, list[i], list[j])
      BY <3>1 DEF SameKeys
    <3> QED
      BY <1>1, <3>2 DEF Distinct
  <2>3. Len(r) = n /\ \A i \in 1..Len(r) : i <= n
    BY <1>1, <1>5, <2>1
  <2>4. \A i \in 1..Len(list) : Becomes(t, remote, list[i], new, r[i])
    BY <1>1, <1>6
  <2>5. \A i \in 1..Len(r) : ~(i <= Len(list)) => r[i] \in ItemsIn(new)
    BY <1>1, <2>3
  <2>6. Len(r) = Len(list) /\ Len(list) <= Len(r)
    BY <1>1, <2>3
  <2> QED
    BY <1>5, <1>7, <2>2, <2>4, <2>5, <2>6 DEF MergeResult
<1>8. CASE ~remote
  <2>1. PICK g : Appends(t, list, new, rest, g)
    BY <1>3, <1>8
  <2>2. /\ \A i \in 1..e : /\ g[i] \in 1..m /\ rest[i] = new[g[i]]
                           /\ Unmatched(t, new[g[i]], list)
        /\ \A i, j \in 1..e : i < j => g[i] < g[j]
        /\ \A j \in 1..m :
              Unmatched(t, new[j], list) => \E i \in 1..e : g[i] = j
    BY <1>2, <1>4, <2>1 DEF Appends
  <2>3. \A j \in 1..m : Unmatched(t, new[j], list) => new[j] \in ItemsIn(r)
    <3> SUFFICES ASSUME NEW j \in 1..m, Unmatched(t, new[j], list)
                 PROVE  new[j] \in ItemsIn(r)
      OBVIOUS
    <3>1. PICK i \in 1..e : g[i] = j
      BY <2>2
    <3>2. r[n + i] = new[j] /\ n + i \in 1..n + e
      BY <1>5, <2>2, <3>1
    <3> QED
      BY <1>5, <3>2 DEF ItemsIn
  <2>4. \A i \in 1..n + e : ~(i <= n) => r[i] \in ItemsIn(new)
    <3> SUFFICES ASSUME NEW i \in 1..n + e, ~(i <= n)
                 PROVE  r[i] \in ItemsIn(new)
      OBVIOUS
    <3>1. PICK a \in 1..e : a = i - n /\ r[i] = rest[a]
      BY <1>5
    <3>2. g[a] \in 1..m /\ r[i] = new[g[a]]
      BY <2>2, <3>1
    <3> QED
      BY <1>2, <3>2 DEF ItemsIn
  <2>5. ASSUME Distinct(t, list), Distinct(t, new),
               NEW i \in 1..n + e, NEW j \in 1..n + e, SameKeys(t, r[i], r[j])
        PROVE  i = j
    <3>1. \A a \in 1..n : SameKeys(t, r[a], list[a])
      BY <1>6, BecomesKeeps DEF Became
    <3>2. \A a \in 1..n + e : a \in 1..n \/ ~(a <= n)
      OBVIOUS
    <3>3. \A a \in 1..n, b \in 1..n + e : ~(b <= n)
              => ~SameKeys(t, r[a], r[b]) /\ ~SameKeys(t, r[b], r[a])
      <4> SUFFICES ASSUME NEW a \in 1..n, NEW b \in 1..n + e, ~(b <= n),
                          SameKeys(t, r[a], r[b]) \/ SameKeys(t, r[b], r[a])
                   PROVE  FALSE
        OBVIOUS
      <4>1. r[b] = new[g[b - n]] /\ Unmatched(t, new[g[b - n]], list)
        BY <1>5, <2>2
      <4>2. ~SameKeys(t, list[a], r[b])
        BY <1>1, <4>1 DEF Unmatched
      <4> QED
        BY <3>1, <4>2 DEF SameKeys
    <3>4. CASE i \in 1..n /\ j \in 1..n
      <4>1. SameKeys(t, list[i], list[j])
        BY <2>5, <3>1, <3>4 DEF SameKeys
      <4> QED
        BY <1>1, <2>5, <3>4, <4>1 DEF Distinct
    <3>5. CASE ~(i <= n) /\ ~(j <= n)
      <4>0. PICK a \in 1..e, b \in 1..e :
                a = i - n /\ r[i] = rest[a] /\ b = j - n /\ r[j] = rest[b]
        BY <1>5, <2>5, <3>5
      <4>1. a = i - n /\ r[i] = new[g[a]]
        BY <2>2, <4>0
      <4>2. b = j - n /\ r[j] = new[g[b]]
        BY <2>2, <4>0
      <4>3. /\ g[a] \in 1..m /\ g[b] \in 1..m
            /\ SameKeys(t, new[g[a]], new[g[b]])
        BY <2>2, <2>5, <4>1, <4>2
      <4>4. g[a] = g[b]
        BY <1>2, <2>5, <4>3 DEF Distinct
      <4>5. ~(a < b) /\ ~(b < a)
        BY <2>2, <4>3, <4>4
      <4> QED
        BY <4>1, <4>2, <4>5
    <3> QED
      BY <2>5, <3>2, <3>3, <3>4, <3>5
  <2>6. Distinct(t, list) /\ Distinct(t, new) => Distinct(t, r)
    BY <1>5, <2>5 DEF Distinct
  <2> QED
    BY <1>1, <1>2, <1>5, <1>6, <1>8, <2>3, <2>4, <2>6 DEF MergeResult
<1> QED
  BY <1>7, <1>8

-----------------------------------------------------------------------------
(* Copying.  Some items get the fields of a patch, and remote writers only *)
(* change those that they may.                                             *)
Allowed(t, remote, x) == remote => writeAllowed(t, x)
Copied(t, remote, list, patch, r) ==
    /\ r \in Seq(Full(t)) /\ Len(r) = Len(list)
    /\ \A i \in 1..Len(list) :
          \/ r[i] = list[i]
          \/ r[i] = Over(patch, list[i]) /\ Allowed(t, remote, list[i])

LEMMA OverFull ==
    ASSUME NEW t, NEW x \in ItemsOf(t), NEW y \in Full(t)
    PROVE  /\ Over(x, y) \in Full(t)
           /\ DOMAIN Over(x, y) = DOMAIN x \cup DOMAIN y
           /\ \A f \in DOMAIN x : Over(x, y)[f] = x[f]
           /\ \A f \in DOMAIN y \ DOMAIN x : Over(x, y)[f] = y[f]
           /\ Over(x, Over(x, y)) = Over(x, y)
<1>1. PICK z : z = Over(x, y)
  OBVIOUS
<1>2. /\ z = [f \in DOMAIN z |-> z[f]]
      /\ DOMAIN z = DOMAIN x \cup DOMAIN y
      /\ \A f \in DOMAIN x : z[f] = x[f]
      /\ \A f \in DOMAIN y \ DOMAIN x : z[f] = y[f]
  BY <1>1 DEF Over
<1>3. z \in Full(t)
  <2>1. z \in ItemsOf(t)
    BY <1>1, OverItems DEF Full
  <2> QED
    BY <1>2, <2>1 DEF Full
<1>4. Over(x, z) = z
  <2>1. PICK u : u = Over(x, z)
    OBVIOUS
  <2>2. /\ u = [f \in DOMAIN u |-> u[f]]
        /\ DOMAIN u = DOMAIN x \cup DOMAIN z
        /\ \A f \in DOMAIN x : u[f] = x[f]
        /\ \A f \in DOMAIN z \ DOMAIN x : u[f] = z[f]
    BY <2>1 DEF Over
  <2>3. DOMAIN u = DOMAIN z /\ \A f \in DOMAIN z : u[f] = z[f]
    BY <1>2, <2>2
  <2> QED
    BY <1>2, <2>1, <2>2, <2>3
<1> QED
  BY <1>1, <1>2, <1>3, <1>4

LEMMA CopiedItems ==
    ASSUME NEW t, NEW remote, NEW list \in Seq(Full(t)),
           NEW patch \in ItemsOf(t), NEW r,
           r = [i \in 1..Len(list) |-> r[i]],
           \A i \in 1..Len(list) :
               \/ r[i] = list[i]
               \/ r[i] = Over(patch, list[i]) /\ Allowed(t, remote, list[i])
    PROVE  Copied(t, remote, list, patch, r)
<1>1. PICK n \in Nat : n = Len(list)
  OBVIOUS
<1>2. \A i \in 1..n : r[i] \in Full(t)
  <2> SUFFICES ASSUME NEW i \in 1..n PROVE r[i] \in Full(t)
    OBVIOUS
  <2>1. PICK x \in Full(t) : x = list[i]
    BY <1>1
  <2>2. Over(patch, x) \in Full(t)
    BY OverFull
  <2> QED
    BY <1>1, <2>1, <2>2
<1>3. r \in [1..n -> Full(t)]
  BY <1>1, <1>2
<1>4. r \in Seq(Full(t)) /\ Len(r) = n
  BY <1>3
<1> QED
  BY <1>1, <1>4 DEF Copied

LEMMA CopyToAll ==
    ASSUME NEW t, NEW remote, NEW list \in Seq(Full(t)),
           NEW patch \in ItemsOf(t)
    PROVE  /\ Copied(t, remote, list, patch,
                     copyToAllData(t, remote, list, patch).list)
           /\ copyToAllData(t, remote, list, patch).ok
                  <=> \A i \in 1..Len(list) : Allowed(t, remote, list[i])
           /\ \A i \in 1..Len(list) :
                 copyToAllData(t, remote, list, patch).list[i]
                     = IF Allowed(t, remote, list[i])
                       THEN Over(patch, list[i]) ELSE list[i]
<1>1. PICK c : c = copyToAllData(t, remote, list, patch)
  OBVIOUS
<1>2. /\ c.list = [i \in 1..Len(list) |->
                      IF Allowed(t, remote, list[i])
                      THEN Over(patch, list[i]) ELSE list[i]]
      /\ c.ok <=> \A i \in 1..Len(list) : Allowed(t, remote, list[i])
  BY <1>1 DEF copyToAllData, Allowed, CopyNonNilDataFromItemToItem
<1>3. PICK r : r = c.list
  OBVIOUS
<1>4. Copied(t, remote, list, patch, r)
  BY <1>2, <1>3, CopiedItems
<1> QED
  BY <1>1, <1>2, <1>3, <1>4

(* The item that a selector is for, if there is one.                       *)
FirstSelected(t, remote, list, selector, i) ==
    /\ i \in 1..Len(list)
    /\ SelectorMatch(selector, list[i]) /\ Allowed(t, remote, list[i])
    /\ \A j \in 1..Len(list) :
          SelectorMatch(selector, list[j]) /\ Allowed(t, remote, list[j])
          => i <= j

CopySelected(t, remote, list, patch, filter, c) ==
    /\ Copied(t, remote, list, patch, c.list)
    /\ ~remote => c.ok
    /\ \A i \in 1..Len(list) :
          c.list[i] = IF FirstSelected(t, remote, list, filter.selector, i)
                      THEN Over(patch, list[i]) ELSE list[i]

LEMMA CopyToSelected ==
    ASSUME NEW t, NEW remote, NEW list \in Seq(Full(t)),
           NEW patch \in ItemsOf(t), NEW filter, filter.selector # {},
           NEW c, c = copyToSelectedData(t, remote, list, filter, patch)
    PROVE  CopySelected(t, remote, list, patch, filter, c)
<1>1. PICK s : s = filter.selector
  OBVIOUS
<1> DEFINE matching == {i \in 1..Len(list) : SelectorMatch(s, list[i])}
           allowed == {i \in matching : remote => writeAllowed(t, list[i])}
           IsFirst(i) == i \in allowed /\ \A j \in allowed : i <= j
<1>2. c = [list |-> [i \in 1..Len(list) |->
                        IF IsFirst(i) THEN Over(patch, list[i]) ELSE list[i]],
           ok |-> \A i \in matching \ allowed : \E j \in allowed : j < i]
  BY <1>1 DEF copyToSelectedData, CopyNonNilDataFromItemToItem
<1>3. \A i \in 1..Len(list) :
          IsFirst(i) <=> FirstSelected(t, remote, list, s, i)
  BY DEF FirstSelected, Allowed
<1>4. ~remote => matching \ allowed = {}
  OBVIOUS
<1> HIDE DEF matching, allowed, IsFirst
<1>5. c.list = [i \in 1..Len(list) |->
                   IF IsFirst(i) THEN Over(patch, list[i]) ELSE list[i]]
  BY <1>2
<1>6. ~remote => c.ok
  BY <1>2, <1>4
<1>7. PICK r : r = c.list
  OBVIOUS
<1>8. \A i \in 1..Len(list) :
          r[i] = IF FirstSelected(t, remote, list, s, i)
                 THEN Over(patch, list[i]) ELSE list[i]
  BY <1>3, <1>5, <1>7
<1>9. \A i \in 1..Len(list) :
          FirstSelected(t, remote, list, s, i) => Allowed(t, remote, list[i])
  BY DEF FirstSelected
<1>10. Copied(t, remote, list, patch, r)
  BY <1>5, <1>7, <1>8, <1>9, CopiedItems
<1> QED
  BY <1>1, <1>6, <1>7, <1>8, <1>10 DEF CopySelected

CopyKept(t, remote, list, r) ==
    /\ \A i \in 1..Len(list) :
          /\ SameKeys(t, r[i], list[i])
          /\ DOMAIN list[i] \subseteq DOMAIN r[i]
          /\ ~Allowed(t, remote, list[i]) => r[i] = list[i]
    /\ Distinct(t, list) => Distinct(t, r)

LEMMA CopiedKeeps ==
    ASSUME NEW t, NEW remote, NEW list \in Seq(Full(t)),
           NEW patch \in ItemsOf(t), DOMAIN patch \cap KeysOf(t) = {},
           NEW r, Copied(t, remote, list, patch, r)
    PROVE  CopyKept(t, remote, list, r)
<1>1. PICK n \in Nat : n = Len(list)
  OBVIOUS
<1>2. ASSUME NEW i \in 1..n
      PROVE  /\ SameKeys(t, r[i], list[i])
             /\ DOMAIN list[i] \subseteq DOMAIN r[i]
             /\ ~Allowed(t, remote, list[i]) => r[i] = list[i]
  <2>1. PICK x \in Full(t) : x = list[i]
    BY <1>1
  <2>2. \/ r[i] = x
        \/ r[i] = Over(patch, x) /\ Allowed(t, remote, x)
    BY <1>1, <2>1 DEF Copied
  <2>3. KeysOf(t) \subseteq DOMAIN x
    BY DEF Full
  <2>4. CASE r[i] = x
    BY <2>1, <2>4, SameKeysEqual
  <2>5. CASE r[i] = Over(patch, x) /\ Allowed(t, remote, x)
    <3>1. /\ DOMAIN Over(patch, x) = DOMAIN patch \cup DOMAIN x
          /\ \A f \in DOMAIN x \ DOMAIN patch : Over(patch, x)[f] = x[f]
      BY DEF Over
    <3>2. SameKeys(t, Over(patch, x), x)
      BY <2>3, <3>1 DEF SameKeys
    <3> QED
      BY <2>1, <2>5, <3>1, <3>2
  <2> QED
    BY <2>2, <2>4, <2>5
<1>3. ASSUME Distinct(t, list), NEW i \in 1..n, NEW j \in 1..n,
             SameKeys(t, r[i], r[j])
      PROVE  i = j
  <2>1. SameKeys(t, r[i], list[i]) /\ SameKeys(t, r[j], list[j])
    BY <1>2
  <2>2. SameKeys(t, list[i], list[j])
    BY <1>3, <2>1 DEF SameKeys
  <2> QED
    BY <1>1, <1>3, <2>2 DEF Distinct
<1>4. Len(r) = n
  BY <1>1 DEF Copied
<1>5. Distinct(t, list) => Distinct(t, r)
  BY <1>3, <1>4 DEF Distinct
<1> QED
  BY <1>1, <1>2, <1>5 DEF CopyKept

-----------------------------------------------------------------------------
(* Deleting.                                                               *)
Reduced(t, remote, filter, x) ==
    IF Allowed(t, remote, x) /\ SelectorMatch(filter.selector, x)
    THEN Without(x, filter.elements) ELSE x
IsLeft(t, remote, filter, x) ==
    /\ Allowed(t, remote, x)
    /\ ~(filter.elements = {} /\ SelectorMatch(filter.selector, x))

ReducedIs(t, remote, filter, x, y) ==
    /\ y \in Full(t)
    /\ SameKeys(t, y, x)
    /\ \A f \in t.check : y[f] = x[f]
    /\ Allowed(t, remote, y) <=> Allowed(t, remote, x)
    /\ ~Allowed(t, remote, x) => y = x
    /\ Reduced(t, remote, filter, y) = y

LEMMA ReducedKeeps ==
    ASSUME NEW t, IsSchema(t), NEW remote, NEW filter,
           filter.elements \subseteq {Rest}, NEW x \in Full(t),
           NEW y, y = Reduced(t, remote, filter, x)
    PROVE  ReducedIs(t, remote, filter, x, y)
<1>1. CASE Allowed(t, remote, x) /\ SelectorMatch(filter.selector, x)
  <2>1. y = Without(x, filter.elements)
    BY <1>1 DEF Reduced
  <2>2. /\ y = [f \in DOMAIN y |-> y[f]]
        /\ DOMAIN y = DOMAIN x \ filter.elements
        /\ \A f \in DOMAIN y : y[f] = x[f]
    BY <2>1 DEF Without
  <2>3. Rest \notin KeysOf(t) \cup t.check
    BY DEF IsSchema
  <2>4. KeysOf(t) \cup t.check \subseteq DOMAIN y
    BY <2>2, <2>3 DEF Full
  <2>5. y \in Full(t)
    BY <2>1, <2>4, WithoutItems DEF Full
  <2>6. SameKeys(t, y, x) /\ \A f \in t.check : y[f] = x[f]
    BY <2>2, <2>4 DEF SameKeys
  <2>7. Allowed(t, remote, y) <=> Allowed(t, remote, x)
    BY <2>5, <2>6, GuardsEqual DEF Allowed
  <2>8. Without(y, filter.elements) = y
    <3>1. PICK z : z = Without(y, filter.elements)
      OBVIOUS
    <3>2. /\ z = [f \in DOMAIN z |-> z[f]]
          /\ DOMAIN z = DOMAIN y \ filter.elements
          /\ \A f \in DOMAIN z : z[f] = y[f]
      BY <3>1 DEF Without
    <3>3. DOMAIN z = DOMAIN y
      BY <2>2, <3>2
    <3> QED
      BY <2>2, <3>1, <3>2, <3>3
  <2>9. Reduced(t, remote, filter, y) = y
    BY <2>8 DEF Reduced
  <2> QED
    BY <1>1, <2>5, <2>6, <2>7, <2>9 DEF ReducedIs
<1>2. CASE ~(Allowed(t, remote, x) /\ SelectorMatch(filter.selector, x))
  <2>1. y = x
    BY <1>2 DEF Reduced
  <2>2. Reduced(t, remote, filter, y) = y
    BY <1>2, <2>1 DEF Reduced
  <2> QED
    BY <2>1, <2>2, SameKeysEqual DEF ReducedIs
<1> QED
  BY <1>1, <1>2

(* What is left of a list, and in which order.                             *)
Leaves(t, remote, filter, list, left, g) ==
    /\ \A i \in 1..Len(left) :
          /\ g[i] \in 1..Len(list)
          /\ left[i] = Reduced(t, remote, filter, list[g[i]])
          /\ IsLeft(t, remote, filter, list[g[i]])
    /\ \A i, j \in 1..Len(left) : i < j => g[i] < g[j]
    /\ \A j \in 1..Len(list) : IsLeft(t, remote, filter, list[j])
          => \E i \in 1..Len(left) : g[i] = j

Deletes(t, remote, list, filter, d) ==
    /\ d.inPlace \in Seq(Full(t)) /\ Len(d.inPlace) = Len(list)
    /\ \A i \in 1..Len(list) :
          d.inPlace[i] = Reduced(t, remote, filter, list[i])
    /\ d.left \in Seq(Full(t))
    /\ \E g : Leaves(t, remote, filter, list, d.left, g)
    /\ d.ok <=> \A i \in 1..Len(list) : Allowed(t, remote, list[i])

LEMMA DeleteMakes ==
    ASSUME NEW t, IsSchema(t), NEW remote, NEW list \in Seq(Full(t)),
           NEW filter, filter.elements \subseteq {Rest},
           NEW d, d = deleteFilteredData(t, remote, list, filter)
    PROVE  Deletes(t, remote, list, filter, d)
<1>1. PICK n \in Nat : n = Len(list)
  OBVIOUS
<1> DEFINE all == [i \in 1..Len(list) |-> i]
           kept == {i \in 1..Len(list) : IsLeft(t, remote, filter, list[i])}
<1>2. PICK places : places = KeptOf(all, kept)
  OBVIOUS
<1>3. /\ d.left = [i \in 1..Len(places) |->
                      Reduced(t, remote, filter, list[places[i]])]
      /\ d.inPlace = [i \in 1..Len(list) |->
                         Reduced(t, remote, filter, list[i])]
      /\ d.ok <=> \A i \in 1..Len(list) : Allowed(t, remote, list[i])
  BY <1>2 DEF deleteFilteredData, Reduced, Allowed, IsLeft,
              RemoveElementFromItem
<1>4. \A x \in Full(t) : Reduced(t, remote, filter, x) \in Full(t)
  BY ReducedKeeps DEF ReducedIs
<1>5. \A i \in 1..n : list[i] \in Full(t)
  BY <1>1
<1>6. /\ d.inPlace \in Seq(Full(t)) /\ Len(d.inPlace) = n
      /\ \A i \in 1..n : d.inPlace[i] = Reduced(t, remote, filter, list[i])
  <2>1. PICK p : p = d.inPlace
    OBVIOUS
  <2>2. p \in [1..n -> Full(t)]
    BY <1>1, <1>3, <1>4, <1>5, <2>1
  <2>3. p \in Seq(Full(t)) /\ Len(p) = n
    BY <2>2
  <2> QED
    BY <1>1, <1>3, <2>1, <2>3
<1>7. all \in Seq(1..n) /\ Len(all) = n /\ \A i \in 1..n : all[i] = i
  <2>1. all \in [1..n -> 1..n]
    BY <1>1
  <2> QED
    BY <1>1, <2>1
<1>8. \A i \in 1..n : i \in kept <=> IsLeft(t, remote, filter, list[i])
  BY <1>1
<1> HIDE DEF all, kept
<1>9. PICK g : Placed(all, kept, n, places, g)
  BY <1>2, <1>7, KeptPlaces
<1>10. places \in Seq(1..n)
  BY <1>2, <1>7, KeptPlaces
<1>11. PICK m \in Nat : m = Len(places) /\ \A i \in 1..m : places[i] \in 1..n
  BY <1>10
<1>12. \A i \in 1..m : g[i] \in 1..n /\ g[i] \in kept /\ places[i] = g[i]
  BY <1>7, <1>9, <1>11 DEF Placed
<1>13. PICK left : left = d.left
  OBVIOUS
<1>14. left \in Seq(Full(t)) /\ Len(left) = m
  <2>1. left \in [1..m -> Full(t)]
    BY <1>3, <1>4, <1>5, <1>11, <1>13
  <2> QED
    BY <2>1
<1>15. \A i \in 1..m : left[i] = Reduced(t, remote, filter, list[g[i]])
  BY <1>3, <1>11, <1>12, <1>13
<1>16. Leaves(t, remote, filter, list, left, g)
  <2>1. \A i, j \in 1..m : i < j => g[i] < g[j]
    BY <1>9, <1>11 DEF Placed
  <2>2. \A j \in 1..n : j \in kept => \E i \in 1..m : g[i] = j
    BY <1>7, <1>9, <1>11 DEF Placed
  <2> QED
    BY <1>1, <1>8, <1>12, <1>14, <1>15, <2>1, <2>2 DEF Leaves
<1> QED
  BY <1>1, <1>3, <1>6, <1>13, <1>14, <1>16 DEF Deletes

LEMMA LeavesKeep ==
    ASSUME NEW t, IsSchema(t), NEW remote, NEW list \in Seq(Full(t)),
           NEW filter, filter.elements \subseteq {Rest},
           NEW left \in Seq(Full(t)), NEW g,
           Leaves(t, remote, filter, list, left, g)
    PROVE  /\ Len(left) <= Len(list)
           /\ Distinct(t, list) => Distinct(t, left)
<1>1. PICK n \in Nat : n = Len(list)
  OBVIOUS
<1>2. PICK m \in Nat : m = Len(left)
  OBVIOUS
<1>3. /\ \A i \in 1..m : /\ g[i] \in 1..n
                         /\ left[i] = Reduced(t, remote, filter, list[g[i]])
      /\ \A i, j \in 1..m : i < j => g[i] < g[j]
  BY <1>1, <1>2 DEF Leaves
<1>4. \A i, j \in 1..m : g[i] = g[j] => i = j
  <2> SUFFICES ASSUME NEW i \in 1..m, NEW j \in 1..m, g[i] = g[j]
               PROVE  i = j
    OBVIOUS
  <2>1. ~(i < j) /\ ~(j < i)
    BY <1>3
  <2> QED
    BY <2>1
<1>5. m <= n
  <2>1. PICK f : f = [i \in 1..m |-> g[i]]
    OBVIOUS
  <2>2. f \in [1..m -> 1..n] /\ \A i \in 1..m : f[i] = g[i]
    BY <1>3, <2>1
  <2>3. \A i, j \in 1..m : f[i] = f[j] => i = j
    BY <1>4, <2>2
  <2>4. f \in Injection(1..m, 1..n)
    BY <2>2, <2>3 DEF Injection, IsInjective
  <2>5. /\ IsFiniteSet(1..n) /\ Cardinality(1..n) = n
        /\ Cardinality(1..m) = m
    <3>1. n \in Int /\ m \in Int /\ 1 \in Int
      OBVIOUS
    <3> QED
      BY <3>1, FS_Interval
  <2> QED
    BY <2>4, <2>5, FS_Injection
<1>6. ASSUME Distinct(t, list), NEW i \in 1..m, NEW j \in 1..m,
             SameKeys(t, left[i], left[j])
      PROVE  i = j
  <2>1. PICK a \in 1..n : a = g[i]
    BY <1>3
  <2>2. PICK b \in 1..n : b = g[j]
    BY <1>3
  <2>3. list[a] \in Full(t) /\ list[b] \in Full(t)
    BY <1>1
  <2>4. /\ left[i] = Reduced(t, remote, filter, list[a])
        /\ left[j] = Reduced(t, remote, filter, list[b])
    BY <1>3, <2>1, <2>2
  <2>5. SameKeys(t, left[i], list[a]) /\ SameKeys(t, left[j], list[b])
    <3>1. ASSUME NEW x \in Full(t)
          PROVE  SameKeys(t, Reduced(t, remote, filter, x), x)
      BY ReducedKeeps DEF ReducedIs
    <3> QED
      BY <2>3, <2>4, <3>1
  <2>6. SameKeys(t, list[a], list[b])
    BY <1>6, <2>5 DEF SameKeys
  <2>7. a = b
    BY <1>1, <1>6, <2>6 DEF Distinct
  <2> QED
    BY <1>4, <2>1, <2>2, <2>7
<1> QED
  BY <1>1, <1>2, <1>5, <1>6 DEF Distinct

(* Merging with nothing.                                                   *)
LEMMA MergeNone ==
    ASSUME NEW t, IsSchema(t), NEW remote \in BOOLEAN,
           NEW list \in Seq(Full(t))
    PROVE  Merge(t, remote, list, <<>>).list = list
<1>1. PICK r : r = Merge(t, remote, list, <<>>).list
  OBVIOUS
<1>2. <<>> \in Seq(Full(t)) /\ Len(<<>>) = 0 /\ ItemsIn(<<>>) = {}
  BY DEF ItemsIn
<1>3. PICK n \in Nat : n = Len(list)
  OBVIOUS
<1>0. MergeResult(t, remote, list, <<>>, r)
  BY <1>1, <1>2, MergeKeeps
<1>4. /\ r \in Seq(Full(t)) /\ Len(list) <= Len(r)
      /\ \A i \in 1..Len(list) : Becomes(t, remote, list[i], <<>>, r[i])
      /\ \A i \in 1..Len(r) : ~(i <= Len(list)) => r[i] \in ItemsIn(<<>>)
  BY <1>0 DEF MergeResult
<1>5. Len(r) = n
  <2>1. PICK m \in Nat : m = Len(r)
    BY <1>4
  <2>2. n <= m /\ ~(m \in 1..m /\ ~(m <= n))
    BY <1>2, <1>3, <1>4, <2>1
  <2> QED
    BY <2>1, <2>2
<1>6. \A i \in 1..n : r[i] = list[i]
  BY <1>2, <1>3, <1>4 DEF Becomes, LastMatch
<1> QED
  BY <1>1, <1>3, <1>4, <1>5, <1>6

-----------------------------------------------------------------------------
(* What UpdateData does for each kind of command.                          *)
LEMMA SchemasAre ==
    ASSUME NEW f \in Functions
    PROVE  IsSchema(Schemas[f])
<1>1. PICK t : t = Schemas[f]
  OBVIOUS
<1>2. /\ t.keys \in Seq(STRING) /\ t.keys # <<>>
      /\ KeysOf(t) \cap t.check = {}
      /\ Rest \notin KeysOf(t) \cup t.check
      /\ t.ignored \cap (KeysOf(t) \cup t.check \cup {Rest}) = {}
      /\ t.check # {} => t.ignored = {}
  BY <1>1, SchemasAssumption, FunctionsAssumption DEF KeysOf
<1>3. Len(t.keys) \in Nat /\ Len(t.keys) # 0
  BY <1>2
<1> QED
  BY <1>1, <1>2, <1>3 DEF IsSchema, FieldsOf

LEMMA UpdateUnfiltered ==
    ASSUME NEW f, NEW remote, NEW list, NEW new, NEW partial, NEW delete,
           ~partial.given, ~delete.given
    PROVE  /\ UpdateData(f, remote, list, new, partial, delete).list = new
           /\ UpdateData(f, remote, list, new, partial, delete).ok
BY DEF UpdateData

LEMMA UpdateUnsupported ==
    ASSUME NEW f, NEW remote, NEW list, NEW new, NEW partial, NEW delete,
           partial.given \/ delete.given, ~SupportsPartialWrite(f)
    PROVE  /\ UpdateData(f, remote, list, new, partial, delete).list = list
           /\ ~UpdateData(f, remote, list, new, partial, delete).ok
BY DEF UpdateData

LEMMA NothingFound ==
    ASSUME NEW f
    PROVE  /\ ~Found(FilterData(f, NoFilter))
           /\ ~Found(FilterData(f, NewFilterTypePartial))
           /\ ~NoFilter.given /\ NewFilterTypePartial.given
BY DEF Found, FilterData, NoFilter, NewFilterTypePartial

(* Without a delete filter UpdateList is the partial update, of which a    *)
(* failure leaves what was written in place.                               *)
LEMMA UpdatePartially ==
    ASSUME NEW f, NEW remote, NEW list, NEW new, NEW partial,
           partial.given, SupportsPartialWrite(f),
           NEW u, u = updatePartial(f, remote, list, new, partial),
           NEW d, d = UpdateData(f, remote, list, new, partial, NoFilter)
    PROVE  /\ u.ok \in BOOLEAN => d.ok = u.ok
           /\ d.list = IF u.ok \/ InPlace(f, new, partial) THEN u.list
                       ELSE list
<1>1. /\ ~Found(FilterData(f, NoFilter))
      /\ ~NoFilter.given
  BY NothingFound
<1>2. d = UpdateList(f, remote, list, new, partial, NoFilter)
  BY DEF UpdateData
<1>3. d = [list |-> IF TRUE /\ u.ok THEN u.list
                    ELSE IF InPlace(f, new, partial) THEN u.list ELSE list,
           ok |-> TRUE /\ u.ok]
  BY <1>1, <1>2 DEF UpdateList
<1> QED
  BY <1>3

LEMMA FullIdentified ==
    ASSUME NEW t, NEW x \in Full(t)
    PROVE  HasIdentifiers(t, x)
BY DEF HasIdentifiers, Full, KeysOf, ItemsIn

LEMMA UpdateMerging ==
    ASSUME NEW f \in Functions, SupportsPartialWrite(f),
           NEW t, t = Schemas[f],
           NEW remote \in BOOLEAN,
           NEW list \in Seq(Full(t)), NEW new \in Seq(Full(t)),
           NEW partial, partial.given, ~Found(FilterData(f, partial)),
           NEW d, d = UpdateData(f, remote, list, new, partial, NoFilter)
    PROVE  /\ d.ok <=> \A i \in 1..Len(list) : Allowed(t, remote, list[i])
           /\ d.list = IF d.ok
                       THEN SortData(t, Merge(t, remote, list, new).list)
                       ELSE list
<1>2. new # <<>> => HasIdentifiers(t, new[1])
  <2>1. new # <<>> => new[1] \in Full(t)
    OBVIOUS
  <2> QED
    BY <2>1, FullIdentified
<1>3. PICK m : m = Merge(t, remote, list, new)
  OBVIOUS
<1>4. m.ok <=> \A i \in 1..Len(list) : Allowed(t, remote, list[i])
  BY <1>3 DEF Merge, Allowed
<1>5. m.ok \in BOOLEAN
  BY <1>3 DEF Merge
<1>6. PICK u : u = updatePartial(f, remote, list, new, partial)
  OBVIOUS
<1>7. u = [list |-> SortData(t, m.list), ok |-> m.ok]
  BY <1>2, <1>3, <1>6, Zenon DEF updatePartial
<1>8. ~InPlace(f, new, partial)
  BY <1>2 DEF InPlace
<1>9. u.list = SortData(t, m.list) /\ u.ok = m.ok
  BY <1>7
<1>10. /\ u.ok \in BOOLEAN => d.ok = u.ok
       /\ d.list = IF u.ok \/ InPlace(f, new, partial)
                   THEN u.list ELSE list
  BY <1>6, UpdatePartially
<1> QED
  BY <1>3, <1>4, <1>5, <1>8, <1>9, <1>10

LEMMA UpdateSelected ==
    ASSUME NEW f \in Functions, SupportsPartialWrite(f),
           NEW t, t = Schemas[f],
           NEW remote, NEW list, NEW new, NEW partial, partial.given,
           NEW filter, filter = FilterData(f, partial), filter.selector # {},
           NEW d, d = UpdateData(f, remote, list, new, partial, NoFilter),
           NEW c, c = copyToSelectedData(t, remote, list, filter, new[1])
    PROVE  d.ok = c.ok /\ d.list = c.list
<1>1. Found(filter)
  BY DEF Found
<1>2. PICK u : u = updatePartial(f, remote, list, new, partial)
  OBVIOUS
<1>3. u = c
  BY <1>1, <1>2 DEF updatePartial
<1>4. InPlace(f, new, partial)
  BY <1>1 DEF InPlace
<1>5. c.ok \in BOOLEAN
  BY DEF copyToSelectedData
<1>6. /\ u.ok \in BOOLEAN => d.ok = u.ok
      /\ d.list = IF u.ok \/ InPlace(f, new, partial) THEN u.list ELSE list
  BY <1>2, UpdatePartially
<1> QED
  BY <1>3, <1>4, <1>5, <1>6

LEMMA UpdateAll ==
    ASSUME NEW f \in Functions, SupportsPartialWrite(f),
           NEW t, t = Schemas[f],
           NEW remote, NEW list, NEW patch,
           DOMAIN patch \cap KeysOf(t) = {},
           NEW partial, partial.given, ~Found(FilterData(f, partial)),
           NEW d,
           d = UpdateData(f, remote, list, <<patch>>, partial, NoFilter),
           NEW c, c = copyToAllData(t, remote, list, patch)
    PROVE  d.ok = c.ok /\ d.list = c.list
<1>1. ~HasIdentifiers(t, patch)
  <2>1. Len(t.keys) \in Nat /\ Len(t.keys) # 0
    BY SchemasAre DEF IsSchema
  <2>2. 1 \in 1..Len(t.keys)
    BY <2>1
  <2>3. t.keys[1] \in KeysOf(t)
    BY <2>2 DEF KeysOf, ItemsIn
  <2> QED
    BY <2>2, <2>3 DEF HasIdentifiers
<1>2. PICK new : new = <<patch>>
  OBVIOUS
<1>3. new # <<>> /\ new[1] = patch
  BY <1>2
<1>4. PICK u : u = updatePartial(f, remote, list, new, partial)
  OBVIOUS
<1>5. u = c
  BY <1>1, <1>3, <1>4 DEF updatePartial
<1>6. InPlace(f, new, partial)
  BY <1>1, <1>3 DEF InPlace
<1>7. c.ok \in BOOLEAN
  BY DEF copyToAllData
<1>8. /\ u.ok \in BOOLEAN => d.ok = u.ok
      /\ d.list = IF u.ok \/ InPlace(f, new, partial) THEN u.list ELSE list
  BY <1>2, <1>4, UpdatePartially
<1> QED
  BY <1>5, <1>6, <1>7, <1>8

(* A deletion, which leaves the list in the order of its keys.             *)
LEMMA UpdateDeleting ==
    ASSUME NEW f \in Functions, SupportsPartialWrite(f),
           NEW t, t = Schemas[f],
           NEW remote \in BOOLEAN, NEW list \in Seq(Full(t)),
           NEW delete, delete.given, NEW filter,
           filter = FilterData(f, delete), filter.elements \subseteq {Rest},
           NEW d, d = UpdateData(f, remote, list, <<>>, NoFilter, delete),
           NEW e, e = deleteFilteredData(t, remote, list, filter)
    PROVE  /\ d.ok <=> \A i \in 1..Len(list) : Allowed(t, remote, list[i])
           /\ d.list = IF Found(filter)
                       THEN IF d.ok THEN SortData(t, e.left) ELSE e.inPlace
                       ELSE IF d.ok THEN SortData(t, list) ELSE list
<1>1. /\ ~Found(FilterData(f, NoFilter)) /\ ~NoFilter.given
      /\ IsSchema(t)
  BY NothingFound, SchemasAre
<1>2. /\ e.inPlace \in Seq(Full(t))
      /\ e.left \in Seq(Full(t))
      /\ \E g : Leaves(t, remote, filter, list, e.left, g)
      /\ e.ok <=> \A i \in 1..Len(list) : Allowed(t, remote, list[i])
  BY <1>1, DeleteMakes DEF Deletes
<1>3. e.ok \in BOOLEAN
  BY DEF deleteFilteredData
<1>4. ASSUME NEW l \in Seq(Full(t)), NEW u,
             u = updatePartial(f, remote, l, <<>>, NoFilter)
      PROVE  /\ u.list = SortData(t, l)
             /\ u.ok \in BOOLEAN
             /\ u.ok <=> \A i \in 1..Len(l) : Allowed(t, remote, l[i])
  <2>1. PICK m : m = Merge(t, remote, l, <<>>)
    OBVIOUS
  <2>2. m.list = l
    BY <1>1, <2>1, MergeNone
  <2>3. /\ m.ok <=> \A i \in 1..Len(l) : Allowed(t, remote, l[i])
        /\ m.ok \in BOOLEAN
    BY <2>1 DEF Merge, Allowed
  <2>4. u = [list |-> SortData(t, m.list), ok |-> m.ok]
    BY <1>1, <1>4, <2>1 DEF updatePartial
  <2> QED
    BY <2>2, <2>3, <2>4
<1>5. d = UpdateList(f, remote, list, <<>>, NoFilter, delete)
  BY DEF UpdateData
<1>6. ~InPlace(f, <<>>, NoFilter)
  BY <1>1 DEF InPlace
<1>7. CASE Found(filter)
  <2>1. PICK l : l = IF e.ok THEN e.left ELSE e.inPlace
    OBVIOUS
  <2>2. l \in Seq(Full(t))
    BY <1>2, <2>1
  <2>3. PICK u : u = updatePartial(f, remote, l, <<>>, NoFilter)
    OBVIOUS
  <2>4. d = [list |-> IF e.ok /\ u.ok THEN u.list
                      ELSE IF ~(TRUE /\ e.ok) /\ InPlace(f, <<>>, NoFilter)
                      THEN u.list ELSE e.inPlace,
             ok |-> e.ok /\ u.ok]
    BY <1>3, <1>5, <1>7, <2>1, <2>3 DEF UpdateList
  <2>5. /\ u.list = SortData(t, l) /\ u.ok \in BOOLEAN
        /\ u.ok <=> \A i \in 1..Len(l) : Allowed(t, remote, l[i])
    BY <1>4, <2>2, <2>3
  <2>6. e.ok => \A i \in 1..Len(l) : Allowed(t, remote, l[i])
    <3> SUFFICES ASSUME e.ok, NEW i \in 1..Len(l)
                 PROVE  Allowed(t, remote, l[i])
      OBVIOUS
    <3>1. l = e.left
      BY <2>1
    <3>2. PICK g : Leaves(t, remote, filter, list, l, g)
      BY <1>2, <3>1
    <3>3. PICK x : x = list[g[i]] /\ g[i] \in 1..Len(list)
      BY <3>2 DEF Leaves
    <3>4. /\ x \in Full(t) /\ Allowed(t, remote, x)
          /\ l[i] = Reduced(t, remote, filter, x)
      BY <3>2, <3>3 DEF Leaves, IsLeft
    <3>5. Allowed(t, remote, Reduced(t, remote, filter, x))
      BY <1>1, <3>4, ReducedKeeps DEF ReducedIs
    <3> QED
      BY <3>4, <3>5
  <2>7. d.ok <=> e.ok
    BY <1>3, <2>4, <2>5, <2>6
  <2> QED
    BY <1>2, <1>3, <1>6, <1>7, <2>1, <2>4, <2>5, <2>6, <2>7
<1>8. CASE ~Found(filter)
  <2>1. PICK u : u = updatePartial(f, remote, list, <<>>, NoFilter)
    OBVIOUS
  <2>2. d = [list |-> IF TRUE /\ u.ok THEN u.list
                      ELSE IF InPlace(f, <<>>, NoFilter)
                      THEN u.list ELSE list,
             ok |-> TRUE /\ u.ok]
    BY <1>5, <1>8, <2>1 DEF UpdateList
  <2>3. /\ u.list = SortData(t, list) /\ u.ok \in BOOLEAN
        /\ u.ok <=> \A i \in 1..Len(list) : Allowed(t, remote, list[i])
    BY <1>4, <2>1
  <2> QED
    BY <1>6, <1>8, <2>2, <2>3
<1> QED
  BY <1>7, <1>8

-----------------------------------------------------------------------------
(* The commands.                                                           *)
Listing(t, list) == list \in Seq(Full(t)) /\ Distinct(t, list)
Replacing(t, c) ==
    c.partial = NoFilter /\ c.delete = NoFilter /\ Listing(t, c.new)
Merging(t, c) ==
    /\ c.partial = NewFilterTypePartial /\ c.delete = NoFilter
    /\ Listing(t, c.new) /\ c.new # <<>>
AtMostOne(t, selector) ==
    selector = {} \/ \E s \in Selectors(t) : selector = {s}
Patching(t, c) ==
    /\ \E p \in ItemsOf(t) : c.new = <<p>> /\ DOMAIN p \cap KeysOf(t) = {}
    /\ c.delete = NoFilter
    /\ c.partial.given = TRUE /\ c.partial.elements = {}
    /\ AtMostOne(t, c.partial.selector)
Deleting(t, c) ==
    /\ c.new = <<>> /\ c.partial = NoFilter
    /\ c.delete.given = TRUE /\ c.delete.elements \subseteq {Rest}
Legal(t, c) ==
    Replacing(t, c) \/ Merging(t, c) \/ Patching(t, c) \/ Deleting(t, c)

LEMMA LastKeyIs ==
    ASSUME NEW t, IsSchema(t)
    PROVE  LastKey(t) \in KeysOf(t)
<1>1. Len(t.keys) \in 1..Len(t.keys)
  BY DEF IsSchema
<1> QED
  BY <1>1 DEF LastKey, KeysOf, ItemsIn

LEMMA ItemsFull ==
    ASSUME NEW t, IsSchema(t), NEW k \in Int, NEW rest,
           rest \subseteq Values, NEW x \in Items(t, k, rest)
    PROVE  x \in Full(t) /\ x[LastKey(t)] = k
<1>1. PICK r \in rest, g \in Guards(t) :
          x = Over(Keys(t, k), Over(Field(Rest, r), g))
  BY DEF Items
<1>2. KeysOf(t) = {t.keys[i] : i \in 1..Len(t.keys)}
  BY DEF KeysOf, ItemsIn
<1>3. PICK keys : keys = Keys(t, k)
  OBVIOUS
<1>4. keys = [f \in KeysOf(t) |-> IF f = LastKey(t) THEN k ELSE 1]
  BY <1>2, <1>3 DEF Keys, LastKey
<1>5. /\ keys \in ItemsOf(t) /\ DOMAIN keys = KeysOf(t)
      /\ keys[LastKey(t)] = k
  <2>1. keys = [f \in DOMAIN keys |-> keys[f]] /\ DOMAIN keys = KeysOf(t)
    BY <1>4
  <2>2. \A f \in KeysOf(t) : /\ keys[f] \in Int
                             /\ f # LastKey(t) => keys[f] = 1
    BY <1>4
  <2>3. \A f \in DOMAIN keys : keys[f] \in Values
    BY <2>1, <2>2 DEF Values
  <2>4. keys \in ItemsOf(t)
    BY <2>1, <2>2, <2>3, ItemsAre DEF FieldsOf
  <2> QED
    BY <1>4, <2>1, <2>4, LastKeyIs
<1>6. PICK y : y = Field(Rest, r)
  OBVIOUS
<1>7. y \in ItemsOf(t)
  <2>1. /\ y = [f \in DOMAIN y |-> y[f]] /\ DOMAIN y = {Rest}
        /\ y[Rest] = r
    BY <1>6 DEF Field
  <2>2. Rest \notin KeysOf(t)
    BY DEF IsSchema
  <2> QED
    BY <2>1, <2>2, ItemsAre DEF FieldsOf
<1>8. g \in ItemsOf(t) /\ DOMAIN g = t.check
  <2>1. g = [f \in DOMAIN g |-> g[f]] /\ DOMAIN g = t.check
    BY DEF Guards
  <2>2. \A f \in DOMAIN g : g[f] \in Values
    BY <2>1 DEF Values, Guards
  <2>3. KeysOf(t) \cap DOMAIN g = {}
    BY <2>1 DEF IsSchema
  <2> QED
    BY <2>1, <2>2, <2>3, ItemsAre DEF FieldsOf
<1>9. PICK z : z = Over(y, g)
  OBVIOUS
<1>10. z \in ItemsOf(t) /\ t.check \subseteq DOMAIN z
  BY <1>7, <1>8, <1>9, OverItems DEF Over
<1>11. x = Over(keys, z)
  BY <1>1, <1>3, <1>6, <1>9
<1>12. x \in ItemsOf(t)
  BY <1>5, <1>10, <1>11, OverItems
<1>13. /\ KeysOf(t) \cup t.check \subseteq DOMAIN x
       /\ x[LastKey(t)] = k
  BY <1>5, <1>10, <1>11, LastKeyIs DEF Over
<1> QED
  BY <1>12, <1>13 DEF Full

LEMMA ListsAre ==
    ASSUME NEW t, IsSchema(t), NEW rest, rest \subseteq Values,
           NEW list \in Lists(t, rest)
    PROVE  Listing(t, list) /\ list # <<>>
<1>1. KeyValues \subseteq Int
  BY KeyValuesAssumption
<1> DEFINE singles ==
               UNION {{<<x>> : x \in Items(t, k, rest)} : k \in KeyValues}
           pairs ==
               UNION {Items(t, kl[1], rest) \X Items(t, kl[2], rest) :
                         kl \in {p \in KeyValues \X KeyValues : p[1] < p[2]}}
<1>4. list \in singles \cup pairs
  BY Zenon DEF Lists
<1>2. CASE list \in singles
  <2>1. PICK k \in KeyValues : list \in {<<x>> : x \in Items(t, k, rest)}
    BY <1>2
  <2>2. PICK x \in Items(t, k, rest) : list = <<x>>
    BY <2>1
  <2>3. x \in Full(t)
    BY <1>1, ItemsFull
  <2>4. list \in Seq(Full(t)) /\ Len(list) = 1 /\ list # <<>>
    BY <2>2, <2>3
  <2>5. Distinct(t, list)
    <3>1. \A i \in 1..1 : i = 1
      OBVIOUS
    <3> QED
      BY <2>4, <3>1 DEF Distinct
  <2> QED
    BY <2>4, <2>5 DEF Listing
<1>3. CASE list \in pairs
  <2>1. PICK kl \in {p \in KeyValues \X KeyValues : p[1] < p[2]} :
            list \in Items(t, kl[1], rest) \X Items(t, kl[2], rest)
    BY <1>3
  <2>2. PICK a \in Int, b \in Int : a = kl[1] /\ b = kl[2] /\ a < b
    BY <1>1, <2>1
  <2>3. PICK x \in Items(t, a, rest), y \in Items(t, b, rest) :
            list = <<x, y>>
    BY <2>1, <2>2
  <2>4. /\ x \in Full(t) /\ y \in Full(t)
        /\ x[LastKey(t)] = a /\ y[LastKey(t)] = b
    BY ItemsFull
  <2>5. /\ list \in Seq(Full(t)) /\ list # <<>>
        /\ Len(list) = 2 /\ list[1] = x /\ list[2] = y
    BY <2>3, <2>4
  <2>6. ~SameKeys(t, x, y) /\ ~SameKeys(t, y, x)
    BY <2>2, <2>4, LastKeyIs DEF SameKeys
  <2>7. Distinct(t, list)
    <3> SUFFICES ASSUME NEW i \in 1..2, NEW j \in 1..2,
                        SameKeys(t, list[i], list[j])
                 PROVE  i = j
      BY <2>5 DEF Distinct
    <3>1. (i = 1 \/ i = 2) /\ (j = 1 \/ j = 2)
      OBVIOUS
    <3> QED
      BY <2>5, <2>6, <3>1
  <2> QED
    BY <2>5, <2>7 DEF Listing
<1> HIDE DEF singles, pairs
<1> QED
  BY <1>2, <1>3, <1>4

LEMMA PatchesAre ==
    ASSUME NEW t, IsSchema(t), NEW list \in Patches(t)
    PROVE  \E p \in ItemsOf(t) : list = <<p>> /\ DOMAIN p \cap KeysOf(t) = {}
<1>1. CASE \E r \in RestValues : list = <<Field(Rest, r)>>
  <2>1. PICK r \in RestValues : list = <<Field(Rest, r)>>
    BY <1>1
  <2>2. PICK y : y = Field(Rest, r)
    OBVIOUS
  <2>3. /\ y = [f \in DOMAIN y |-> y[f]] /\ DOMAIN y = {Rest}
        /\ y[Rest] = r
    BY <2>2 DEF Field
  <2>4. Rest \notin KeysOf(t)
    BY DEF IsSchema
  <2>5. r \in Values
    BY DEF Values
  <2>6. y \in ItemsOf(t)
    BY <2>3, <2>4, <2>5, ItemsAre DEF FieldsOf
  <2> QED
    BY <2>1, <2>2, <2>3, <2>4, <2>6
<1>2. CASE \E g \in Guards(t) : list = <<g>>
  <2>1. PICK g \in Guards(t) : list = <<g>>
    BY <1>2
  <2>2. g = [f \in DOMAIN g |-> g[f]] /\ DOMAIN g = t.check
    BY DEF Guards
  <2>3. \A f \in DOMAIN g : g[f] \in Values
    BY <2>2 DEF Values, Guards
  <2>4. DOMAIN g \cap KeysOf(t) = {}
    BY <2>2 DEF IsSchema
  <2>5. g \in ItemsOf(t)
    BY <2>2, <2>3, <2>4, ItemsAre DEF FieldsOf
  <2> QED
    BY <2>1, <2>4, <2>5
<1> QED
  BY <1>1, <1>2 DEF Patches

LEMMA CommandsLegal ==
    ASSUME NEW f \in Functions, NEW t, t = Schemas[f],
           NEW c \in Commands[f]
    PROVE  Legal(t, c)
<1>1. IsSchema(t)
  BY SchemasAre
<1>2. c \in Replace(t) \cup Merged(t) \cup Selected(t) \cup Delete(t)
  BY Zenon DEF Commands, Filtered
<1>3. RestValues \subseteq Values
  BY DEF Values
<1>4. \A list \in Lists(t, RestValues) : Listing(t, list) /\ list # <<>>
  BY <1>1, <1>3, ListsAre
<1>5. CASE c \in Replace(t)
  <2>1. PICK l \in Lists(t, RestValues) :
            c = [new |-> l, partial |-> NoFilter, delete |-> NoFilter]
    BY <1>5 DEF Replace
  <2> QED
    BY <1>4, <2>1 DEF Legal, Replacing
<1>6. CASE c \in Merged(t)
  <2>1. PICK l \in {m \in Lists(t, RestValues) : Len(m) = 1} \cup Patches(t) :
            c = [new |-> l, partial |-> NewFilterTypePartial,
                 delete |-> NoFilter]
    BY <1>6 DEF Merged
  <2>2. CASE l \in Lists(t, RestValues)
    BY <1>4, <2>1, <2>2 DEF Legal, Merging
  <2>3. CASE l \in Patches(t)
    <3>1. \E p \in ItemsOf(t) : c.new = <<p>> /\ DOMAIN p \cap KeysOf(t) = {}
      BY <1>1, <2>1, <2>3, PatchesAre
    <3>2. /\ c.delete = NoFilter /\ c.partial.given
          /\ c.partial.elements = {} /\ c.partial.selector = {}
      BY <2>1 DEF NewFilterTypePartial
    <3> QED
      BY <3>1, <3>2 DEF Legal, Patching, AtMostOne
  <2> QED
    BY <2>1, <2>2, <2>3
<1>7. CASE c \in Selected(t)
  <2>1. PICK l \in Patches(t), s \in Selectors(t) :
            c = [new |-> l, delete |-> NoFilter,
                 partial |-> [NewFilterTypePartial EXCEPT !.selector = {s}]]
    BY <1>7 DEF Selected
  <2>2. \E p \in ItemsOf(t) : c.new = <<p>> /\ DOMAIN p \cap KeysOf(t) = {}
    BY <1>1, <2>1, PatchesAre
  <2>3. /\ c.delete = NoFilter /\ c.partial.given
        /\ c.partial.elements = {} /\ c.partial.selector = {s}
    BY <2>1 DEF NewFilterTypePartial
  <2> QED
    BY <2>2, <2>3 DEF Legal, Patching, AtMostOne
<1>8. CASE c \in Delete(t)
  <2>1. PICK s \in {{}} \cup {{x} : x \in Selectors(t)}, e \in {{}, {Rest}} :
            c = [new |-> <<>>, partial |-> NoFilter,
                 delete |-> [given |-> TRUE, selector |-> s, elements |-> e]]
    <3> DEFINE ss == {{}} \cup {{x} : x \in Selectors(t)}
               es == {{}, {Rest}}
    <3>1. c \in {[new |-> <<>>, partial |-> NoFilter,
                  delete |-> [given |-> TRUE, selector |-> s,
                              elements |-> e]] : s \in ss, e \in es}
      BY <1>8 DEF Delete
    <3> HIDE DEF ss, es
    <3>2. \E s \in ss, e \in es :
            c = [new |-> <<>>, partial |-> NoFilter,
                 delete |-> [given |-> TRUE, selector |-> s, elements |-> e]]
      BY <3>1
    <3> QED
      BY <3>2, Zenon DEF ss, es
  <2> QED
    BY <2>1 DEF Legal, Deleting
<1> QED
  BY <1>2, <1>5, <1>6, <1>7, <1>8

-----------------------------------------------------------------------------
(* What a command makes of a list, by its kind.                            *)
AllAllowed(t, remote, list) ==
    \A i \in 1..Len(list) : Allowed(t, remote, list[i])
Patch(t, c, p) ==
    p \in ItemsOf(t) /\ c.new = <<p>> /\ DOMAIN p \cap KeysOf(t) = {}

Refused(list, d) == d.list = list /\ ~d.ok
Replaced(t, c, d) == Replacing(t, c) /\ d.list = c.new /\ d.ok
MergedIn(t, remote, list, c, d) ==
    /\ Merging(t, c) /\ AllAllowed(t, remote, list) /\ d.ok
    /\ d.list = SortData(t, Merge(t, remote, list, c.new).list)
ToAll(f, t, remote, list, c, d) ==
    /\ Patching(t, c) /\ FilterData(f, c.partial).selector = {}
    /\ \E p : /\ Patch(t, c, p)
              /\ d.list = copyToAllData(t, remote, list, p).list
ToSelected(f, t, remote, list, c, d) ==
    /\ Patching(t, c) /\ FilterData(f, c.partial).selector # {}
    /\ \E p : /\ Patch(t, c, p)
              /\ d.list = copyToSelectedData(t, remote, list,
                                             FilterData(f, c.partial), p).list
Removed(f, t, remote, list, c, d) ==
    /\ Deleting(t, c) /\ Found(FilterData(f, c.delete))
    /\ AllAllowed(t, remote, list) /\ d.ok
    /\ d.list = SortData(t, deleteFilteredData(t, remote, list,
                                FilterData(f, c.delete)).left)
Cleared(f, t, remote, list, c, d) ==
    /\ Deleting(t, c) /\ Found(FilterData(f, c.delete)) /\ ~d.ok
    /\ d.list = deleteFilteredData(t, remote, list,
                                   FilterData(f, c.delete)).inPlace
Ordered(f, t, remote, list, c, d) ==
    /\ Deleting(t, c) /\ ~Found(FilterData(f, c.delete))
    /\ AllAllowed(t, remote, list) /\ d.ok
    /\ d.list = SortData(t, list)
Effect(f, t, remote, list, c, d) ==
    \/ Refused(list, d)
    \/ Replaced(t, c, d)
    \/ MergedIn(t, remote, list, c, d)
    \/ ToAll(f, t, remote, list, c, d)
    \/ ToSelected(f, t, remote, list, c, d)
    \/ Removed(f, t, remote, list, c, d)
    \/ Cleared(f, t, remote, list, c, d)
    \/ Ordered(f, t, remote, list, c, d)
UpdateOf(f, remote, list, c) ==
    UpdateData(f, remote, list, c.new, c.partial, c.delete)

LEMMA EffectOf ==
    ASSUME NEW f \in Functions, NEW t, t = Schemas[f],
           NEW remote \in BOOLEAN, NEW list \in Seq(Full(t)),
           NEW c, Legal(t, c), NEW d, d = UpdateOf(f, remote, list, c)
    PROVE  /\ Effect(f, t, remote, list, c, d)
           /\ Refused(list, d) \/ SupportsPartialWrite(f) \/ Replacing(t, c)
           /\ ~remote /\ SupportsPartialWrite(f) => d.ok
<1>0. d = UpdateData(f, remote, list, c.new, c.partial, c.delete)
  BY DEF UpdateOf
<1>1. CASE Replacing(t, c)
  <2>1. c.partial = NoFilter /\ c.delete = NoFilter /\ ~NoFilter.given
    BY <1>1, NothingFound DEF Replacing
  <2>2. d.list = c.new /\ d.ok
    BY <1>0, <2>1, UpdateUnfiltered
  <2> QED
    BY <1>1, <2>2 DEF Replaced, Effect
<1>2. ASSUME ~Replacing(t, c)
      PROVE  c.partial.given \/ c.delete.given
  BY <1>2, NothingFound DEF Legal, Merging, Patching, Deleting
<1>3. CASE ~Replacing(t, c) /\ ~SupportsPartialWrite(f)
  <2>1. d.list = list /\ ~d.ok
    BY <1>0, <1>2, <1>3, UpdateUnsupported
  <2> QED
    BY <1>3, <2>1 DEF Refused, Effect
<1>4. CASE SupportsPartialWrite(f) /\ Merging(t, c)
  <2>1. /\ c.partial.given /\ ~Found(FilterData(f, c.partial))
        /\ c.delete = NoFilter /\ c.new \in Seq(Full(t))
    BY <1>4, NothingFound DEF Merging, Listing
  <2>2. /\ d.ok <=> \A i \in 1..Len(list) : Allowed(t, remote, list[i])
        /\ d.list = IF d.ok
                    THEN SortData(t, Merge(t, remote, list, c.new).list)
                    ELSE list
    BY <1>0, <1>4, <2>1, UpdateMerging
  <2>3. ~remote => d.ok
    BY <2>2 DEF Allowed
  <2> QED
    BY <1>4, <2>2, <2>3 DEF AllAllowed, MergedIn, Refused, Effect
<1>5. CASE SupportsPartialWrite(f) /\ Patching(t, c)
  <2>1. PICK p : Patch(t, c, p)
    BY <1>5 DEF Patching, Patch
  <2>2. /\ p \in ItemsOf(t) /\ c.new = <<p>> /\ c.new[1] = p
        /\ DOMAIN p \cap KeysOf(t) = {}
    BY <2>1 DEF Patch
  <2>3. c.delete = NoFilter /\ c.partial.given /\ c.partial.elements = {}
    BY <1>5 DEF Patching
  <2>4. PICK filter : filter = FilterData(f, c.partial)
    OBVIOUS
  <2>5. filter.elements = {}
    BY <2>3, <2>4 DEF FilterData
  <2>6. CASE filter.selector # {}
    <3>1. PICK r : r = copyToSelectedData(t, remote, list, filter, c.new[1])
      OBVIOUS
    <3>2. d.ok = r.ok /\ d.list = r.list
      BY <1>0, <1>5, <2>3, <2>4, <2>6, <3>1, UpdateSelected
    <3>3. r = copyToSelectedData(t, remote, list, filter, p)
      BY <2>2, <3>1
    <3>4. ~remote => r.ok
      BY <2>2, <2>6, <3>3, CopyToSelected DEF CopySelected
    <3> QED
      BY <1>5, <2>1, <2>4, <2>6, <3>2, <3>3, <3>4 DEF ToSelected, Effect
  <2>7. CASE filter.selector = {}
    <3>1. ~Found(FilterData(f, c.partial))
      BY <2>4, <2>5, <2>7 DEF Found
    <3>2. PICK r : r = copyToAllData(t, remote, list, p)
      OBVIOUS
    <3>3. d = UpdateData(f, remote, list, <<p>>, c.partial, NoFilter)
      BY <1>0, <2>2, <2>3
    <3>4. d.ok = r.ok /\ d.list = r.list
      BY <1>5, <2>2, <2>3, <3>1, <3>2, <3>3, UpdateAll
    <3>5. ~remote => r.ok
      BY <3>2 DEF copyToAllData
    <3> QED
      BY <1>5, <2>1, <2>4, <2>7, <3>2, <3>4, <3>5 DEF ToAll, Effect
  <2> QED
    BY <2>6, <2>7
<1>6. CASE SupportsPartialWrite(f) /\ Deleting(t, c)
  <2>1. /\ c.new = <<>> /\ c.partial = NoFilter
        /\ c.delete.given /\ c.delete.elements \subseteq {Rest}
    BY <1>6 DEF Deleting
  <2>2. PICK filter : filter = FilterData(f, c.delete)
    OBVIOUS
  <2>3. filter.elements \subseteq {Rest}
    BY <2>1, <2>2 DEF FilterData
  <2>4. PICK e : e = deleteFilteredData(t, remote, list, filter)
    OBVIOUS
  <2>5. d = UpdateData(f, remote, list, <<>>, NoFilter, c.delete)
    BY <1>0, <2>1
  <2>6. /\ d.ok <=> \A i \in 1..Len(list) : Allowed(t, remote, list[i])
        /\ d.list = IF Found(filter)
                    THEN IF d.ok THEN SortData(t, e.left) ELSE e.inPlace
                    ELSE IF d.ok THEN SortData(t, list) ELSE list
    BY <1>6, <2>1, <2>2, <2>3, <2>4, <2>5, UpdateDeleting
  <2>7. ~remote => d.ok
    BY <2>6 DEF Allowed
  <2> QED
    BY <1>6, <2>2, <2>4, <2>6, <2>7
    DEF AllAllowed, Removed, Cleared, Ordered, Refused, Effect
<1> QED
  BY <1>1, <1>3, <1>4, <1>5, <1>6 DEF Legal

(* Whatever the command, the list stays one whose items have their keys    *)
(* and guards and differ in their keys.                                    *)
LEMMA EffectKeeps ==
    ASSUME NEW f, NEW t, IsSchema(t),
           NEW remote \in BOOLEAN, NEW list, Listing(t, list),
           NEW c, NEW d, Effect(f, t, remote, list, c, d)
    PROVE  Listing(t, d.list)
<1>0. list \in Seq(Full(t)) /\ Distinct(t, list)
  BY DEF Listing
<1>s. ASSUME NEW l, Listing(t, l)
      PROVE  Listing(t, SortData(t, l))
  BY <1>s, SortKeeps DEF Listing
<1>c. ASSUME NEW r, NEW p, Patch(t, c, p), Copied(t, remote, list, p, r)
      PROVE  Listing(t, r)
  <2>1. r \in Seq(Full(t))
    BY <1>c DEF Copied
  <2>2. p \in ItemsOf(t) /\ DOMAIN p \cap KeysOf(t) = {}
    BY <1>c DEF Patch
  <2>3. Distinct(t, r)
    BY <1>0, <1>c, <2>2, CopiedKeeps DEF CopyKept
  <2> QED
    BY <2>1, <2>3 DEF Listing
<1>1. CASE Refused(list, d)
  BY <1>1 DEF Refused
<1>2. CASE Replaced(t, c, d)
  BY <1>2 DEF Replaced, Replacing
<1>3. CASE MergedIn(t, remote, list, c, d)
  <2>1. PICK r : r = Merge(t, remote, list, c.new).list
    OBVIOUS
  <2>2. c.new \in Seq(Full(t)) /\ Distinct(t, c.new)
    BY <1>3 DEF MergedIn, Merging, Listing
  <2>3. MergeResult(t, remote, list, c.new, r)
    BY <1>0, <2>1, <2>2, MergeKeeps
  <2>4. Listing(t, r)
    BY <1>0, <2>2, <2>3 DEF MergeResult, Listing
  <2> QED
    BY <1>3, <1>s, <2>1, <2>4 DEF MergedIn
<1>4. CASE ToAll(f, t, remote, list, c, d)
  <2>1. PICK p : /\ Patch(t, c, p)
                 /\ d.list = copyToAllData(t, remote, list, p).list
    BY <1>4 DEF ToAll
  <2>2. p \in ItemsOf(t)
    BY <2>1 DEF Patch
  <2>3. Copied(t, remote, list, p, d.list)
    BY <1>0, <2>1, <2>2, CopyToAll
  <2> QED
    BY <1>c, <2>1, <2>3
<1>5. CASE ToSelected(f, t, remote, list, c, d)
  <2>1. PICK p : /\ Patch(t, c, p)
                 /\ d.list = copyToSelectedData(t, remote, list,
                                        FilterData(f, c.partial), p).list
    BY <1>5 DEF ToSelected
  <2>2. p \in ItemsOf(t)
    BY <2>1 DEF Patch
  <2>3. Copied(t, remote, list, p, d.list)
    <3>1. PICK filter : filter = FilterData(f, c.partial)
      OBVIOUS
    <3>2. PICK r : r = copyToSelectedData(t, remote, list, filter, p)
      OBVIOUS
    <3>3. filter.selector # {}
      BY <1>5, <3>1 DEF ToSelected
    <3>4. CopySelected(t, remote, list, p, filter, r)
      BY <1>0, <2>2, <3>2, <3>3, CopyToSelected
    <3> QED
      BY <2>1, <3>1, <3>2, <3>4 DEF CopySelected
  <2> QED
    BY <1>c, <2>1, <2>3
<1>d. ASSUME Deleting(t, c)
      PROVE  /\ Listing(t, deleteFilteredData(t, remote, list,
                               FilterData(f, c.delete)).left)
             /\ Listing(t, deleteFilteredData(t, remote, list,
                               FilterData(f, c.delete)).inPlace)
  <2>1. PICK filter : filter = FilterData(f, c.delete)
    OBVIOUS
  <2>2. filter.elements \subseteq {Rest}
    BY <1>d, <2>1 DEF FilterData, Deleting
  <2>3. PICK e : e = deleteFilteredData(t, remote, list, filter)
    OBVIOUS
  <2>4. /\ e.inPlace \in Seq(Full(t)) /\ Len(e.inPlace) = Len(list)
        /\ \A i \in 1..Len(list) :
              e.inPlace[i] = Reduced(t, remote, filter, list[i])
        /\ e.left \in Seq(Full(t))
        /\ \E g : Leaves(t, remote, filter, list, e.left, g)
    <3>1. Deletes(t, remote, list, filter, e)
      BY <1>0, <2>2, <2>3, DeleteMakes
    <3> QED
      BY <3>1 DEF Deletes
  <2>5. PICK left \in Seq(Full(t)) : left = e.left
    BY <2>4
  <2>6. Distinct(t, left)
    BY <1>0, <2>2, <2>4, <2>5, LeavesKeep
  <2>7. PICK r \in Seq(Full(t)) : r = e.inPlace
    BY <2>4
  <2>8. ASSUME NEW x \in Full(t)
        PROVE  SameKeys(t, Reduced(t, remote, filter, x), x)
    BY <2>2, ReducedKeeps DEF ReducedIs
  <2>9. \A i \in 1..Len(list) : SameKeys(t, r[i], list[i])
    <3> SUFFICES ASSUME NEW i \in 1..Len(list)
                 PROVE  SameKeys(t, r[i], list[i])
      OBVIOUS
    <3>1. list[i] \in Full(t)
      BY <1>0
    <3> QED
      BY <2>4, <2>7, <2>8, <3>1
  <2>10. Distinct(t, r)
    <3> SUFFICES ASSUME NEW i \in 1..Len(list), NEW j \in 1..Len(list),
                        SameKeys(t, r[i], r[j])
                 PROVE  i = j
      BY <2>4, <2>7 DEF Distinct
    <3>1. SameKeys(t, list[i], list[j])
      BY <2>9 DEF SameKeys
    <3> QED
      BY <1>0, <3>1 DEF Distinct
  <2> QED
    BY <2>1, <2>3, <2>5, <2>6, <2>7, <2>10 DEF Listing
<1>6. CASE Removed(f, t, remote, list, c, d)
  BY <1>6, <1>d, <1>s DEF Removed
<1>7. CASE Cleared(f, t, remote, list, c, d)
  BY <1>7, <1>d DEF Cleared
<1>8. CASE Ordered(f, t, remote, list, c, d)
  BY <1>8, <1>s DEF Ordered
<1> QED
  BY <1>1, <1>2, <1>3, <1>4, <1>5, <1>6, <1>7, <1>8 DEF Effect

LEMMA Updating ==
    ASSUME NEW f \in Functions, NEW t, t = Schemas[f], NEW remote \in BOOLEAN,
           NEW list, Listing(t, list), NEW c \in Commands[f],
           NEW d, d = UpdateOf(f, remote, list, c)
    PROVE  Listing(t, d.list) /\ Effect(f, t, remote, list, c, d)
<1>1. Legal(t, c) /\ IsSchema(t)
  BY CommandsLegal, SchemasAre
<1>2. list \in Seq(Full(t))
  BY DEF Listing
<1>3. Effect(f, t, remote, list, c, d)
  BY <1>1, <1>2, EffectOf
<1> QED
  BY <1>1, <1>3, EffectKeeps

(* What the client does with data that it is sent.                         *)
Partially(m) ==
    [NoFilter EXCEPT !.given = m.filtered, !.selector = m.selector]
Received(f, list, m) ==
    UpdateData(f, FALSE, list, m.list, Partially(m), NoFilter).list

ReceivedAs(f, t, list, m, r) ==
    /\ ~m.filtered => r = m.list
    /\ m.filtered /\ ~SupportsPartialWrite(f) => r = list
    /\ m.filtered /\ SupportsPartialWrite(f) /\ m.selector = {}
           => r = SortData(t, Merge(t, FALSE, list, m.list).list)
    /\ (m.selector # {} => m.list # <<>>) => r \in Seq(Full(t))

LEMMA ReceivedIs ==
    ASSUME NEW f \in Functions, NEW t, t = Schemas[f],
           NEW list \in Seq(Full(t)), NEW m, m.list \in Seq(Full(t)),
           m.filtered \in BOOLEAN,
           NEW r, r = Received(f, list, m)
    PROVE  ReceivedAs(f, t, list, m, r)
<1>1. PICK p : p = Partially(m)
  OBVIOUS
<1>2. /\ p.given = m.filtered /\ p.selector = m.selector /\ p.elements = {}
      /\ NoFilter.given = FALSE
  BY <1>1 DEF Partially, NoFilter
<1>n. PICK new \in Seq(Full(t)) : new = m.list
  OBVIOUS
<1>l. PICK local \in BOOLEAN : local = FALSE
  OBVIOUS
<1>3. PICK d : d = UpdateData(f, local, list, new, p, NoFilter)
  OBVIOUS
<1>4. r = d.list
  BY <1>1, <1>n, <1>l, <1>3 DEF Received
<1>5. IsSchema(t)
  BY SchemasAre
<1>6. ~m.filtered => r = m.list
  <2>1. ~m.filtered => ~p.given /\ ~NoFilter.given
    BY <1>2
  <2> QED
    BY <1>3, <1>4, <1>n, <2>1, UpdateUnfiltered
<1>7. m.filtered /\ ~SupportsPartialWrite(f) => r = list
  <2>1. m.filtered => p.given
    BY <1>2
  <2> QED
    BY <1>3, <1>4, <2>1, UpdateUnsupported
<1>8. PICK filter : filter = FilterData(f, p)
  OBVIOUS
<1>9. filter.elements = {} /\ (m.selector = {} => filter.selector = {})
  BY <1>2, <1>8 DEF FilterData
<1>10. ASSUME m.filtered, SupportsPartialWrite(f), filter.selector = {}
       PROVE  /\ r = SortData(t, Merge(t, local, list, new).list)
              /\ r \in Seq(Full(t))
  <2>1. ~Found(FilterData(f, p))
    BY <1>8, <1>9, <1>10 DEF Found
  <2>2. p.given
    BY <1>2, <1>10
  <2>4. /\ d.ok <=> \A i \in 1..Len(list) : Allowed(t, local, list[i])
        /\ d.list = IF d.ok THEN SortData(t, Merge(t, local, list, new).list)
                    ELSE list
    BY <1>3, <1>10, <2>1, <2>2, UpdateMerging
  <2>5. r = SortData(t, Merge(t, local, list, new).list)
    BY <1>4, <1>l, <2>4 DEF Allowed
  <2>6. PICK l : l = Merge(t, local, list, new).list
    OBVIOUS
  <2>7. MergeResult(t, local, list, new, l)
    BY <1>5, <2>6, MergeKeeps
  <2>8. l \in Seq(Full(t))
    BY <2>7 DEF MergeResult
  <2> QED
    BY <1>5, <2>5, <2>6, <2>8, SortKeeps
<1>11. ASSUME m.filtered, SupportsPartialWrite(f), filter.selector # {},
              m.selector # {} => m.list # <<>>
       PROVE  r \in Seq(Full(t))
  <2>1. m.list # <<>>
    BY <1>9, <1>11
  <2>2. PICK x : x = new[1]
    OBVIOUS
  <2>3. x \in ItemsOf(t)
    BY <1>n, <2>1, <2>2 DEF Full
  <2>4. PICK c : c = copyToSelectedData(t, local, list, filter, x)
    OBVIOUS
  <2>5. p.given
    BY <1>2, <1>11
  <2>6. d.ok = c.ok /\ d.list = c.list
    BY <1>3, <1>8, <1>11, <2>2, <2>4, <2>5, UpdateSelected
  <2>7. Copied(t, local, list, x, c.list)
    BY <1>11, <2>3, <2>4, CopyToSelected DEF CopySelected
  <2> QED
    BY <1>4, <2>6, <2>7 DEF Copied
<1>12. (m.selector # {} => m.list # <<>>) => r \in Seq(Full(t))
  BY <1>6, <1>7, <1>10, <1>11
<1> QED
  BY <1>6, <1>7, <1>9, <1>10, <1>12, <1>l, <1>n DEF ReceivedAs

-----------------------------------------------------------------------------
(* The types of the exchange, for function f of schema t.                  *)
RequestsOf(f) ==
    {[kind |-> "read"]} \cup
    [kind : {"write"}, command : Commands[f], ack : BOOLEAN]
MessagesOf(t) ==
    {m \in [kind : {"notify", "reply", "error", "ok"}, list : Seq(Full(t)),
            filtered : BOOLEAN, selector : SUBSET Selectors(t)] :
        Distinct(t, m.list)}
CallsOf(t) ==
    {call \in [step : {"idle", "updated", "copied", "notified"},
               alone : BOOLEAN, ack : BOOLEAN,
               selector : SUBSET Selectors(t), filtered : BOOLEAN,
               message : {<<>>} \cup MessagesOf(t)] :
        call.step = "copied" => call.message \in MessagesOf(t)}
Typed(f, t, list, other, a, r, requests, messages) ==
    /\ f \in Functions /\ t = Schemas[f]
    /\ Listing(t, list) /\ other \in Seq(Full(t))
    /\ a \in CallsOf(t) /\ r \in CallsOf(t)
    /\ requests \in Seq(RequestsOf(f)) /\ Len(requests) <= MaxRequests
    /\ messages \in Seq(MessagesOf(t))
TypeInv ==
    /\ Typed(function, Schema, data, copy, app, reader, up, down)
    /\ calls \in 0..MaxCalls
    /\ lossy \in BOOLEAN

LEMMA EmptyList ==
    ASSUME NEW t
    PROVE  Listing(t, <<>>)
BY DEF Listing, Distinct

LEMMA IdleCall ==
    ASSUME NEW t, NEW step \in {"idle", "updated"}, NEW alone \in BOOLEAN,
           NEW ack \in BOOLEAN, NEW selector \in SUBSET Selectors(t),
           NEW filtered \in BOOLEAN,
           NEW call, call = [step |-> step, alone |-> alone, ack |-> ack,
                             selector |-> selector, filtered |-> filtered,
                             message |-> <<>>]
    PROVE  call \in CallsOf(t)
<1>1. step # "copied"
  OBVIOUS
<1> QED
  BY <1>1 DEF CallsOf

LEMMA ChangedCall ==
    ASSUME NEW t, NEW call \in CallsOf(t)
    PROVE  /\ Overtaken(call) \in CallsOf(t)
           /\ \A m \in MessagesOf(t) :
                 [call EXCEPT !.step = "copied", !.message = m] \in CallsOf(t)
           /\ [call EXCEPT !.step = "notified"] \in CallsOf(t)
<1>1. Overtaken(call) \in CallsOf(t)
  BY DEF Overtaken, CallsOf
<1>2. ASSUME NEW m \in MessagesOf(t)
      PROVE  [call EXCEPT !.step = "copied", !.message = m] \in CallsOf(t)
  BY DEF CallsOf
<1>3. [call EXCEPT !.step = "notified"] \in CallsOf(t)
  <2>1. "notified" # "copied"
    OBVIOUS
  <2> QED
    BY <2>1 DEF CallsOf
<1> QED
  BY <1>1, <1>2, <1>3

LEMMA MessageOf ==
    ASSUME NEW t, NEW kind \in {"notify", "reply", "error", "ok"},
           NEW list, Listing(t, list), NEW filtered \in BOOLEAN,
           NEW selector \in SUBSET Selectors(t),
           NEW m, m = [kind |-> kind, list |-> list, filtered |-> filtered,
                       selector |-> selector]
    PROVE  m \in MessagesOf(t)
BY DEF MessagesOf, Listing

(* The filters of a command are for the fields of its selectors.           *)
LEMMA SelectorsOf ==
    ASSUME NEW f, NEW t, NEW c, Legal(t, c)
    PROVE  /\ FilterData(f, c.partial).selector \in SUBSET Selectors(t)
           /\ c.partial.given \in BOOLEAN /\ c.delete.given \in BOOLEAN
<1>1. /\ NoFilter.selector = {} /\ NewFilterTypePartial.selector = {}
      /\ NoFilter.given = FALSE /\ NewFilterTypePartial.given = TRUE
  BY DEF NoFilter, NewFilterTypePartial
<1>2. c.partial.selector \in SUBSET Selectors(t)
  BY <1>1 DEF Legal, Replacing, Merging, Patching, Deleting, AtMostOne
<1>3. PICK g : g = c.partial.given
  OBVIOUS
<1>4. PICK h : h = c.delete.given
  OBVIOUS
<1>5. g \in {TRUE, FALSE} /\ h \in {TRUE, FALSE}
  BY <1>1, <1>3, <1>4 DEF Legal, Replacing, Merging, Patching, Deleting
<1>6. FilterData(f, c.partial).selector \in SUBSET Selectors(t)
  BY <1>2 DEF FilterData
<1> QED
  BY <1>3, <1>4, <1>5, <1>6

LEMMA TypeInit ==
    ASSUME Init
    PROVE  TypeInv
<1>1. PICK f \in Functions : f = function
  BY DEF Init
<1>2. PICK t : t = Schemas[f]
  OBVIOUS
<1>3. IsSchema(t)
  BY <1>2, SchemasAre
<1>4. Listing(t, data)
  <2>1. {Initially} \subseteq Values
    BY DEF Values
  <2>2. data = <<>> \/ data \in Lists(t, {Initially})
    BY <1>1, <1>2 DEF Init, Schema
  <2> QED
    BY <1>3, <2>1, <2>2, ListsAre, EmptyList
<1>5. Idle \in CallsOf(t)
  BY IdleCall DEF Idle
<1>6. MaxCalls \in Nat /\ MaxRequests \in Nat
  BY BoundsAssumption
<1>7. Typed(f, t, data, copy, app, reader, up, down)
  BY <1>1, <1>2, <1>4, <1>5, <1>6 DEF Init, Typed, Listing
<1>8. calls \in 0..MaxCalls /\ lossy \in BOOLEAN
  <2>1. calls = 0 /\ lossy = FALSE
    BY DEF Init
  <2>2. 0 \in 0..MaxCalls
    BY <1>6
  <2> QED
    BY <2>1, <2>2
<1>9. Typed(function, Schema, data, copy, app, reader, up, down)
  BY <1>1, <1>2, <1>7 DEF Schema
<1> QED
  BY <1>8, <1>9 DEF TypeInv

(* The steps that change the server's list.                                *)
UpdateSteps ==
    \/ \E command \in Commands[function] : AppUpdate(command)
    \/ RefuseWrite \/ ExecuteWrite

LEMMA HeadOfRequests ==
    ASSUME NEW f, NEW requests \in Seq(RequestsOf(f)), requests # <<>>
    PROVE  /\ Tail(requests) \in Seq(RequestsOf(f))
           /\ Len(Tail(requests)) < Len(requests)
           /\ Head(requests).kind = "write" =>
                 /\ Head(requests).command \in Commands[f]
                 /\ Head(requests).ack \in BOOLEAN
<1>1. Head(requests) \in RequestsOf(f)
  OBVIOUS
<1>2. "write" # "read"
  OBVIOUS
<1> QED
  BY <1>1, <1>2 DEF RequestsOf

LEMMA UpdateSelectors ==
    ASSUME NEW f \in Functions, NEW t, t = Schemas[f], NEW c \in Commands[f]
    PROVE  /\ FilterData(f, c.partial).selector \in SUBSET Selectors(t)
           /\ c.partial.given \in BOOLEAN /\ c.delete.given \in BOOLEAN
BY CommandsLegal, SelectorsOf

LEMMA TypeUpdates ==
    ASSUME TypeInv, UpdateSteps
    PROVE  TypeInv'
<1>1. PICK f \in Functions : f = function
  BY DEF TypeInv, Typed
<1>2. PICK t : t = Schemas[f] /\ t = Schema
  BY <1>1 DEF Schema
<1>3. Typed(f, t, data, copy, app, reader, up, down)
  BY <1>1, <1>2 DEF TypeInv
<1>4. /\ Listing(t, data) /\ copy \in Seq(Full(t))
      /\ app \in CallsOf(t) /\ reader \in CallsOf(t)
      /\ up \in Seq(RequestsOf(f)) /\ Len(up) <= MaxRequests
      /\ down \in Seq(MessagesOf(t))
  BY <1>3 DEF Typed
<1>5. calls \in 0..MaxCalls /\ lossy \in BOOLEAN
  BY DEF TypeInv
<1>6. MaxCalls \in Nat /\ MaxRequests \in Nat
  BY BoundsAssumption
<1>7. Overtaken(app) \in CallsOf(t) /\ Overtaken(reader) \in CallsOf(t)
  BY <1>4, ChangedCall
<1>8. SUFFICES /\ Typed(f, t, data', copy', app', reader', up', down')
               /\ function' = function
               /\ calls' \in 0..MaxCalls /\ lossy' \in BOOLEAN
  BY <1>1, <1>2 DEF TypeInv, Schema
<1>9. ASSUME NEW c \in Commands[f], NEW remote \in BOOLEAN
      PROVE  Listing(t, UpdateOf(f, remote, data, c).list)
  BY <1>2, <1>4, Updating
<1>10. ASSUME NEW c \in Commands[f], AppUpdate(c)
       PROVE  /\ Typed(f, t, data', copy', app', reader', up', down')
              /\ function' = function
              /\ calls' \in 0..MaxCalls /\ lossy' \in BOOLEAN
  <2>1. PICK local \in BOOLEAN : local = FALSE
    OBVIOUS
  <2>2. PICK d : d = UpdateOf(f, local, data, c)
    OBVIOUS
  <2>3. PICK s \in SUBSET Selectors(t) : s = FilterData(f, c.partial).selector
    BY <1>2, UpdateSelectors
  <2>4. PICK g \in BOOLEAN : g = (c.partial.given \/ c.delete.given)
    BY <1>2, UpdateSelectors
  <2>5. Listing(t, d.list)
    BY <1>9, <2>2
  <2>6. d = UpdateData(function, FALSE, data, c.new, c.partial, c.delete)
    BY <1>1, <2>1, <2>2 DEF UpdateOf
  <2>7. /\ calls < MaxCalls /\ calls' = calls + 1 /\ data' = d.list
        /\ IF d.ok
           THEN /\ app' = [Idle EXCEPT !.step = "updated",
                              !.alone = ~Busy(reader), !.selector = s,
                              !.filtered = g]
                /\ reader' = Overtaken(reader)
                /\ lossy' = (lossy \/ Busy(reader) \/ s # {}
                             \/ c.delete.given)
           ELSE UNCHANGED <<app, reader, lossy>>
        /\ UNCHANGED <<function, copy, up, down>>
    BY <1>1, <1>10, <2>3, <2>4, <2>6 DEF AppUpdate
  <2>8. app' \in CallsOf(t) /\ reader' \in CallsOf(t) /\ lossy' \in BOOLEAN
    <3>1. CASE ~d.ok
      BY <1>4, <1>5, <2>7, <3>1
    <3>2. CASE d.ok
      <4>1. PICK b \in BOOLEAN : b = ~Busy(reader)
        OBVIOUS
      <4>2. app' = [step |-> "updated", alone |-> b, ack |-> FALSE,
                    selector |-> s, filtered |-> g, message |-> <<>>]
        BY <2>7, <3>2, <4>1 DEF Idle
      <4>3. app' \in CallsOf(t)
        BY <4>2, IdleCall
      <4> QED
        BY <1>7, <2>7, <3>2, <4>3
    <3> QED
      BY <3>1, <3>2
  <2>9. calls' \in 0..MaxCalls
    BY <1>5, <1>6, <2>7
  <2> QED
    BY <1>2, <1>4, <2>5, <2>7, <2>8, <2>9 DEF Typed
<1>11. ASSUME WriteReceived
       PROVE  /\ Head(up).command \in Commands[f]
              /\ Head(up).ack \in BOOLEAN
              /\ Tail(up) \in Seq(RequestsOf(f))
              /\ Len(Tail(up)) <= MaxRequests
  <2>1. /\ Tail(up) \in Seq(RequestsOf(f)) /\ Len(Tail(up)) < Len(up)
        /\ Head(up).command \in Commands[f] /\ Head(up).ack \in BOOLEAN
    BY <1>4, <1>11, HeadOfRequests DEF WriteReceived
  <2>2. Len(up) \in Nat /\ Len(Tail(up)) \in Nat
    BY <1>4, <2>1
  <2> QED
    BY <1>4, <1>6, <2>1, <2>2
<1>12. CASE RefuseWrite
  <2>0. WriteReceived
    BY <1>12 DEF RefuseWrite
  <2>1. PICK c \in Commands[f] : c = Head(up).command
    BY <1>11, <2>0
  <2>2. PICK remote \in BOOLEAN : remote = TRUE
    OBVIOUS
  <2>3. PICK d : d = UpdateOf(f, remote, data, c)
    OBVIOUS
  <2>4. Listing(t, d.list)
    BY <1>9, <2>3
  <2>5. d = Written(Head(up).command)
    BY <1>1, <2>1, <2>2, <2>3 DEF UpdateOf, Written
  <2>6. /\ up' = Tail(up) /\ data' = d.list
        /\ app' = (IF d.list # data THEN Overtaken(app) ELSE app)
        /\ lossy' = (lossy \/ d.list # data)
        /\ down' = Append(down, Result("error"))
        /\ UNCHANGED <<function, copy, reader, calls>>
    BY <1>12, <2>5 DEF RefuseWrite
  <2>7. Result("error") \in MessagesOf(t)
    <3>1. {} \in SUBSET Selectors(t)
      OBVIOUS
    <3> QED
      BY <3>1, EmptyList, MessageOf DEF Result
  <2>8. down' \in Seq(MessagesOf(t))
    BY <1>4, <2>6, <2>7
  <2> QED
    BY <1>2, <1>4, <1>5, <1>7, <1>11, <2>0, <2>4, <2>6, <2>8 DEF Typed
<1>13. CASE ExecuteWrite
  <2>0. WriteReceived
    BY <1>13 DEF ExecuteWrite
  <2>1. PICK c \in Commands[f] : c = Head(up).command
    BY <1>11, <2>0
  <2>2. PICK remote \in BOOLEAN : remote = TRUE
    OBVIOUS
  <2>3. PICK d : d = UpdateOf(f, remote, data, c)
    OBVIOUS
  <2>4. Listing(t, d.list)
    BY <1>9, <2>3
  <2>5. d = Written(Head(up).command)
    BY <1>1, <2>1, <2>2, <2>3 DEF UpdateOf, Written
  <2>6. PICK b \in BOOLEAN : b = ~Busy(app)
    OBVIOUS
  <2>7. PICK k \in BOOLEAN : k = Head(up).ack
    BY <1>11, <2>0
  <2>8. /\ up' = Tail(up) /\ data' = d.list
        /\ reader' = [Idle EXCEPT !.step = "updated", !.alone = b, !.ack = k]
        /\ app' = Overtaken(app)
        /\ lossy' = (lossy \/ Busy(app))
        /\ UNCHANGED <<function, copy, down, calls>>
    BY <1>13, <2>5, <2>6, <2>7 DEF ExecuteWrite
  <2>9. reader' \in CallsOf(t)
    <3>1. reader' = [step |-> "updated", alone |-> b, ack |-> k,
                     selector |-> {}, filtered |-> FALSE, message |-> <<>>]
      BY <2>8 DEF Idle
    <3>2. {} \in SUBSET Selectors(t)
      OBVIOUS
    <3> QED
      BY <3>1, <3>2, IdleCall
  <2> QED
    BY <1>2, <1>4, <1>5, <1>7, <1>11, <2>0, <2>4, <2>8, <2>9 DEF Typed
<1> QED
  BY <1>1, <1>10, <1>12, <1>13 DEF UpdateSteps

(* The steps that send and receive.                                        *)
OtherSteps ==
    \/ AppCopy \/ AppNotify
    \/ ClientRead
    \/ \E command \in Commands[function], ack \in BOOLEAN :
          ClientWrite(command, ack)
    \/ HandleRead \/ RejectWrite
    \/ ReaderCopy \/ ReaderSend \/ ReaderAck
    \/ ClientReceive

LEMMA NotifyMessage ==
    ASSUME NEW t, NEW list, Listing(t, list), NEW call \in CallsOf(t)
    PROVE  NotifyOrWriteCmdType(list, call) \in MessagesOf(t)
<1>1. PICK g \in BOOLEAN : g = call.filtered
  BY DEF CallsOf
<1>2. PICK s \in SUBSET Selectors(t) :
          s = IF function \in UnsentSelectors THEN {} ELSE call.selector
  BY DEF CallsOf
<1>3. NotifyOrWriteCmdType(list, call)
          = [kind |-> "notify", list |-> list, filtered |-> g, selector |-> s]
  BY <1>1, <1>2 DEF NotifyOrWriteCmdType
<1> QED
  BY <1>3, MessageOf

LEMMA TypeOthers ==
    ASSUME TypeInv, OtherSteps
    PROVE  TypeInv'
<1>1. PICK f \in Functions : f = function
  BY DEF TypeInv, Typed
<1>2. PICK t : t = Schemas[f] /\ t = Schema
  BY <1>1 DEF Schema
<1>3. Typed(f, t, data, copy, app, reader, up, down)
  BY <1>1, <1>2 DEF TypeInv
<1>4. /\ Listing(t, data) /\ copy \in Seq(Full(t))
      /\ app \in CallsOf(t) /\ reader \in CallsOf(t)
      /\ up \in Seq(RequestsOf(f)) /\ Len(up) <= MaxRequests
      /\ down \in Seq(MessagesOf(t))
  BY <1>3 DEF Typed
<1>5. calls \in 0..MaxCalls /\ lossy \in BOOLEAN
  BY DEF TypeInv
<1>6. MaxCalls \in Nat /\ MaxRequests \in Nat
  BY BoundsAssumption
<1>7. Overtaken(app) \in CallsOf(t) /\ Idle \in CallsOf(t)
  BY <1>4, ChangedCall, IdleCall DEF Idle
<1>8. SUFFICES /\ Typed(f, t, data', copy', app', reader', up', down')
               /\ function' = function
               /\ calls' \in 0..MaxCalls /\ lossy' \in BOOLEAN
  BY <1>1, <1>2 DEF TypeInv, Schema
<1>9. \A kind \in {"error", "ok"} : Result(kind) \in MessagesOf(t)
  <2>1. {} \in SUBSET Selectors(t)
    OBVIOUS
  <2> QED
    BY <2>1, EmptyList, MessageOf DEF Result
<1>10. ASSUME NEW m \in MessagesOf(t)
       PROVE  Append(down, m) \in Seq(MessagesOf(t))
  BY <1>4
<1>11. CASE AppCopy
  <2>1. PICK m \in MessagesOf(t) : m = NotifyOrWriteCmdType(data, app)
    BY <1>4, NotifyMessage
  <2>2. app' \in CallsOf(t)
    BY <1>4, <1>11, <2>1, ChangedCall DEF AppCopy
  <2> QED
    BY <1>2, <1>4, <1>5, <1>11, <2>2 DEF AppCopy, Typed
<1>12. CASE AppNotify
  <2>1. app.message \in MessagesOf(t)
    BY <1>4, <1>12 DEF AppNotify, CallsOf
  <2>2. down' \in Seq(MessagesOf(t)) /\ lossy' \in BOOLEAN
    BY <1>5, <1>10, <1>12, <2>1 DEF AppNotify, Sent
  <2> QED
    BY <1>2, <1>4, <1>5, <1>7, <1>12, <2>2 DEF AppNotify, Typed
<1>13. ASSUME calls < MaxCalls
       PROVE  calls + 1 \in 0..MaxCalls
  BY <1>5, <1>6, <1>13
<1>14. ASSUME NEW x \in RequestsOf(f), Len(up) < MaxRequests
       PROVE  Append(up, x) \in Seq(RequestsOf(f))
              /\ Len(Append(up, x)) <= MaxRequests
  BY <1>4, <1>6, <1>14
<1>15. CASE ClientRead
  <2>1. [kind |-> "read"] \in RequestsOf(f)
    BY DEF RequestsOf
  <2>2. up' \in Seq(RequestsOf(f)) /\ Len(up') <= MaxRequests
    BY <1>14, <1>15, <2>1 DEF ClientRead
  <2> QED
    BY <1>2, <1>4, <1>5, <1>13, <1>15, <2>2 DEF ClientRead, Typed
<1>16. ASSUME NEW c \in Commands[f], NEW ack \in BOOLEAN, ClientWrite(c, ack)
       PROVE  /\ Typed(f, t, data', copy', app', reader', up', down')
              /\ function' = function
              /\ calls' \in 0..MaxCalls /\ lossy' \in BOOLEAN
  <2>1. [kind |-> "write", command |-> c, ack |-> ack] \in RequestsOf(f)
    BY DEF RequestsOf
  <2>2. up' \in Seq(RequestsOf(f)) /\ Len(up') <= MaxRequests
    BY <1>14, <1>16, <2>1 DEF ClientWrite
  <2> QED
    BY <1>2, <1>4, <1>5, <1>13, <1>16, <2>2 DEF ClientWrite, Typed
<1>17. ASSUME up # <<>>
       PROVE  Tail(up) \in Seq(RequestsOf(f)) /\ Len(Tail(up)) <= MaxRequests
  <2>1. Tail(up) \in Seq(RequestsOf(f)) /\ Len(Tail(up)) < Len(up)
    BY <1>4, <1>17, HeadOfRequests
  <2>2. Len(up) \in Nat /\ Len(Tail(up)) \in Nat
    BY <1>4, <2>1
  <2> QED
    BY <1>4, <1>6, <2>1, <2>2
<1>18. CASE HandleRead
  <2>1. PICK m : m = ReplyCmdType(data)
    OBVIOUS
  <2>2. m \in MessagesOf(t)
    <3>1. {} \in SUBSET Selectors(t) /\ FALSE \in BOOLEAN
      OBVIOUS
    <3> QED
      BY <1>4, <2>1, <3>1, MessageOf DEF ReplyCmdType
  <2>3. PICK b \in BOOLEAN : b = ~Busy(app)
    OBVIOUS
  <2>4. reader' = [Idle EXCEPT !.step = "copied", !.alone = b, !.message = m]
    BY <1>18, <2>1, <2>3 DEF HandleRead
  <2>5. reader' = [step |-> "copied", alone |-> b, ack |-> FALSE,
                   selector |-> {}, filtered |-> FALSE, message |-> m]
    BY <2>4 DEF Idle
  <2>6. {} \in SUBSET Selectors(t)
    OBVIOUS
  <2>7. reader' \in CallsOf(t)
    BY <2>2, <2>5, <2>6 DEF CallsOf
  <2> QED
    BY <1>2, <1>4, <1>5, <1>7, <1>17, <1>18, <2>7 DEF HandleRead, Typed
<1>19. CASE RejectWrite
  <2>1. down' \in Seq(MessagesOf(t))
    BY <1>9, <1>10, <1>19 DEF RejectWrite
  <2> QED
    BY <1>2, <1>4, <1>5, <1>17, <1>19, <2>1
    DEF RejectWrite, WriteReceived, Typed
<1>20. CASE ReaderCopy
  <2>1. PICK m \in MessagesOf(t) : m = NotifyOrWriteCmdType(data, reader)
    BY <1>4, NotifyMessage
  <2>2. reader' \in CallsOf(t)
    BY <1>4, <1>20, <2>1, ChangedCall DEF ReaderCopy
  <2> QED
    BY <1>2, <1>4, <1>5, <1>20, <2>2 DEF ReaderCopy, Typed
<1>21. CASE ReaderSend
  <2>1. reader.message \in MessagesOf(t)
    BY <1>4, <1>21 DEF ReaderSend, CallsOf
  <2>2. down' \in Seq(MessagesOf(t)) /\ lossy' \in BOOLEAN
    BY <1>5, <1>10, <1>21, <2>1 DEF ReaderSend, Sent
  <2>3. reader' \in CallsOf(t)
    BY <1>4, <1>7, <1>21, ChangedCall DEF ReaderSend
  <2> QED
    BY <1>2, <1>4, <1>5, <1>21, <2>2, <2>3 DEF ReaderSend, Typed
<1>22. CASE ReaderAck
  <2>1. down' \in Seq(MessagesOf(t))
    BY <1>9, <1>10, <1>22 DEF ReaderAck
  <2> QED
    BY <1>2, <1>4, <1>5, <1>7, <1>22, <2>1 DEF ReaderAck, Typed
<1>23. CASE ClientReceive
  <2>1. down # <<>>
    BY <1>23 DEF ClientReceive
  <2>2. PICK m \in MessagesOf(t) : m = Head(down)
    BY <1>4, <2>1
  <2>3. m.list \in Seq(Full(t)) /\ m.filtered \in BOOLEAN
    BY DEF MessagesOf
  <2>4. m.selector # {} => m.list # <<>>
    BY <1>23, <2>2 DEF ClientReceive
  <2>5. PICK r : r = Received(f, copy, m)
    OBVIOUS
  <2>6. r \in Seq(Full(t))
    BY <1>2, <1>4, <2>3, <2>4, <2>5, ReceivedIs DEF ReceivedAs
  <2>7. copy' = r \/ copy' = copy
    BY <1>1, <1>23, <2>2, <2>5 DEF ClientReceive, Received, Partially
  <2>8. /\ down' = Tail(down)
        /\ UNCHANGED <<function, data, app, reader, up, calls, lossy>>
    BY <1>23 DEF ClientReceive
  <2>9. down' \in Seq(MessagesOf(t))
    BY <1>4, <2>1, <2>8
  <2> QED
    BY <1>2, <1>4, <1>5, <2>6, <2>7, <2>8, <2>9 DEF Typed
<1> QED
  BY <1>1, <1>11, <1>12, <1>15, <1>16, <1>18, <1>19, <1>20, <1>21, <1>22,
     <1>23 DEF OtherSteps

LEMMA StepKinds ==
    ASSUME Next
    PROVE  UpdateSteps \/ OtherSteps
BY DEF Next, UpdateSteps, OtherSteps

LEMMA TypeStutters ==
    ASSUME TypeInv, UNCHANGED vars
    PROVE  TypeInv'
BY DEF TypeInv, vars, Schema

LEMMA TypeAlways == Spec => []TypeInv
<1>1. Init => TypeInv
  BY TypeInit
<1>2. TypeInv /\ [Next]_vars => TypeInv'
  BY StepKinds, TypeUpdates, TypeOthers, TypeStutters
<1> QED
  BY <1>1, <1>2, PTL DEF Spec

LEMMA TypesImply ==
    ASSUME TypeInv
    PROVE  DataTypeOK
<1>1. PICK f \in Functions : f = function
  BY DEF TypeInv, Typed
<1>2. PICK t : t = Schemas[f] /\ t = Schema
  BY <1>1 DEF Schema
<1>3. /\ Listing(t, data) /\ copy \in Seq(Full(t))
      /\ app \in CallsOf(t) /\ reader \in CallsOf(t)
      /\ Len(up) <= MaxRequests
  BY <1>1, <1>2 DEF TypeInv, Typed
<1>4. KeyFields = KeysOf(t)
  BY <1>2 DEF KeyFields, KeysOf, ItemsIn
<1>5. ASSUME NEW x \in Full(t)
      PROVE  /\ KeyFields \subseteq DOMAIN x
             /\ DOMAIN x \subseteq {Rest} \cup Schema.check \cup KeyFields
  BY <1>2, <1>4, ItemsHave DEF Full, FieldsOf
<1>6. data \in Seq(Full(t)) /\ Distinct(t, data)
  BY <1>3 DEF Listing
<1>7. Identified(data)
  <2>1. \A i \in 1..Len(data) : data[i] \in Full(t)
    BY <1>6
  <2>2. \A i \in 1..Len(data) : KeyFields \subseteq DOMAIN data[i]
    BY <1>5, <2>1
  <2>3. \A i, j \in 1..Len(data) :
            (\A f_1 \in KeyFields : data[i][f_1] = data[j][f_1]) => i = j
    BY <1>4, <1>6 DEF Distinct, SameKeys
  <2> QED
    BY <2>2, <2>3 DEF Identified
<1>8. \A item \in ItemsIn(data) \cup ItemsIn(copy) : item \in Full(t)
  BY <1>3, <1>6 DEF ItemsIn
<1>9. \A call \in {app, reader} :
          /\ call.step \in {"idle", "updated", "copied", "notified"}
          /\ call.alone \in BOOLEAN /\ call.ack \in BOOLEAN
  BY <1>3 DEF CallsOf
<1> QED
  BY <1>1, <1>3, <1>5, <1>7, <1>8, <1>9 DEF DataTypeOK, TypeInv

(* Every list of the model keeps its types, and the server's items keep    *)
(* their keys and stay distinct, whatever is merged, copied and deleted by *)
(* the application and by the client, with the function of any list whose  *)
(* items have keys: DataTypeOK.                                            *)
THEOREM DataTypesCorrect == Spec => []DataTypeOK
<1>1. TypeInv => DataTypeOK
  BY TypesImply
<1> QED
  BY <1>1, TypeAlways, PTL

-----------------------------------------------------------------------------
(* What a remote write with a filter leaves of a list.                     *)
ByKeys(t, c) ==
    /\ ~c.delete.given
    /\ \A i \in 1..Len(c.new) : KeysOf(t) \subseteq DOMAIN c.new[i]
SameGuards(t, x, y) == \A f \in KeysOf(t) \cup t.check : x[f] = y[f]
Confined(t, list, c, d) ==
    /\ Len(d.list) <= Len(list)
    /\ \A x \in ItemsIn(list) :
          ~writeAllowed(t, x) => x \in ItemsIn(d.list)
    /\ ByKeys(t, c) => \A y \in ItemsIn(d.list) :
          \E x \in ItemsIn(list) : SameGuards(t, y, x)
    /\ ~d.ok => /\ Len(d.list) = Len(list)
                /\ \A i \in 1..Len(list) : SameKeys(t, d.list[i], list[i])

LEMMA PatchNotByKeys ==
    ASSUME NEW t, IsSchema(t), NEW c, NEW p, Patch(t, c, p)
    PROVE  ~ByKeys(t, c)
<1>1. 1 \in 1..Len(c.new) /\ c.new[1] = p
  BY DEF Patch
<1>2. LastKey(t) \in KeysOf(t) /\ LastKey(t) \notin DOMAIN p
  BY LastKeyIs DEF Patch
<1> QED
  BY <1>1, <1>2 DEF ByKeys

LEMMA CopiedConfined ==
    ASSUME NEW t, IsSchema(t), NEW remote \in BOOLEAN, remote,
           NEW list \in Seq(Full(t)), NEW c, NEW p, Patch(t, c, p), NEW d,
           Copied(t, remote, list, p, d.list)
    PROVE  Confined(t, list, c, d)
<1>1. p \in ItemsOf(t) /\ DOMAIN p \cap KeysOf(t) = {}
  BY DEF Patch
<1>2. PICK r : r = d.list
  OBVIOUS
<1>3. PICK n \in Nat : n = Len(list)
  OBVIOUS
<1>4. r \in Seq(Full(t)) /\ Len(r) = n
  BY <1>2, <1>3 DEF Copied
<1>k. CopyKept(t, remote, list, r)
  BY <1>1, <1>2, CopiedKeeps
<1>5. \A i \in 1..n : /\ SameKeys(t, r[i], list[i])
                      /\ ~Allowed(t, remote, list[i]) => r[i] = list[i]
  BY <1>3, <1>k DEF CopyKept
<1>6. ASSUME NEW x \in ItemsIn(list), ~writeAllowed(t, x)
      PROVE  x \in ItemsIn(r)
  <2>1. PICK i \in 1..n : x = list[i]
    BY <1>3 DEF ItemsIn
  <2>2. r[i] = x
    BY <1>5, <1>6, <2>1 DEF Allowed
  <2> QED
    BY <1>4, <2>2 DEF ItemsIn
<1>7. Len(d.list) <= Len(list) /\ Len(d.list) = Len(list)
  BY <1>2, <1>3, <1>4
<1>8. \A i \in 1..Len(list) : SameKeys(t, d.list[i], list[i])
  BY <1>2, <1>3, <1>5
<1> QED
  BY <1>2, <1>6, <1>7, <1>8, PatchNotByKeys, Zenon DEF Confined

LEMMA EffectConfined ==
    ASSUME NEW f, NEW t, IsSchema(t), NEW remote \in BOOLEAN, remote,
           NEW list, Listing(t, list), NEW c, NEW d,
           Effect(f, t, remote, list, c, d),
           c.partial.given \/ c.delete.given
    PROVE  Confined(t, list, c, d)
<1>0. list \in Seq(Full(t)) /\ Distinct(t, list)
  BY DEF Listing
<1>n. PICK n \in Nat : n = Len(list)
  BY <1>0
<1>1. CASE Refused(list, d)
  <2>1. \A x \in ItemsIn(list) : SameGuards(t, x, x)
    BY DEF SameGuards
  <2>2. \A i \in 1..n : SameKeys(t, list[i], list[i])
    BY DEF SameKeys
  <2> QED
    BY <1>1, <1>n, <2>1, <2>2 DEF Refused, Confined
<1>2. CASE Replaced(t, c, d)
  BY <1>2, NothingFound DEF Replaced, Replacing
<1>3. CASE MergedIn(t, remote, list, c, d)
  <2>1. PICK r : r = Merge(t, remote, list, c.new).list
    OBVIOUS
  <2>2. PICK new \in Seq(Full(t)) : new = c.new
    BY <1>3 DEF MergedIn, Merging, Listing
  <2>3. MergeResult(t, remote, list, new, r)
    BY <1>0, <2>1, <2>2, MergeKeeps
  <2>4. /\ r \in Seq(Full(t)) /\ Len(r) = n
        /\ \A i \in 1..n : Becomes(t, remote, list[i], new, r[i])
    BY <1>n, <2>3 DEF MergeResult
  <2>5. /\ Len(d.list) = n /\ ItemsIn(d.list) = ItemsIn(r) /\ d.ok
    BY <1>3, <2>1, <2>4, SortKeeps DEF MergedIn
  <2>6. \A x \in ItemsIn(list) : writeAllowed(t, x)
    BY <1>3 DEF MergedIn, AllAllowed, Allowed, ItemsIn
  <2>7. ASSUME NEW y \in ItemsIn(r)
        PROVE  \E x \in ItemsIn(list) : SameGuards(t, y, x)
    <3>1. PICK i \in 1..n : y = r[i]
      BY <2>4 DEF ItemsIn
    <3>2. PICK x \in Full(t) : x = list[i]
      BY <1>0, <1>n
    <3>b. Became(t, remote, x, new, y)
      BY <2>4, <3>1, <3>2, BecomesKeeps
    <3>3. SameKeys(t, y, x) /\ \A g \in t.check : y[g] = x[g]
      BY <3>b DEF Became
    <3>4. x \in ItemsIn(list)
      BY <1>n, <3>2 DEF ItemsIn
    <3> QED
      BY <3>3, <3>4 DEF SameKeys, SameGuards
  <2> QED
    BY <1>n, <2>5, <2>6, <2>7 DEF Confined
<1>4. CASE ToAll(f, t, remote, list, c, d)
  <2>1. PICK p : /\ Patch(t, c, p)
                 /\ d.list = copyToAllData(t, remote, list, p).list
    BY <1>4 DEF ToAll
  <2>2. p \in ItemsOf(t)
    BY <2>1 DEF Patch
  <2>3. Copied(t, remote, list, p, d.list)
    BY <1>0, <2>1, <2>2, CopyToAll
  <2> QED
    BY <1>0, <2>1, <2>3, CopiedConfined
<1>5. CASE ToSelected(f, t, remote, list, c, d)
  <2>1. PICK p : /\ Patch(t, c, p)
                 /\ d.list = copyToSelectedData(t, remote, list,
                                        FilterData(f, c.partial), p).list
    BY <1>5 DEF ToSelected
  <2>2. p \in ItemsOf(t)
    BY <2>1 DEF Patch
  <2>3. Copied(t, remote, list, p, d.list)
    <3>1. PICK filter : filter = FilterData(f, c.partial)
      OBVIOUS
    <3>2. PICK r : r = copyToSelectedData(t, remote, list, filter, p)
      OBVIOUS
    <3>3. filter.selector # {}
      BY <1>5, <3>1 DEF ToSelected
    <3>4. CopySelected(t, remote, list, p, filter, r)
      BY <1>0, <2>2, <3>2, <3>3, CopyToSelected
    <3> QED
      BY <2>1, <3>1, <3>2, <3>4 DEF CopySelected
  <2> QED
    BY <1>0, <2>1, <2>3, CopiedConfined
<1>6. CASE Removed(f, t, remote, list, c, d)
  <2>1. PICK filter : filter = FilterData(f, c.delete)
    OBVIOUS
  <2>2. filter.elements \subseteq {Rest}
    BY <1>6, <2>1 DEF FilterData, Deleting, Removed
  <2>3. PICK e : e = deleteFilteredData(t, remote, list, filter)
    OBVIOUS
  <2>4. Deletes(t, remote, list, filter, e)
    BY <1>0, <2>2, <2>3, DeleteMakes
  <2>5. PICK left \in Seq(Full(t)) :
            left = e.left /\ \E g : Leaves(t, remote, filter, list, left, g)
    BY <2>4 DEF Deletes
  <2>6. Len(left) <= n
    BY <1>0, <1>n, <2>2, <2>5, LeavesKeep
  <2>7. Len(d.list) <= n /\ d.ok
    <3>1. d.list = SortData(t, left) /\ d.ok
      BY <1>6, <2>1, <2>3, <2>5 DEF Removed
    <3>2. Len(SortData(t, left)) = Len(left)
      BY SortKeeps
    <3> QED
      BY <2>6, <3>1, <3>2
  <2>8. \A x \in ItemsIn(list) : writeAllowed(t, x)
    BY <1>6 DEF Removed, AllAllowed, Allowed, ItemsIn
  <2>9. ~ByKeys(t, c)
    BY <1>6 DEF Removed, Deleting, ByKeys
  <2> QED
    BY <1>n, <2>7, <2>8, <2>9 DEF Confined
<1>7. CASE Cleared(f, t, remote, list, c, d)
  <2>1. PICK filter : filter = FilterData(f, c.delete)
    OBVIOUS
  <2>2. filter.elements \subseteq {Rest}
    BY <1>7, <2>1 DEF FilterData, Deleting, Cleared
  <2>3. PICK e : e = deleteFilteredData(t, remote, list, filter)
    OBVIOUS
  <2>4. Deletes(t, remote, list, filter, e)
    BY <1>0, <2>2, <2>3, DeleteMakes
  <2>5. PICK r \in Seq(Full(t)) : r = e.inPlace
    BY <2>4 DEF Deletes
  <2>6. /\ Len(r) = n
        /\ \A i \in 1..n : r[i] = Reduced(t, remote, filter, list[i])
    BY <1>n, <2>4, <2>5 DEF Deletes
  <2>7. ASSUME NEW x \in Full(t)
        PROVE  /\ SameKeys(t, Reduced(t, remote, filter, x), x)
               /\ ~Allowed(t, remote, x) => Reduced(t, remote, filter, x) = x
    <3>1. ReducedIs(t, remote, filter, x, Reduced(t, remote, filter, x))
      BY <2>2, ReducedKeeps
    <3> QED
      BY <3>1 DEF ReducedIs
  <2>8. \A i \in 1..n : list[i] \in Full(t)
    BY <1>0, <1>n
  <2>9. \A i \in 1..n : /\ SameKeys(t, r[i], list[i])
                        /\ ~Allowed(t, remote, list[i]) => r[i] = list[i]
    BY <2>6, <2>7, <2>8
  <2>10. \A x \in ItemsIn(list) : ~writeAllowed(t, x) => x \in ItemsIn(r)
    BY <1>n, <2>6, <2>9 DEF Allowed, ItemsIn
  <2>11. d.list = r
    BY <1>7, <2>1, <2>3, <2>5 DEF Cleared
  <2>12. ~ByKeys(t, c)
    BY <1>7 DEF Cleared, Deleting, ByKeys
  <2>13. Len(d.list) <= Len(list) /\ Len(d.list) = Len(list)
    BY <1>n, <2>6, <2>11
  <2>14. \A i \in 1..Len(list) : SameKeys(t, d.list[i], list[i])
    BY <1>n, <2>9, <2>11
  <2> QED
    BY <2>10, <2>11, <2>12, <2>13, <2>14, Zenon DEF Confined
<1>8. CASE Ordered(f, t, remote, list, c, d)
  <2>1. Len(d.list) = n /\ ItemsIn(d.list) = ItemsIn(list) /\ d.ok
    BY <1>0, <1>8, <1>n, SortKeeps DEF Ordered
  <2>2. \A x \in ItemsIn(list) : SameGuards(t, x, x)
    BY DEF SameGuards
  <2> QED
    BY <1>n, <2>1, <2>2 DEF Confined
<1> QED
  BY <1>1, <1>2, <1>3, <1>4, <1>5, <1>6, <1>7, <1>8 DEF Effect

LEMMA WriteConfined ==
    ASSUME TypeInv, RefuseWrite \/ ExecuteWrite,
           NEW c, c = Head(up).command,
           c.partial.given \/ c.delete.given
    PROVE  /\ Len(data') <= Len(data)
           /\ \A item \in ItemsIn(data) :
                 ~writeAllowed(Schema, item) => item \in ItemsIn(data')
           /\ ByKeys(Schema, c) => \A item \in ItemsIn(data') :
                 \E old \in ItemsIn(data) : SameGuards(Schema, item, old)
           /\ RefuseWrite =>
                 /\ Len(data') = Len(data)
                 /\ \A i \in 1..Len(data) :
                       SameKeys(Schema, data'[i], data[i])
<1>1. PICK f \in Functions : f = function
  BY DEF TypeInv, Typed
<1>2. PICK t : t = Schemas[f] /\ t = Schema
  BY <1>1 DEF Schema
<1>3. Listing(t, data) /\ up \in Seq(RequestsOf(f)) /\ IsSchema(t)
  BY <1>1, <1>2, SchemasAre DEF TypeInv, Typed
<1>4. c \in Commands[f]
  BY <1>3, HeadOfRequests DEF RefuseWrite, ExecuteWrite, WriteReceived
<1>5. PICK remote \in BOOLEAN : remote = TRUE
  OBVIOUS
<1>6. PICK d : d = UpdateOf(f, remote, data, c)
  OBVIOUS
<1>7. Effect(f, t, remote, data, c, d)
  BY <1>2, <1>3, <1>4, <1>6, Updating
<1>8. Confined(t, data, c, d)
  BY <1>3, <1>5, <1>7, EffectConfined
<1>9. d = Written(c)
  BY <1>1, <1>5, <1>6 DEF UpdateOf, Written
<1>10. data' = d.list /\ (RefuseWrite => ~d.ok)
  BY <1>9 DEF RefuseWrite, ExecuteWrite
<1> QED
  BY <1>2, <1>8, <1>10 DEF Confined

(* A write with a filter by the client adds no item, leaves alone every    *)
(* item it may not write, keeps the guards of the items it merges, and     *)
(* removes nothing when it is refused, whatever it consists of and however *)
(* it interleaves with the application: RemoteWriteConfined.               *)
THEOREM WritesConfined == Spec => RemoteWriteConfined
<1>1. KeyFields = KeysOf(Schema)
  BY DEF KeyFields, KeysOf, ItemsIn
<1> DEFINE Kept == LET command == Head(up).command
           byKeys == /\ ~command.delete.given
                     /\ \A i \in 1..Len(command.new) :
                           KeyFields \subseteq DOMAIN command.new[i]
       IN /\ RefuseWrite \/ ExecuteWrite
          /\ command.partial.given \/ command.delete.given
          => /\ Len(data') <= Len(data)
             /\ \A item \in ItemsIn(data) :
                   ~writeAllowed(Schema, item) => item \in ItemsIn(data')
             /\ byKeys => \A item \in ItemsIn(data') :
                             \E old \in ItemsIn(data) :
                                \A f \in KeyFields \cup Schema.check :
                                    item[f] = old[f]
             /\ RefuseWrite =>
                   /\ Len(data') = Len(data)
                   /\ \A i \in 1..Len(data), f \in KeyFields :
                         data'[i][f] = data[i][f]
<1>2. TypeInv => Kept
  <2>1. PICK c : c = Head(up).command
    OBVIOUS
  <2> QED
    BY <1>1, <2>1, WriteConfined DEF ByKeys, SameGuards, SameKeys
<1>3. TypeInv => [Kept]_vars
  BY <1>2
<1> HIDE DEF Kept
<1>4. Spec => [][Kept]_vars
  BY <1>3, TypeAlways, PTL
<1> QED
  BY <1>4 DEF RemoteWriteConfined, Kept

-----------------------------------------------------------------------------
(* The same command once more.                                             *)
LEMMA KindsDiffer ==
    ASSUME NEW t, IsSchema(t), NEW c
    PROVE  /\ Replacing(t, c) => ~Merging(t, c) /\ ~Patching(t, c)
                                 /\ ~Deleting(t, c)
           /\ Merging(t, c) => ~Patching(t, c) /\ ~Deleting(t, c)
           /\ Patching(t, c) => ~Deleting(t, c)
<1>1. ~NoFilter.given /\ NewFilterTypePartial.given
  BY NothingFound
<1>2. ~(Merging(t, c) /\ Patching(t, c))
  <2> SUFFICES ASSUME Merging(t, c), Patching(t, c) PROVE FALSE
    OBVIOUS
  <2>1. PICK p : c.new = <<p>> /\ DOMAIN p \cap KeysOf(t) = {}
    BY DEF Patching
  <2>2. c.new[1] = p /\ Len(c.new) = 1
    BY <2>1
  <2>3. p \in Full(t)
    BY <2>2 DEF Merging, Listing
  <2> QED
    BY <2>1, <2>3, LastKeyIs DEF Full
<1> QED
  BY <1>1, <1>2 DEF Replacing, Merging, Patching, Deleting

LEMMA BecomesOne ==
    ASSUME NEW t, NEW remote, NEW x, NEW new \in Seq(Full(t)),
           NEW y, Becomes(t, remote, x, new, y),
           NEW z, Becomes(t, remote, x, new, z)
    PROVE  y = z
<1>1. ASSUME NEW j \in 1..Len(new), LastMatch(t, x, new, j)
      PROVE  ~Unmatched(t, x, new)
  BY <1>1 DEF LastMatch, Unmatched
<1>2. ASSUME NEW i \in 1..Len(new), LastMatch(t, x, new, i),
             NEW j \in 1..Len(new), LastMatch(t, x, new, j)
      PROVE  i = j
  <2>1. i <= j /\ j <= i
    BY <1>2 DEF LastMatch
  <2> QED
    BY <2>1
<1> QED
  BY <1>1, <1>2 DEF Becomes

Remotely(remote) == remote = TRUE

LEMMA MergedAgain ==
    ASSUME NEW t, IsSchema(t), NEW remote \in BOOLEAN, Remotely(remote),
           NEW list \in Seq(Full(t)), NEW new \in Seq(Full(t)),
           NEW r, r = Merge(t, remote, list, new).list,
           NEW again \in Seq(Full(t)), ItemsIn(again) = ItemsIn(r),
           NEW e, e = Merge(t, remote, again, new).list
    PROVE  /\ e \in Seq(Full(t))
           /\ ItemsIn(e) = ItemsIn(r)
<1>1. PICK n \in Nat : n = Len(list)
  OBVIOUS
<1>2. PICK m \in Nat : m = Len(again)
  OBVIOUS
<1>3. MergeResult(t, remote, list, new, r)
  BY MergeKeeps
<1>4. MergeResult(t, remote, again, new, e)
  BY MergeKeeps
<1>5. /\ r \in Seq(Full(t)) /\ Len(r) = n
      /\ \A i \in 1..n : Becomes(t, remote, list[i], new, r[i])
  BY <1>1, <1>3 DEF MergeResult, Remotely
<1>6. /\ e \in Seq(Full(t)) /\ Len(e) = m
      /\ \A i \in 1..m : Becomes(t, remote, again[i], new, e[i])
  BY <1>2, <1>4 DEF MergeResult, Remotely
<1>7. ASSUME NEW i \in 1..m
      PROVE  e[i] = again[i]
  <2>1. PICK y : y = again[i] /\ y \in ItemsIn(r)
    BY <1>2 DEF ItemsIn
  <2>2. PICK j \in 1..n : y = r[j]
    BY <1>5, <2>1 DEF ItemsIn
  <2>3. PICK x \in Full(t) : x = list[j]
    BY <1>1
  <2>4. Becomes(t, remote, x, new, y)
    BY <1>5, <2>2, <2>3
  <2>5. Became(t, remote, x, new, y)
    BY <2>4, BecomesKeeps
  <2>6. Becomes(t, remote, y, new, y)
    BY <2>5 DEF Became
  <2>7. Becomes(t, remote, y, new, e[i])
    BY <1>6, <2>1
  <2>8. PICK z : z = e[i]
    OBVIOUS
  <2> QED
    BY <2>1, <2>6, <2>7, <2>8, BecomesOne
<1>8. e = again
  <2>1. PICK q \in Seq(Full(t)) : q = e
    BY <1>6
  <2>2. Len(q) = m /\ \A i \in 1..m : q[i] = again[i]
    BY <1>6, <1>7, <2>1
  <2>3. q = again
    BY <1>2, <2>2
  <2> QED
    BY <2>1, <2>3
<1> QED
  BY <1>6, <1>8

LEMMA OverAgain ==
    ASSUME NEW p, NEW x
    PROVE  Over(p, Over(p, x)) = Over(p, x)
BY DEF Over

LEMMA AllAgain ==
    ASSUME NEW t, NEW remote, NEW list \in Seq(Full(t)), NEW p \in ItemsOf(t),
           NEW r \in Seq(Full(t)), r = copyToAllData(t, remote, list, p).list,
           NEW e, e = copyToAllData(t, remote, r, p).list
    PROVE  e = r
<1>1. r = [i \in 1..Len(list) |->
              IF Allowed(t, remote, list[i]) THEN Over(p, list[i])
              ELSE list[i]]
  BY DEF copyToAllData, Allowed, CopyNonNilDataFromItemToItem
<1>2. e = [i \in 1..Len(r) |->
              IF Allowed(t, remote, r[i]) THEN Over(p, r[i]) ELSE r[i]]
  BY DEF copyToAllData, Allowed, CopyNonNilDataFromItemToItem
<1>3. PICK n \in Nat : n = Len(list)
  OBVIOUS
<1>4. Len(r) = n /\ r = [i \in 1..n |-> r[i]]
  BY <1>1, <1>3
<1>5. ASSUME NEW i \in 1..n
      PROVE  e[i] = r[i]
  <2>1. PICK x : x = list[i]
    OBVIOUS
  <2>2. PICK y : y = r[i]
    OBVIOUS
  <2>3. y = IF Allowed(t, remote, x) THEN Over(p, x) ELSE x
    BY <1>1, <1>3, <2>1, <2>2
  <2>4. e[i] = IF Allowed(t, remote, y) THEN Over(p, y) ELSE y
    BY <1>2, <1>4, <2>2
  <2>5. Over(p, Over(p, x)) = Over(p, x)
    BY OverAgain
  <2> QED
    BY Zenon, <2>2, <2>3, <2>4, <2>5
<1> QED
  BY <1>2, <1>4, <1>5

(* A selector is for one item, or for each of them.                        *)
LEMMA SelectorKinds ==
    ASSUME NEW t, IsSchema(t), NEW s \in Selectors(t)
    PROVE  \/ \E k : \A x \in Full(t) :
                        SelectorMatch({s}, x) <=> x[LastKey(t)] = k
           \/ t.check = {} /\ \A x \in Full(t) : SelectorMatch({s}, x)
<1> DEFINE keyed ==
               {Field(f, k) : f \in t.selectors \cap {t.keys[Len(t.keys)]},
                              k \in KeyValues}
           others == {Field(f, 1) : f \in t.ignored}
<1>3. s \in keyed \cup others
  BY DEF Selectors
<1>1. CASE s \in keyed
  <2>1. PICK k \in KeyValues : s = Field(LastKey(t), k)
    BY <1>1 DEF LastKey
  <2>2. DOMAIN s = {LastKey(t)} /\ s[LastKey(t)] = k
    BY <2>1 DEF Field
  <2>3. \A x \in Full(t) : LastKey(t) \in DOMAIN x
    BY LastKeyIs DEF Full
  <2>4. \A x \in Full(t) : SelectorMatch({s}, x) <=> x[LastKey(t)] = k
    BY <2>2, <2>3 DEF SelectorMatch
  <2> QED
    BY <2>4
<1>2. CASE s \in others
  <2>1. PICK f \in t.ignored : s = Field(f, 1)
    BY <1>2
  <2>2. DOMAIN s = {f}
    BY <2>1 DEF Field
  <2>3. f \notin FieldsOf(t) /\ t.check = {}
    BY <2>1 DEF IsSchema
  <2>4. \A x \in Full(t) : DOMAIN x \subseteq FieldsOf(t)
    BY ItemsHave DEF Full
  <2>5. \A x \in Full(t) : SelectorMatch({s}, x)
    BY <2>2, <2>3, <2>4 DEF SelectorMatch
  <2> QED
    BY <2>3, <2>5
<1> HIDE DEF keyed, others
<1> QED
  BY <1>1, <1>2, <1>3

LEMMA LastKeyTells ==
    ASSUME NEW t, NEW x \in Full(t), NEW y \in Full(t),
           x[LastKey(t)] = y[LastKey(t)]
    PROVE  SameKeys(t, x, y)
<1>1. \A f \in KeysOf(t) : f # LastKey(t) => x[f] = 1 /\ y[f] = 1
  BY ItemsHave DEF Full
<1> QED
  BY <1>1 DEF SameKeys

LEMMA SelectedAgain ==
    ASSUME NEW t, IsSchema(t), NEW remote,
           NEW list \in Seq(Full(t)), Distinct(t, list), NEW p \in ItemsOf(t),
           DOMAIN p \cap KeysOf(t) = {},
           NEW filter, NEW s \in Selectors(t), filter.selector = {s},
           NEW d, d = copyToSelectedData(t, remote, list, filter, p),
           NEW r \in Seq(Full(t)), r = d.list,
           NEW e, e = copyToSelectedData(t, remote, r, filter, p)
    PROVE  e.list = r
<1>1. filter.selector # {}
  OBVIOUS
<1>2. CopySelected(t, remote, list, p, filter, d)
  BY <1>1, CopyToSelected
<1>3. CopySelected(t, remote, r, p, filter, e)
  BY <1>1, CopyToSelected
<1>4. PICK n \in Nat : n = Len(list)
  OBVIOUS
<1>5. PICK q : q = e.list
  OBVIOUS
<1>6. /\ Copied(t, remote, list, p, r)
      /\ \A i \in 1..n :
            r[i] = IF FirstSelected(t, remote, list, {s}, i)
                   THEN Over(p, list[i]) ELSE list[i]
  BY <1>2, <1>4 DEF CopySelected
<1>7. Len(r) = n
  BY <1>4, <1>6 DEF Copied
<1>8. /\ q \in Seq(Full(t)) /\ Len(q) = n
      /\ \A i \in 1..n :
            q[i] = IF FirstSelected(t, remote, r, {s}, i)
                   THEN Over(p, r[i]) ELSE r[i]
  BY <1>3, <1>5, <1>7 DEF CopySelected, Copied
<1>k. CopyKept(t, remote, list, r)
  BY <1>6, CopiedKeeps
<1>9. \A i \in 1..n : SameKeys(t, r[i], list[i])
  BY <1>4, <1>k DEF CopyKept
<1>10. \A i \in 1..n : r[i] \in Full(t) /\ list[i] \in Full(t)
  BY <1>4, <1>7
<1>11. ASSUME NEW i \in 1..n, FirstSelected(t, remote, r, {s}, i)
       PROVE  FirstSelected(t, remote, list, {s}, i)
  <2>1. CASE \E k : \A x \in Full(t) :
                 SelectorMatch({s}, x) <=> x[LastKey(t)] = k
    <3>1. PICK k : \A x \in Full(t) :
                       SelectorMatch({s}, x) <=> x[LastKey(t)] = k
      BY <2>1
    <3>2. SelectorMatch({s}, r[i]) /\ Allowed(t, remote, r[i])
      BY <1>11 DEF FirstSelected
    <3>3. \A j \in 1..n : r[j][LastKey(t)] = list[j][LastKey(t)]
      BY <1>9, LastKeyIs DEF SameKeys
    <3>4. list[i][LastKey(t)] = k
      BY <1>10, <3>1, <3>2, <3>3
    <3>5. SelectorMatch({s}, list[i])
      BY <1>10, <3>1, <3>4
    <3>6. \A j \in 1..n : SelectorMatch({s}, list[j]) => j = i
      <4> SUFFICES ASSUME NEW j \in 1..n, SelectorMatch({s}, list[j])
                   PROVE  j = i
        OBVIOUS
      <4>1. list[j][LastKey(t)] = list[i][LastKey(t)]
        BY <1>10, <3>1, <3>4
      <4>2. PICK x \in Full(t) : x = list[j]
        BY <1>10
      <4>3. PICK y \in Full(t) : y = list[i]
        BY <1>10
      <4>4. SameKeys(t, x, y)
        BY <4>1, <4>2, <4>3, LastKeyTells
      <4> QED
        BY <1>4, <4>2, <4>3, <4>4 DEF Distinct
    <3>7. Allowed(t, remote, list[i])
      <4> SUFFICES ASSUME ~Allowed(t, remote, list[i]) PROVE FALSE
        OBVIOUS
      <4>1. r[i] = list[i]
        BY <1>4, <1>k DEF CopyKept
      <4> QED
        BY <3>2, <4>1
    <3>8. \A j \in 1..n : SelectorMatch({s}, list[j]) => i <= j
      <4>1. i <= i
        OBVIOUS
      <4> QED
        BY <3>6, <4>1
    <3> QED
      BY <1>4, <3>5, <3>7, <3>8 DEF FirstSelected
  <2>2. CASE t.check = {} /\ \A x \in Full(t) : SelectorMatch({s}, x)
    <3>1. \A x : Allowed(t, remote, x)
      BY <2>2 DEF Allowed, writeAllowed
    <3>2. \A j \in 1..n : i <= j
      BY <1>7, <1>10, <1>11, <2>2, <3>1 DEF FirstSelected
    <3> QED
      BY <1>4, <1>10, <2>2, <3>1, <3>2 DEF FirstSelected
  <2> QED
    BY <2>1, <2>2, SelectorKinds
<1>12. \A i \in 1..n : q[i] = r[i]
  <2> SUFFICES ASSUME NEW i \in 1..n PROVE q[i] = r[i]
    OBVIOUS
  <2>1. CASE FirstSelected(t, remote, r, {s}, i)
    <3>1. q[i] = Over(p, r[i]) /\ r[i] = Over(p, list[i])
      BY <1>6, <1>8, <1>11, <2>1
    <3> QED
      BY <3>1, OverAgain
  <2>2. CASE ~FirstSelected(t, remote, r, {s}, i)
    BY <1>8, <2>2
  <2> QED
    BY <2>1, <2>2
<1>13. q = [i \in 1..n |-> q[i]]
  BY <1>8
<1>14. r = [i \in 1..n |-> r[i]]
  BY <1>7
<1> QED
  BY <1>5, <1>12, <1>13, <1>14

(* What a deletion has left it leaves once more.                           *)
Stable(t, remote, filter, y) ==
    y \in Full(t) /\ Reduced(t, remote, filter, y) = y
    /\ IsLeft(t, remote, filter, y)

LEMMA LeftIsStable ==
    ASSUME NEW t, IsSchema(t), NEW remote, NEW filter,
           filter.elements \subseteq {Rest}, NEW x \in Full(t),
           IsLeft(t, remote, filter, x),
           NEW y, y = Reduced(t, remote, filter, x)
    PROVE  Stable(t, remote, filter, y)
<1>1. ReducedIs(t, remote, filter, x, y)
  BY ReducedKeeps
<1>2. /\ y \in Full(t) /\ Reduced(t, remote, filter, y) = y
      /\ Allowed(t, remote, y)
  BY <1>1 DEF ReducedIs, IsLeft
<1>3. CASE filter.elements = {}
  <2>1. y = x
    <3>1. ASSUME y = Without(x, {})
          PROVE  y = x
      <4>1. y = [f \in DOMAIN x |-> x[f]]
        BY <3>1 DEF Without
      <4>2. x = [f \in DOMAIN x |-> x[f]]
        BY ItemsHave DEF Full
      <4> QED
        BY <4>1, <4>2
    <3> QED
      BY <1>3, <3>1 DEF Reduced
  <2> QED
    BY <1>2, <2>1 DEF Stable
<1>4. CASE filter.elements # {}
  BY <1>2, <1>4 DEF Stable, IsLeft
<1> QED
  BY <1>3, <1>4

LEMMA StableStays ==
    ASSUME NEW t, IsSchema(t), NEW remote, NEW filter,
           filter.elements \subseteq {Rest}, NEW list \in Seq(Full(t)),
           \A i \in 1..Len(list) : Stable(t, remote, filter, list[i]),
           NEW e, e = deleteFilteredData(t, remote, list, filter)
    PROVE  /\ e.inPlace = list
           /\ e.left \in Seq(Full(t))
           /\ ItemsIn(e.left) = ItemsIn(list)
<1>1. PICK n \in Nat : n = Len(list)
  OBVIOUS
<1>2. Deletes(t, remote, list, filter, e)
  BY DeleteMakes
<1>3. PICK r \in Seq(Full(t)) : r = e.inPlace
  BY <1>2 DEF Deletes
<1>4. PICK left \in Seq(Full(t)) : left = e.left
  BY <1>2 DEF Deletes
<1>5. PICK m \in Nat : m = Len(left)
  OBVIOUS
<1>6. PICK g : Leaves(t, remote, filter, list, left, g)
  BY <1>2, <1>4 DEF Deletes
<1>7. \A i \in 1..n : /\ Reduced(t, remote, filter, list[i]) = list[i]
                      /\ IsLeft(t, remote, filter, list[i])
  BY <1>1 DEF Stable
<1>8. r = list
  BY <1>1, <1>2, <1>3, <1>7 DEF Deletes
<1>9. \A i \in 1..m : g[i] \in 1..n /\ left[i] = list[g[i]]
  BY <1>1, <1>5, <1>6, <1>7 DEF Leaves
<1>10. \A j \in 1..n : \E i \in 1..m : g[i] = j
  BY <1>1, <1>5, <1>6, <1>7 DEF Leaves
<1>11. ItemsIn(left) \subseteq ItemsIn(list)
  BY <1>1, <1>5, <1>9 DEF ItemsIn
<1>12. ItemsIn(list) \subseteq ItemsIn(left)
  <2> SUFFICES ASSUME NEW x \in ItemsIn(list) PROVE x \in ItemsIn(left)
    OBVIOUS
  <2>1. PICK j \in 1..n : x = list[j]
    BY <1>1 DEF ItemsIn
  <2>2. PICK i \in 1..m : g[i] = j
    BY <1>10
  <2>3. x = left[i]
    BY <1>9, <2>1, <2>2
  <2> QED
    BY <1>5, <2>3 DEF ItemsIn
<1> QED
  BY <1>3, <1>4, <1>8, <1>11, <1>12

LEMMA EffectSettles ==
    ASSUME NEW f, NEW t, IsSchema(t),
           NEW remote \in BOOLEAN, Remotely(remote),
           NEW list, Listing(t, list), NEW c, NEW d,
           Effect(f, t, remote, list, c, d), d.ok,
           NEW r, r = d.list, Listing(t, r),
           NEW e, Effect(f, t, remote, r, c, e)
    PROVE  ItemsIn(e.list) = ItemsIn(r)
<1>0. /\ list \in Seq(Full(t)) /\ Distinct(t, list)
      /\ r \in Seq(Full(t))
  BY DEF Listing
<1>1. CASE Refused(r, e)
  BY <1>1 DEF Refused
<1>2. ASSUME Replaced(t, c, e)
      PROVE  e.list = r
  <2>1. Replacing(t, c)
    BY <1>2 DEF Replaced
  <2>2. Replaced(t, c, d)
    BY <2>1, KindsDiffer
    DEF Effect, Refused, MergedIn, ToAll, ToSelected, Removed, Cleared,
        Ordered
  <2> QED
    BY <1>2, <2>2 DEF Replaced
<1>3. ASSUME MergedIn(t, remote, r, c, e)
      PROVE  ItemsIn(e.list) = ItemsIn(r)
  <2>1. Merging(t, c)
    BY <1>3 DEF MergedIn
  <2>2. MergedIn(t, remote, list, c, d)
    BY <2>1, KindsDiffer
    DEF Effect, Refused, Replaced, ToAll, ToSelected, Removed, Cleared,
        Ordered
  <2>3. PICK new \in Seq(Full(t)) : new = c.new
    BY <2>1 DEF Merging, Listing
  <2>4. PICK a : a = Merge(t, remote, list, new).list
    OBVIOUS
  <2>5. MergeResult(t, remote, list, new, a)
    BY <1>0, <2>4, MergeKeeps
  <2>6. a \in Seq(Full(t)) /\ r = SortData(t, a)
    BY <2>2, <2>3, <2>4, <2>5 DEF MergedIn, MergeResult
  <2>7. ItemsIn(r) = ItemsIn(a)
    BY <2>6, SortKeeps
  <2>8. PICK b : b = Merge(t, remote, r, new).list
    OBVIOUS
  <2>9. b \in Seq(Full(t)) /\ ItemsIn(b) = ItemsIn(a)
    BY <1>0, <2>4, <2>7, <2>8, MergedAgain
  <2>10. e.list = SortData(t, b)
    BY <1>3, <2>3, <2>8 DEF MergedIn
  <2>11. ItemsIn(SortData(t, b)) = ItemsIn(b)
    BY <2>9, SortKeeps
  <2> QED
    BY <2>7, <2>9, <2>10, <2>11
<1>p. ASSUME NEW p, Patch(t, c, p), NEW q, Patch(t, c, q)
      PROVE  p = q
  <2>1. <<p>> = <<q>>
    BY <1>p DEF Patch
  <2> QED
    BY <2>1
<1>4. ASSUME ToAll(f, t, remote, r, c, e)
      PROVE  e.list = r
  <2>1. ToAll(f, t, remote, list, c, d)
    BY <1>4, KindsDiffer
    DEF Effect, Refused, Replaced, MergedIn, ToAll, ToSelected, Removed,
        Cleared, Ordered
  <2>2. PICK p : Patch(t, c, p) /\ r = copyToAllData(t, remote, list, p).list
    BY <2>1 DEF ToAll
  <2>3. PICK q : /\ Patch(t, c, q)
                 /\ e.list = copyToAllData(t, remote, r, q).list
    BY <1>4 DEF ToAll
  <2>4. p = q /\ p \in ItemsOf(t)
    BY <1>p, <2>2, <2>3 DEF Patch
  <2>5. PICK l : l = e.list /\ l = copyToAllData(t, remote, r, p).list
    BY <2>3, <2>4
  <2> QED
    <3>1. l = r
      BY <1>0, <2>2, <2>4, <2>5, AllAgain
    <3> QED
      BY <2>5, <3>1
<1>5. ASSUME ToSelected(f, t, remote, r, c, e)
      PROVE  e.list = r
  <2>1. ToSelected(f, t, remote, list, c, d)
    BY <1>5, KindsDiffer
    DEF Effect, Refused, Replaced, MergedIn, ToAll, ToSelected, Removed,
        Cleared, Ordered
  <2>2. PICK filter : filter = FilterData(f, c.partial)
    OBVIOUS
  <2>3. PICK p : /\ Patch(t, c, p)
                 /\ r = copyToSelectedData(t, remote, list, filter, p).list
    BY <2>1, <2>2 DEF ToSelected
  <2>4. PICK q : /\ Patch(t, c, q)
                 /\ e.list = copyToSelectedData(t, remote, r, filter, q).list
    BY <1>5, <2>2 DEF ToSelected
  <2>5. p = q /\ p \in ItemsOf(t) /\ DOMAIN p \cap KeysOf(t) = {}
    BY <1>p, <2>3, <2>4 DEF Patch
  <2>6. PICK s \in Selectors(t) : filter.selector = {s}
    <3>1. filter.selector # {} /\ AtMostOne(t, c.partial.selector)
      BY <2>1, <2>2 DEF ToSelected, Patching
    <3>2. filter.selector = c.partial.selector
      BY <2>2, <3>1 DEF FilterData
    <3> QED
      BY <3>1, <3>2 DEF AtMostOne
  <2>7. PICK a : a = copyToSelectedData(t, remote, list, filter, p)
    OBVIOUS
  <2>8. PICK b : b = copyToSelectedData(t, remote, r, filter, p)
    OBVIOUS
  <2>9. r = a.list /\ e.list = b.list
    BY <2>3, <2>4, <2>5, <2>7, <2>8
  <2>10. b.list = r
    BY <1>0, <2>5, <2>6, <2>7, <2>8, <2>9, SelectedAgain
  <2> QED
    BY <2>9, <2>10
<1>6. ASSUME Deleting(t, c), NEW filter, filter = FilterData(f, c.delete),
             Found(filter), NEW b,
             b = deleteFilteredData(t, remote, r, filter)
      PROVE  /\ b.inPlace = r
             /\ b.left \in Seq(Full(t))
             /\ ItemsIn(b.left) = ItemsIn(r)
  <2>1. filter.elements \subseteq {Rest}
    BY <1>6 DEF FilterData, Deleting
  <2>2. Removed(f, t, remote, list, c, d)
    BY <1>6, KindsDiffer
    DEF Effect, Refused, Replaced, MergedIn, ToAll, ToSelected, Cleared,
        Ordered
  <2>3. PICK a : a = deleteFilteredData(t, remote, list, filter)
    OBVIOUS
  <2>4. Deletes(t, remote, list, filter, a)
    BY <1>0, <2>1, <2>3, DeleteMakes
  <2>5. PICK left \in Seq(Full(t)) : left = a.left
    BY <2>4 DEF Deletes
  <2>6. PICK g : Leaves(t, remote, filter, list, left, g)
    BY <2>4, <2>5 DEF Deletes
  <2>7. \A i \in 1..Len(left) : Stable(t, remote, filter, left[i])
    <3> SUFFICES ASSUME NEW i \in 1..Len(left)
                 PROVE  Stable(t, remote, filter, left[i])
      OBVIOUS
    <3>0. g[i] \in 1..Len(list)
      BY <2>6 DEF Leaves
    <3>1. PICK x \in Full(t) : x = list[g[i]]
      BY <1>0, <3>0
    <3>2. PICK y : y = left[i]
      OBVIOUS
    <3>3. y = Reduced(t, remote, filter, x) /\ IsLeft(t, remote, filter, x)
      BY <2>6, <3>1, <3>2 DEF Leaves
    <3>4. Stable(t, remote, filter, y)
      BY <2>1, <3>3, LeftIsStable
    <3> QED
      BY <3>2, <3>4
  <2>8. r = SortData(t, left)
    BY <1>6, <2>2, <2>3, <2>5 DEF Removed
  <2>9. ItemsIn(r) = ItemsIn(left)
    BY <2>8, SortKeeps
  <2>10. \A i \in 1..Len(r) : Stable(t, remote, filter, r[i])
    BY <2>7, <2>9 DEF ItemsIn
  <2> QED
    BY <1>0, <1>6, <2>1, <2>10, StableStays
<1>7. ASSUME Removed(f, t, remote, r, c, e)
      PROVE  ItemsIn(e.list) = ItemsIn(r)
  <2>1. PICK filter : filter = FilterData(f, c.delete)
    OBVIOUS
  <2>2. PICK b : b = deleteFilteredData(t, remote, r, filter)
    OBVIOUS
  <2>3. b.left \in Seq(Full(t)) /\ ItemsIn(b.left) = ItemsIn(r)
    BY <1>6, <1>7, <2>1, <2>2 DEF Removed
  <2>4. PICK left \in Seq(Full(t)) : left = b.left
    BY <2>3
  <2>5. e.list = SortData(t, left)
    BY <1>7, <2>1, <2>2, <2>4 DEF Removed
  <2>6. ItemsIn(SortData(t, left)) = ItemsIn(left)
    BY SortKeeps
  <2> QED
    BY <2>3, <2>4, <2>5, <2>6
<1>8. ASSUME Cleared(f, t, remote, r, c, e)
      PROVE  e.list = r
  <2>1. PICK filter : filter = FilterData(f, c.delete)
    OBVIOUS
  <2>2. PICK b : b = deleteFilteredData(t, remote, r, filter)
    OBVIOUS
  <2>3. b.inPlace = r
    BY <1>6, <1>8, <2>1, <2>2 DEF Cleared
  <2> QED
    BY <1>8, <2>1, <2>2, <2>3 DEF Cleared
<1>9. ASSUME Ordered(f, t, remote, r, c, e)
      PROVE  ItemsIn(e.list) = ItemsIn(r)
  <2>1. e.list = SortData(t, r)
    BY <1>9 DEF Ordered
  <2> QED
    BY <1>0, <2>1, SortKeeps
<1> QED
  BY <1>1, <1>2, <1>3, <1>4, <1>5, <1>7, <1>8, <1>9 DEF Effect

(* A write that was carried out leaves the same items when it is repeated, *)
(* whatever its kind and whatever the list: RepeatedWriteSettles.          *)
THEOREM WritesSettle == Spec => RepeatedWriteSettles
<1> DEFINE Settled ==
        LET command == Head(up).command
            again == UpdateData(function, TRUE, data', command.new,
                                command.partial, command.delete)
        IN ExecuteWrite => ItemsIn(again.list) = ItemsIn(data')
<1>1. TypeInv => Settled
  <2> SUFFICES ASSUME TypeInv, ExecuteWrite, NEW c, c = Head(up).command
               PROVE  ItemsIn(UpdateData(function, TRUE, data', c.new,
                                         c.partial, c.delete).list)
                          = ItemsIn(data')
    BY Zenon
  <2>1. PICK f \in Functions : f = function
    BY DEF TypeInv, Typed
  <2>2. PICK t : t = Schemas[f] /\ t = Schema
    BY <2>1 DEF Schema
  <2>3. Listing(t, data) /\ up \in Seq(RequestsOf(f)) /\ IsSchema(t)
    BY <2>1, <2>2, SchemasAre DEF TypeInv, Typed
  <2>4. c \in Commands[f]
    BY <2>3, HeadOfRequests DEF ExecuteWrite, WriteReceived
  <2>5. PICK remote \in BOOLEAN : Remotely(remote)
    BY DEF Remotely
  <2>6. PICK d : d = UpdateOf(f, remote, data, c)
    OBVIOUS
  <2>7. Effect(f, t, remote, data, c, d) /\ Listing(t, d.list)
    BY <2>2, <2>3, <2>4, <2>6, Updating
  <2>8. d = Written(c)
    BY <2>1, <2>5, <2>6 DEF UpdateOf, Written, Remotely
  <2>9. PICK r : r = data' /\ r = d.list /\ d.ok
    BY <2>8 DEF ExecuteWrite
  <2>10. Listing(t, r)
    BY <2>7, <2>9
  <2>11. PICK e : e = UpdateOf(f, remote, r, c)
    OBVIOUS
  <2>12. Effect(f, t, remote, r, c, e)
    BY <2>2, <2>4, <2>10, <2>11, Updating
  <2>13. ItemsIn(e.list) = ItemsIn(r)
    BY <2>3, <2>5, <2>7, <2>9, <2>10, <2>12, EffectSettles
  <2> QED
    BY <2>1, <2>5, <2>9, <2>11, <2>13 DEF UpdateOf, Remotely
<1>2. TypeInv => [Settled]_vars
  BY <1>1
<1> HIDE DEF Settled
<1>3. Spec => [][Settled]_vars
  BY <1>2, TypeAlways, PTL
<1> QED
  BY <1>3 DEF RepeatedWriteSettles, Settled

-----------------------------------------------------------------------------
(* How the copy follows.  One list is below another when each of its items *)
(* has one with its keys there, with all of its fields: then completing    *)
(* the items of the other by its own changes nothing.                      *)
Under(t, A, B) ==
    \A x \in A : \E y \in B : SameKeys(t, x, y) /\ DOMAIN x \subseteq DOMAIN y
Below(t, a, b) == Under(t, ItemsIn(a), ItemsIn(b))

LEMMA BelowOrders ==
    ASSUME NEW t, NEW a, NEW b, NEW c
    PROVE  /\ ItemsIn(a) = ItemsIn(b) => Below(t, a, b)
           /\ Below(t, a, b) /\ Below(t, b, c) => Below(t, a, c)
<1>1. ItemsIn(a) = ItemsIn(b) => Below(t, a, b)
  BY SameKeysEqual DEF Below, Under
<1>2. ASSUME Below(t, a, b), Below(t, b, c), NEW x \in ItemsIn(a)
      PROVE  \E z \in ItemsIn(c) :
                SameKeys(t, x, z) /\ DOMAIN x \subseteq DOMAIN z
  <2>1. PICK y \in ItemsIn(b) :
            SameKeys(t, x, y) /\ DOMAIN x \subseteq DOMAIN y
    BY <1>2 DEF Below, Under
  <2>2. PICK z \in ItemsIn(c) :
            SameKeys(t, y, z) /\ DOMAIN y \subseteq DOMAIN z
    BY <1>2 DEF Below, Under
  <2>3. SameKeys(t, x, z)
    BY <2>1, <2>2, SameKeysEqual
  <2> QED
    BY <2>1, <2>2, <2>3
<1> QED
  BY <1>1, <1>2 DEF Below, Under

(* The lists the copy goes through: from a base, which is the copy itself  *)
(* or a complete message on its way to the client, over the messages with  *)
(* data after it to the last one, p.  Each is below the later ones and the *)
(* server's list; the last one has its items, unless a message is pending. *)
IsData(m) == m.kind \in {"notify", "reply"}
At(c, q, j) == IF j = 0 THEN c ELSE q[j].list
Live(q, b, j) == j = b \/ (j \in b + 1..Len(q) /\ IsData(q[j]))
Chain(t, list, c, q, pending, b, p) ==
    /\ b \in 0..Len(q) /\ p \in b..Len(q)
    /\ b = 0 => Distinct(t, c)
    /\ b # 0 => IsData(q[b])
    /\ Live(q, b, p) /\ \A j \in p + 1..Len(q) : ~IsData(q[j])
    /\ \A j \in b..Len(q) :
          /\ j = b /\ b # 0 => ~q[j].filtered
          /\ j # b /\ IsData(q[j]) => q[j].filtered /\ q[j].selector = {}
    /\ \A j \in 0..Len(q) : Live(q, b, j) => Below(t, At(c, q, j), list)
    /\ \A i, j \in 0..Len(q) : Live(q, b, i) /\ Live(q, b, j) /\ i < j
          => Below(t, At(c, q, i), At(c, q, j))
    /\ ~pending => ItemsIn(At(c, q, p)) = ItemsIn(list)

LEMMA ChainAtBase ==
    ASSUME NEW t, NEW T, NEW list, NEW c, NEW q \in Seq(T), NEW pending,
           NEW n \in Nat, n = Len(q),
           n = 0 => Distinct(t, c) /\ ItemsIn(c) = ItemsIn(list),
           n # 0 => /\ IsData(q[n]) /\ ~q[n].filtered
                    /\ q[n].list = list
    PROVE  Chain(t, list, c, q, pending, n, n)
<1>1. ItemsIn(At(c, q, n)) = ItemsIn(list)
  BY DEF At
<1>2. \A j \in 0..n : Live(q, n, j) => j = n
  BY DEF Live
<1>3. Below(t, At(c, q, n), list)
  BY <1>1, BelowOrders
<1> QED
  BY <1>1, <1>2, <1>3 DEF Chain, Live

LEMMA ChainGrows ==
    ASSUME NEW t, NEW list, NEW c, NEW q, NEW pending, NEW b, NEW p,
           Chain(t, list, c, q, pending, b, p), NEW after
    PROVE  /\ \A more : Below(t, list, more) /\ after
                        => Chain(t, more, c, q, after, b, p)
           /\ (pending => after) => Chain(t, list, c, q, after, b, p)
<1>1. ASSUME NEW more, Below(t, list, more), after
      PROVE  Chain(t, more, c, q, after, b, p)
  <2>1. \A j \in 0..Len(q) : Live(q, b, j) => Below(t, At(c, q, j), more)
    BY <1>1, BelowOrders DEF Chain
  <2> QED
    BY <1>1, <2>1 DEF Chain
<1>2. ASSUME pending => after
      PROVE  Chain(t, list, c, q, after, b, p)
  BY <1>2 DEF Chain
<1> QED
  BY <1>1, <1>2

LEMMA ChainAppends ==
    ASSUME NEW t, NEW T, NEW list, NEW c, NEW q \in Seq(T), NEW pending,
           NEW b, NEW p, Chain(t, list, c, q, pending, b, p),
           NEW m \in T, NEW r, r = Append(q, m), NEW after
    PROVE  /\ ~IsData(m) => Chain(t, list, c, r, pending, b, p)
           /\ IsData(m) /\ m.filtered /\ m.selector = {} /\ m.list = list
              => Chain(t, list, c, r, after, b, Len(r))
<1>1. PICK n \in Nat : n = Len(q)
  OBVIOUS
<1>2. /\ Len(r) = n + 1 /\ r[n + 1] = m
      /\ \A j \in 1..n : r[j] = q[j]
  BY <1>1
<1>3. b \in 0..n /\ p \in b..n
  BY <1>1 DEF Chain
<1>4. \A j \in 0..n : /\ At(c, r, j) = At(c, q, j)
                      /\ Live(r, b, j) <=> Live(q, b, j)
  BY <1>1, <1>2, <1>3 DEF At, Live
<1>5. \A j \in 0..n + 1 : j \in 0..n \/ j = n + 1
  OBVIOUS
<1>6. CASE ~IsData(m)
  <2>1. ~Live(r, b, n + 1)
    BY <1>2, <1>3, <1>6 DEF Live
  <2>2. \A j \in 0..n + 1 : Live(r, b, j) => j \in 0..n /\ Live(q, b, j)
    BY <1>4, <1>5, <2>1
  <2>3. \A j \in p + 1..n + 1 : ~IsData(r[j])
    BY <1>1, <1>2, <1>3, <1>5, <1>6 DEF Chain
  <2>4. \A j \in b..n + 1 :
          /\ j = b /\ b # 0 => ~r[j].filtered
          /\ j # b /\ IsData(r[j]) => r[j].filtered /\ r[j].selector = {}
    BY <1>1, <1>2, <1>3, <1>5, <1>6 DEF Chain
  <2>5. \A j \in 0..n + 1 : Live(r, b, j) => Below(t, At(c, r, j), list)
    BY <1>1, <1>4, <2>2 DEF Chain
  <2>6. \A i, j \in 0..n + 1 : Live(r, b, i) /\ Live(r, b, j) /\ i < j
            => Below(t, At(c, r, i), At(c, r, j))
    BY <1>1, <1>4, <2>2 DEF Chain
  <2>7. ~pending => ItemsIn(At(c, r, p)) = ItemsIn(list)
    BY <1>1, <1>3, <1>4 DEF Chain
  <2>8. /\ b \in 0..n + 1 /\ p \in b..n + 1 /\ Live(r, b, p)
        /\ b = 0 => Distinct(t, c)
        /\ b # 0 => IsData(r[b])
    BY <1>1, <1>2, <1>3, <1>4 DEF Chain
  <2> QED
    BY <1>2, <1>6, <2>3, <2>4, <2>5, <2>6, <2>7, <2>8 DEF Chain
<1>7. CASE IsData(m) /\ m.filtered /\ m.selector = {} /\ m.list = list
  <2>1. Live(r, b, n + 1) /\ At(c, r, n + 1) = list
    BY <1>2, <1>3, <1>7 DEF Live, At
  <2>2. \A j \in 0..n : Live(r, b, j) => Below(t, At(c, r, j), list)
    BY <1>1, <1>4 DEF Chain
  <2>3. \A j \in 0..n + 1 : Live(r, b, j) => Below(t, At(c, r, j), list)
    BY <1>5, <2>1, <2>2, BelowOrders
  <2>4. \A j \in b..n + 1 :
          /\ j = b /\ b # 0 => ~r[j].filtered
          /\ j # b /\ IsData(r[j]) => r[j].filtered /\ r[j].selector = {}
    BY <1>1, <1>2, <1>3, <1>5, <1>7 DEF Chain
  <2>5. ASSUME NEW i \in 0..n + 1, NEW j \in 0..n + 1,
               Live(r, b, i), Live(r, b, j), i < j
        PROVE  Below(t, At(c, r, i), At(c, r, j))
    <3>1. i \in 0..n
      BY <2>5
    <3>2. CASE j \in 0..n
      BY <1>1, <1>4, <2>5, <3>1, <3>2 DEF Chain
    <3>3. CASE j = n + 1
      BY <2>1, <2>2, <2>5, <3>1, <3>3
    <3> QED
      BY <1>5, <3>2, <3>3
  <2>6. /\ b \in 0..n + 1 /\ n + 1 \in b..n + 1
        /\ b = 0 => Distinct(t, c)
        /\ b # 0 => IsData(r[b])
        /\ \A j \in n + 1 + 1..n + 1 : ~IsData(r[j])
    BY <1>1, <1>2, <1>3 DEF Chain
  <2> QED
    BY <1>2, <1>7, <2>1, <2>3, <2>4, <2>5, <2>6 DEF Chain
<1> QED
  BY <1>6, <1>7

(* The first message is received: every place moves up by one, and what    *)
(* the client makes of a base or of a message after it has its items.      *)
LEMMA ChainShifts ==
    ASSUME NEW t, NEW T, NEW list, NEW c, NEW q \in Seq(T), NEW pending,
           NEW b, NEW p, Chain(t, list, c, q, pending, b, p),
           q # <<>>, p # 0, NEW r, r = Tail(q), NEW d,
           NEW k, k = IF b = 0 THEN 0 ELSE b - 1,
           k = 0 => /\ IsData(q[1]) /\ Distinct(t, d)
                    /\ ItemsIn(d) = ItemsIn(q[1].list)
    PROVE  Chain(t, list, d, r, pending, k, p - 1)
<1>1. PICK n \in Nat : n = Len(r)
  OBVIOUS
<1>2. Len(q) = n + 1 /\ \A j \in 1..n : r[j] = q[j + 1]
  BY <1>1
<1>3. b \in 0..n + 1 /\ p \in b..n + 1
  BY <1>2 DEF Chain
<1>4. k \in 0..n /\ p - 1 \in k..n /\ (k # 0 => b = k + 1)
  BY <1>3
<1>5. ASSUME NEW j \in 0..n, Live(r, k, j)
      PROVE  /\ j + 1 \in 0..n + 1 /\ Live(q, b, j + 1)
             /\ ItemsIn(At(d, r, j)) = ItemsIn(At(c, q, j + 1))
  <2>1. CASE j = 0
    <3>1. k = 0
      BY <1>1, <1>4, <1>5, <2>1 DEF Live
    <3> QED
      BY <1>2, <1>3, <2>1, <3>1 DEF Live, At
  <2>2. CASE j # 0
    <3>1. j \in 1..n /\ r[j] = q[j + 1]
      BY <1>2, <2>2
    <3>2. Live(q, b, j + 1)
      BY <1>1, <1>2, <1>3, <1>4, <1>5, <3>1 DEF Live
    <3>4. j + 1 \in 0..n + 1 /\ j + 1 # 0
      BY <3>1
    <3>3. At(d, r, j) = r[j].list /\ At(c, q, j + 1) = q[j + 1].list
      BY Zenon, <2>2, <3>4 DEF At
    <3> QED
      BY <3>1, <3>2, <3>3, <3>4
  <2> QED
    BY <2>1, <2>2
<1>6. \A j \in 0..n : Live(r, k, j) => Below(t, At(d, r, j), list)
  BY <1>2, <1>5 DEF Chain, Below
<1>7. ASSUME NEW i \in 0..n, NEW j \in 0..n,
             Live(r, k, i), Live(r, k, j), i < j
      PROVE  Below(t, At(d, r, i), At(d, r, j))
  <2>1. /\ i + 1 \in 0..n + 1 /\ Live(q, b, i + 1)
        /\ ItemsIn(At(d, r, i)) = ItemsIn(At(c, q, i + 1))
    BY <1>5, <1>7
  <2>2. /\ j + 1 \in 0..n + 1 /\ Live(q, b, j + 1)
        /\ ItemsIn(At(d, r, j)) = ItemsIn(At(c, q, j + 1))
    BY <1>5, <1>7
  <2>3. Below(t, At(c, q, i + 1), At(c, q, j + 1))
    <3>1. i + 1 < j + 1
      BY <1>7
    <3> QED
      BY <1>2, <2>1, <2>2, <3>1 DEF Chain
  <2> QED
    BY <2>1, <2>2, <2>3 DEF Below
<1>8. Live(r, k, p - 1)
  <2>1. CASE p = b
    BY <1>3, <1>4, <2>1 DEF Live
  <2>2. CASE p # b
    <3>1. IsData(q[p]) /\ p \in b + 1..n + 1
      BY <1>2, <2>2 DEF Chain, Live
    <3>2. CASE p = 1
      BY <1>3, <1>4, <2>2, <3>2 DEF Live
    <3>3. CASE p # 1
      <4>1. p - 1 \in 1..n /\ r[p - 1] = q[p]
        BY <1>2, <1>3, <3>3
      <4> QED
        BY <1>1, <1>3, <1>4, <3>1, <4>1 DEF Live
    <3> QED
      BY <3>2, <3>3
  <2> QED
    BY <2>1, <2>2
<1>9. ~pending => ItemsIn(At(d, r, p - 1)) = ItemsIn(list)
  <2>1. p - 1 \in 0..n /\ p - 1 + 1 = p
    BY <1>3, <1>4
  <2>2. ItemsIn(At(d, r, p - 1)) = ItemsIn(At(c, q, p))
    BY <1>5, <1>8, <2>1
  <2> QED
    BY <2>2 DEF Chain
<1>10. \A j \in p - 1 + 1..n : ~IsData(r[j])
  <2> SUFFICES ASSUME NEW j \in p - 1 + 1..n
               PROVE  ~IsData(r[j])
    OBVIOUS
  <2>1. j \in 1..n /\ j + 1 \in p + 1..n + 1
    BY <1>3
  <2> QED
    BY <1>2, <2>1 DEF Chain
<1>11. ASSUME NEW j \in k..n
       PROVE  /\ j = k /\ k # 0 => ~r[j].filtered
              /\ j # k /\ IsData(r[j]) => r[j].filtered /\ r[j].selector = {}
  <2>1. CASE j # 0
    <3>1. j \in 1..n /\ j + 1 \in b..n + 1 /\ r[j] = q[j + 1]
      BY <1>2, <1>3, <1>4, <2>1
    <3>2. /\ j + 1 = b /\ b # 0 => ~q[j + 1].filtered
          /\ j + 1 # b /\ IsData(q[j + 1])
             => q[j + 1].filtered /\ q[j + 1].selector = {}
      BY <1>2, <3>1 DEF Chain
    <3>3. /\ j = k /\ k # 0 => j + 1 = b /\ b # 0
          /\ j # k => j + 1 # b
      BY <1>3, <1>4, <3>1
    <3> QED
      BY <3>1, <3>2, <3>3
  <2>2. CASE j = 0
    BY <1>4, <2>2
  <2> QED
    BY <2>1, <2>2
<1>12. k # 0 => IsData(r[k])
  <2>1. k # 0 => k \in 1..n /\ r[k] = q[b] /\ b # 0
    BY <1>2, <1>3, <1>4
  <2> QED
    BY <2>1 DEF Chain
<1>13. k = 0 => Distinct(t, d)
  OBVIOUS
<1> QED
  BY <1>1, <1>4, <1>6, <1>7, <1>8, <1>9, <1>10, <1>11, <1>12, <1>13 DEF Chain

(* Without data in it, the first message is gone and nothing else changes. *)
LEMMA ChainSkips ==
    ASSUME NEW t, NEW T, NEW list, NEW c, NEW q \in Seq(T), NEW pending,
           NEW p, Chain(t, list, c, q, pending, 0, p),
           q # <<>>, ~IsData(q[1]), NEW r, r = Tail(q),
           NEW k, k = IF p = 0 THEN 0 ELSE p - 1
    PROVE  Chain(t, list, c, r, pending, 0, k)
<1>1. PICK n \in Nat : n = Len(r)
  OBVIOUS
<1>2. Len(q) = n + 1 /\ \A j \in 1..n : r[j] = q[j + 1]
  BY <1>1
<1>3. p \in 0..n + 1 /\ p # 1
  BY <1>2 DEF Chain, Live
<1>4. k \in 0..n /\ (k = 0 <=> p = 0) /\ (k # 0 => p = k + 1)
  BY <1>3
<1>5. ASSUME NEW j \in 0..n, Live(r, 0, j),
             NEW i, i = IF j = 0 THEN 0 ELSE j + 1
      PROVE  /\ i \in 0..n + 1 /\ Live(q, 0, i) /\ At(c, r, j) = At(c, q, i)
  <2>1. CASE j = 0
    BY <1>5, <2>1 DEF Live, At
  <2>2. CASE j # 0
    <3>1. j \in 1..n /\ r[j] = q[i] /\ i \in 1..n + 1
      BY <1>2, <1>5, <2>2
    <3>2. Live(q, 0, i)
      BY <1>1, <1>2, <1>5, <3>1 DEF Live
    <3>4. i \in 0..n + 1 /\ i # 0
      BY <3>1
    <3>3. At(c, r, j) = r[j].list /\ At(c, q, i) = q[i].list
      BY Zenon, <2>2, <3>4 DEF At
    <3> QED
      BY <3>1, <3>2, <3>3, <3>4
  <2> QED
    BY <2>1, <2>2
<1>6. \A j \in 0..n : Live(r, 0, j) => Below(t, At(c, r, j), list)
  <2> SUFFICES ASSUME NEW j \in 0..n, Live(r, 0, j)
               PROVE  Below(t, At(c, r, j), list)
    OBVIOUS
  <2>1. PICK i : i = IF j = 0 THEN 0 ELSE j + 1
    OBVIOUS
  <2>2. i \in 0..n + 1 /\ Live(q, 0, i) /\ At(c, r, j) = At(c, q, i)
    BY <1>5, <2>1
  <2> QED
    BY <1>2, <2>2 DEF Chain
<1>7. ASSUME NEW i \in 0..n, NEW j \in 0..n,
             Live(r, 0, i), Live(r, 0, j), i < j
      PROVE  Below(t, At(c, r, i), At(c, r, j))
  <2>1. PICK e : e = IF i = 0 THEN 0 ELSE i + 1
    OBVIOUS
  <2>2. PICK g : g = IF j = 0 THEN 0 ELSE j + 1
    OBVIOUS
  <2>3. e \in 0..n + 1 /\ Live(q, 0, e) /\ At(c, r, i) = At(c, q, e)
    BY <1>5, <1>7, <2>1
  <2>4. g \in 0..n + 1 /\ Live(q, 0, g) /\ At(c, r, j) = At(c, q, g)
    BY <1>5, <1>7, <2>2
  <2>5. e < g
    BY <1>7, <2>1, <2>2
  <2> QED
    BY <1>2, <2>3, <2>4, <2>5 DEF Chain
<1>8. Live(r, 0, k) /\ At(c, r, k) = At(c, q, p)
  <2>1. CASE p = 0
    BY <2>1 DEF Live, At
  <2>2. CASE p # 0
    <3>1. k \in 1..n /\ r[k] = q[p] /\ k # 0
      BY <1>2, <1>3, <1>4, <2>2
    <3>2. IsData(q[p])
      BY <2>2 DEF Chain, Live
    <3> QED
      BY <1>1, <2>2, <3>1, <3>2 DEF Live, At
  <2> QED
    BY <2>1, <2>2
<1>9. \A j \in k + 1..n : ~IsData(r[j])
  <2> SUFFICES ASSUME NEW j \in k + 1..n
               PROVE  ~IsData(r[j])
    OBVIOUS
  <2>1. j \in 1..n /\ j + 1 \in p + 1..n + 1
    BY <1>3, <1>4
  <2> QED
    BY <1>2, <2>1 DEF Chain
<1>10. \A j \in 0..n :
          j # 0 /\ IsData(r[j]) => r[j].filtered /\ r[j].selector = {}
  <2> SUFFICES ASSUME NEW j \in 0..n, j # 0, IsData(r[j])
               PROVE  r[j].filtered /\ r[j].selector = {}
    OBVIOUS
  <2>1. j \in 1..n /\ j + 1 \in 0..n + 1 /\ j + 1 # 0
    OBVIOUS
  <2> QED
    BY <1>2, <2>1 DEF Chain
<1>11. ~pending => ItemsIn(At(c, r, k)) = ItemsIn(list)
  BY <1>8 DEF Chain
<1>12. Distinct(t, c)
  BY DEF Chain
<1>13. k \in 0..n /\ 0 \in 0..n
  BY <1>4
<1> QED
  BY <1>1, <1>13, <1>6, <1>7, <1>8, <1>9, <1>10, <1>11, <1>12 DEF Chain

(* Merging a list into one below it gives its items.                       *)
LEMMA MergeConverges ==
    ASSUME NEW t, IsSchema(t), NEW local \in BOOLEAN, ~local,
           NEW list, Listing(t, list), NEW new, Listing(t, new),
           Below(t, list, new),
           NEW r, r = Merge(t, local, list, new).list
    PROVE  Listing(t, r) /\ ItemsIn(r) = ItemsIn(new)
<1>0. /\ list \in Seq(Full(t)) /\ Distinct(t, list)
      /\ new \in Seq(Full(t)) /\ Distinct(t, new)
  BY DEF Listing
<1>1. PICK n \in Nat, m \in Nat : n = Len(list) /\ m = Len(new)
  BY <1>0
<1>2. MergeResult(t, local, list, new, r)
  BY <1>0, MergeKeeps
<1>3. PICK e \in Nat : e = Len(r) /\ n <= e
  BY <1>1, <1>2 DEF MergeResult
<1>4. ASSUME NEW i \in 1..n, NEW j \in 1..m, SameKeys(t, list[i], new[j])
      PROVE  r[i] = new[j]
  <2>1. PICK x \in Full(t) : x = list[i]
    BY <1>0, <1>1
  <2>2. PICK y \in Full(t) : y = new[j]
    BY <1>0, <1>1
  <2>0. x \in ItemsIn(list)
    BY <1>1, <2>1 DEF ItemsIn
  <2>3. PICK a \in 1..m :
            SameKeys(t, x, new[a]) /\ DOMAIN x \subseteq DOMAIN new[a]
    <3>1. PICK z \in ItemsIn(new) :
              SameKeys(t, x, z) /\ DOMAIN x \subseteq DOMAIN z
      BY <2>0 DEF Below, Under
    <3> QED
      BY <1>1, <3>1 DEF ItemsIn
  <2>4. SameKeys(t, x, y) /\ SameKeys(t, y, x)
    BY <1>4, <2>1, <2>2, SameKeysEqual
  <2>5. SameKeys(t, new[a], new[j])
    BY <2>2, <2>3, <2>4, SameKeysEqual
  <2>6. a = j
    BY <1>0, <1>1, <2>5 DEF Distinct
  <2>7. Becomes(t, local, x, new, r[i])
    BY <1>1, <1>2, <2>1 DEF MergeResult
  <2>8. ~Unmatched(t, x, new)
    BY <1>1, <2>2, <2>4 DEF Unmatched
  <2>9. PICK k \in 1..m : /\ LastMatch(t, x, new, k)
                          /\ r[i] = updateFields(t, local, x, new[k])
    BY <1>1, <2>7, <2>8 DEF Becomes
  <2>10. SameKeys(t, new[k], new[j])
    BY <2>2, <2>4, <2>9, SameKeysEqual DEF LastMatch
  <2>11. k = j
    BY <1>0, <1>1, <2>10 DEF Distinct
  <2>12. PICK u : u = r[i] /\ u = updateFields(t, local, x, y)
    BY <2>2, <2>9, <2>11
  <2>13. Completed(t, local, x, y, u)
    BY <2>4, <2>12, UpdatedFields
  <2>14. DOMAIN u = DOMAIN y /\ \A f \in DOMAIN y : u[f] = y[f]
    BY <2>2, <2>3, <2>6, <2>13 DEF Completed
  <2>15. u \in ItemsOf(t) /\ y \in ItemsOf(t)
    BY <2>13 DEF Completed, Full
  <2>16. u = [f \in DOMAIN u |-> u[f]] /\ y = [f \in DOMAIN y |-> y[f]]
    BY <2>15, ItemsHave
  <2> QED
    BY <2>2, <2>12, <2>14, <2>16
<1>5. ASSUME NEW i \in 1..e
      PROVE  r[i] \in ItemsIn(new)
  <2>1. CASE i <= n
    <3>1. i \in 1..n
      BY <2>1
    <3>2. PICK j \in 1..m : SameKeys(t, list[i], new[j])
      BY <1>1, <3>1 DEF Below, Under, ItemsIn
    <3>3. r[i] = new[j]
      BY <1>4, <3>1, <3>2
    <3> QED
      BY <1>1, <3>3 DEF ItemsIn
  <2>2. CASE ~(i <= n)
    BY <1>1, <1>2, <1>3, <2>2 DEF MergeResult
  <2> QED
    BY <2>1, <2>2
<1>6. ASSUME NEW j \in 1..m
      PROVE  new[j] \in ItemsIn(r)
  <2>1. CASE Unmatched(t, new[j], list)
    BY <1>1, <1>2, <2>1 DEF MergeResult
  <2>2. CASE ~Unmatched(t, new[j], list)
    <3>1. PICK i \in 1..n : SameKeys(t, list[i], new[j])
      BY <1>1, <2>2 DEF Unmatched
    <3>2. r[i] = new[j] /\ i \in 1..e
      BY <1>3, <1>4, <3>1
    <3> QED
      BY <1>3, <3>2 DEF ItemsIn
  <2> QED
    BY <2>1, <2>2
<1>7. ItemsIn(r) = ItemsIn(new)
  <2>1. ItemsIn(r) \subseteq ItemsIn(new)
    <3> SUFFICES ASSUME NEW x \in ItemsIn(r)
                 PROVE  x \in ItemsIn(new)
      OBVIOUS
    <3>1. PICK i \in 1..e : x = r[i]
      BY <1>3 DEF ItemsIn
    <3> QED
      BY <1>5, <3>1
  <2>2. ItemsIn(new) \subseteq ItemsIn(r)
    <3> SUFFICES ASSUME NEW x \in ItemsIn(new)
                 PROVE  x \in ItemsIn(r)
      OBVIOUS
    <3>1. PICK j \in 1..m : x = new[j]
      BY <1>1 DEF ItemsIn
    <3> QED
      BY <1>6, <3>1
  <2> QED
    BY <2>1, <2>2
<1>8. Listing(t, r)
  BY <1>0, <1>2 DEF MergeResult, Listing
<1> QED
  BY <1>7, <1>8

(* Items that are merged or copied to all keep their keys and fields.      *)
LEMMA EffectGrows ==
    ASSUME NEW f, NEW t, IsSchema(t), NEW local \in BOOLEAN,
           NEW list, Listing(t, list), NEW c, NEW d,
           \/ MergedIn(t, local, list, c, d)
           \/ ToAll(f, t, local, list, c, d)
    PROVE  Below(t, list, d.list)
<1>0. list \in Seq(Full(t))
  BY DEF Listing
<1>1. PICK n \in Nat : n = Len(list)
  BY <1>0
<1>b. ASSUME NEW l \in Seq(Full(t)), n <= Len(l),
             \A i \in 1..n : /\ SameKeys(t, list[i], l[i])
                             /\ DOMAIN list[i] \subseteq DOMAIN l[i]
      PROVE  Below(t, list, l)
  <2> SUFFICES ASSUME NEW x \in ItemsIn(list)
               PROVE  \E y \in ItemsIn(l) :
                         SameKeys(t, x, y) /\ DOMAIN x \subseteq DOMAIN y
    BY DEF Below, Under
  <2>1. PICK i \in 1..n : x = list[i]
    BY <1>1 DEF ItemsIn
  <2>2. i \in 1..Len(l)
    BY <1>b
  <2>3. l[i] \in ItemsIn(l)
    BY <2>2 DEF ItemsIn
  <2> QED
    BY <1>b, <2>1, <2>3
<1>2. CASE MergedIn(t, local, list, c, d)
  <2>1. PICK new \in Seq(Full(t)) : new = c.new
    BY <1>2 DEF MergedIn, Merging, Listing
  <2>2. PICK l : l = Merge(t, local, list, new).list
    OBVIOUS
  <2>3. MergeResult(t, local, list, new, l)
    BY <1>0, <2>2, MergeKeeps
  <2>4. ASSUME NEW i \in 1..n
        PROVE  /\ SameKeys(t, list[i], l[i])
               /\ DOMAIN list[i] \subseteq DOMAIN l[i]
    <3>1. PICK x \in Full(t) : x = list[i]
      BY <1>0, <1>1
    <3>2. PICK y : y = l[i]
      OBVIOUS
    <3>3. Becomes(t, local, x, new, y)
      BY <1>1, <2>3, <3>1, <3>2 DEF MergeResult
    <3>4. Became(t, local, x, new, y)
      BY <3>3, BecomesKeeps
    <3> QED
      BY <3>1, <3>2, <3>4, SameKeysEqual DEF Became
  <2>5. l \in Seq(Full(t)) /\ n <= Len(l)
    BY <1>1, <2>3 DEF MergeResult
  <2>6. Below(t, list, l)
    BY <1>b, <2>4, <2>5
  <2>7. d.list = SortData(t, l)
    BY <1>2, <2>1, <2>2 DEF MergedIn
  <2>8. ItemsIn(d.list) = ItemsIn(l)
    BY <2>5, <2>7, SortKeeps
  <2> QED
    BY <2>6, <2>8 DEF Below
<1>3. CASE ToAll(f, t, local, list, c, d)
  <2>1. PICK p : /\ Patch(t, c, p)
                 /\ d.list = copyToAllData(t, local, list, p).list
    BY <1>3 DEF ToAll
  <2>2. p \in ItemsOf(t) /\ DOMAIN p \cap KeysOf(t) = {}
    BY <2>1 DEF Patch
  <2>3. PICK l : l = d.list
    OBVIOUS
  <2>4. Copied(t, local, list, p, l)
    BY <1>0, <2>1, <2>2, <2>3, CopyToAll
  <2>5. CopyKept(t, local, list, l)
    BY <1>0, <2>2, <2>4, CopiedKeeps
  <2>6. ASSUME NEW i \in 1..n
        PROVE  /\ SameKeys(t, list[i], l[i])
               /\ DOMAIN list[i] \subseteq DOMAIN l[i]
    BY <1>1, <2>5, SameKeysEqual DEF CopyKept
  <2>7. l \in Seq(Full(t)) /\ n <= Len(l)
    BY <1>1, <2>4 DEF Copied
  <2> QED
    BY <1>b, <2>3, <2>6, <2>7
<1> QED
  BY <1>2, <1>3

(* What the updates of the application do.                                 *)
Locally(f, t, list, c, d) ==
    /\ ~d.ok => d.list = list
    /\ d.ok /\ (c.partial.given \/ c.delete.given)
           => SupportsPartialWrite(f)
    /\ /\ d.ok /\ c.partial.given /\ ~c.delete.given
       /\ FilterData(f, c.partial).selector = {}
       => Below(t, list, d.list)

LEMMA LocalUpdate ==
    ASSUME NEW f \in Functions, NEW t, t = Schemas[f],
           NEW list, Listing(t, list), NEW c \in Commands[f],
           NEW local \in BOOLEAN, ~local,
           NEW d, d = UpdateOf(f, local, list, c)
    PROVE  Locally(f, t, list, c, d)
<1>2. d = UpdateData(f, local, list, c.new, c.partial, c.delete)
  BY DEF UpdateOf
<1>3. Legal(t, c) /\ IsSchema(t) /\ list \in Seq(Full(t))
  BY CommandsLegal, SchemasAre DEF Listing
<1>4. /\ Effect(f, t, local, list, c, d)
      /\ Refused(list, d) \/ SupportsPartialWrite(f) \/ Replacing(t, c)
      /\ ~local /\ SupportsPartialWrite(f) => d.ok
  BY <1>3, EffectOf
<1>6. Replacing(t, c) => ~c.partial.given /\ ~c.delete.given
  BY NothingFound DEF Replacing
<1>7. ~d.ok => d.list = list
  <2>1. Replacing(t, c) => d.ok
    BY <1>2, <1>6, UpdateUnfiltered
  <2> QED
    BY <1>4, <2>1 DEF Refused
<1>8. d.ok /\ (c.partial.given \/ c.delete.given) => SupportsPartialWrite(f)
  BY <1>4, <1>6 DEF Refused
<1>9. ASSUME d.ok, c.partial.given, ~c.delete.given,
             FilterData(f, c.partial).selector = {}
      PROVE  Below(t, list, d.list)
  <2>1. ~Deleting(t, c)
    BY <1>9 DEF Deleting
  <2>2. MergedIn(t, local, list, c, d) \/ ToAll(f, t, local, list, c, d)
    BY <1>4, <1>6, <1>9, <2>1
    DEF Effect, Refused, Replaced, ToSelected, Removed, Cleared, Ordered
  <2> QED
    BY <1>3, <2>2, EffectGrows
<1> QED
  BY <1>7, <1>8, <1>9 DEF Locally

-----------------------------------------------------------------------------
(* The calls.  One that is alone has no other beside it; a message that is *)
(* copied carries the data, unless another call came between; and what a   *)
(* notification with a filter leaves out makes the copy lossy.             *)
Pending(call) == call.step \in {"updated", "copied"}
Copying(call, other, list, bad) ==
    /\ Busy(call) /\ call.alone => ~Busy(other)
    /\ call.step = "copied" =>
          /\ call.alone \/ ~bad => call.message.list = list
          /\ call.message.filtered = call.filtered
          /\ IsData(call.message)
          /\ call.selector = {} => call.message.selector = {}
CallInv ==
    /\ Copying(app, reader, data, lossy) /\ Copying(reader, app, data, lossy)
    /\ ~reader.filtered /\ reader.selector = {}
    /\ app.step # "notified"
    /\ Busy(app) /\ app.filtered => SupportsPartialWrite(function)
    /\ Busy(app) /\ ~lossy => app.selector = {}
    /\ \A i \in 1..Len(down) :
          down[i].filtered => SupportsPartialWrite(function)

LEMMA CallFields ==
    ASSUME NEW t, NEW call \in CallsOf(t)
    PROVE  /\ LET o == Overtaken(call)
              IN /\ o.step = call.step /\ (o.alone <=> call.step = "idle")
                 /\ o.filtered = call.filtered /\ o.selector = call.selector
                 /\ o.message = call.message
           /\ \A m : LET o == [call EXCEPT !.step = "copied", !.message = m]
                     IN /\ o.step = "copied" /\ o.alone = call.alone
                        /\ o.filtered = call.filtered
                        /\ o.selector = call.selector /\ o.message = m
           /\ LET o == [call EXCEPT !.step = "notified"]
              IN /\ o.step = "notified" /\ o.alone = call.alone
                 /\ o.filtered = call.filtered /\ o.selector = call.selector
<1>1. call = [step |-> call.step, alone |-> call.alone, ack |-> call.ack,
              selector |-> call.selector, filtered |-> call.filtered,
              message |-> call.message]
  BY DEF CallsOf
<1>2. LET o == Overtaken(call)
      IN /\ o.step = call.step /\ (o.alone <=> call.step = "idle")
         /\ o.filtered = call.filtered /\ o.selector = call.selector
         /\ o.message = call.message
  BY <1>1 DEF Overtaken
<1>3. \A m : LET o == [call EXCEPT !.step = "copied", !.message = m]
             IN /\ o.step = "copied" /\ o.alone = call.alone
                /\ o.filtered = call.filtered
                /\ o.selector = call.selector /\ o.message = m
  BY <1>1
<1>4. LET o == [call EXCEPT !.step = "notified"]
      IN /\ o.step = "notified" /\ o.alone = call.alone
         /\ o.filtered = call.filtered /\ o.selector = call.selector
  BY <1>1
<1> QED
  BY <1>2, <1>3, <1>4

ChainInv ==
    ~lossy /\ ~Pending(reader) /\ (Pending(app) => app.filtered)
    => \E b, p : Chain(Schema, data, copy, down, Pending(app), b, p)

LEMMA StaysCopying ==
    ASSUME NEW t, NEW call \in CallsOf(t), NEW other, NEW list, NEW bad,
           Copying(call, other, list, bad),
           NEW o, o = Overtaken(call), NEW another, NEW more, NEW worse,
           call.step = "copied" /\ ~worse => ~bad /\ more = list
    PROVE  Copying(o, another, more, worse)
BY CallFields DEF Copying, Busy

LEMMA IdleCopying ==
    ASSUME NEW call, NEW other, NEW list, NEW bad,
           call.step = "copied" \/ (Busy(call) /\ call.alone) => ~Busy(call)
    PROVE  Copying(call, other, list, bad)
<1>1. "copied" # "idle"
  OBVIOUS
<1> QED
  BY <1>1 DEF Copying, Busy

(* What is appended supports filters, if it has one.                       *)
LEMMA SupportStays ==
    ASSUME NEW T, NEW q \in Seq(T), NEW P,
           \A i \in 1..Len(q) : q[i].filtered => P, NEW r,
           \/ q # <<>> /\ r = Tail(q)
           \/ \E m \in T : r = Append(q, m) /\ (m.filtered => P)
    PROVE  \A i \in 1..Len(r) : r[i].filtered => P
<1>1. PICK n \in Nat : n = Len(q)
  OBVIOUS
<1>2. CASE q # <<>> /\ r = Tail(q)
  <2>1. Len(r) = n - 1 /\ \A i \in 1..n - 1 : r[i] = q[i + 1]
    BY <1>1, <1>2
  <2>2. \A i \in 1..n - 1 : i + 1 \in 1..n
    BY <1>1
  <2> QED
    BY <1>1, <2>1, <2>2
<1>3. ASSUME NEW m \in T, r = Append(q, m), m.filtered => P
      PROVE  \A i \in 1..Len(r) : r[i].filtered => P
  <2>1. Len(r) = n + 1 /\ r[n + 1] = m /\ \A i \in 1..n : r[i] = q[i]
    BY <1>1, <1>3
  <2>2. \A i \in 1..n + 1 : i \in 1..n \/ i = n + 1
    OBVIOUS
  <2> QED
    BY <1>1, <1>3, <2>1, <2>2
<1> QED
  BY <1>2, <1>3

(* What the types say of the exchange, for function f of schema t.         *)
Exchange(f, t) ==
    /\ f = function /\ f \in Functions
    /\ t = Schemas[f] /\ t = Schema /\ IsSchema(t)
    /\ Listing(t, data) /\ copy \in Seq(Full(t))
    /\ app \in CallsOf(t) /\ reader \in CallsOf(t)
    /\ up \in Seq(RequestsOf(f)) /\ down \in Seq(MessagesOf(t))
    /\ lossy \in BOOLEAN

LEMMA TypesHave ==
    ASSUME TypeInv
    PROVE  \E f, t : Exchange(f, t)
<1>1. PICK f \in Functions : f = function
  BY DEF TypeInv, Typed
<1>2. PICK t : t = Schemas[f] /\ t = Schema
  BY <1>1 DEF Schema
<1> QED
  BY <1>1, <1>2, SchemasAre DEF TypeInv, Typed, Exchange

LEMMA CopyAppUpdate ==
    ASSUME TypeInv, CallInv, ChainInv,
           NEW c \in Commands[function], AppUpdate(c)
    PROVE  CallInv' /\ ChainInv'
<1>1. PICK f, t : Exchange(f, t)
  BY TypesHave
<1>0. PICK local \in BOOLEAN : local = FALSE
  OBVIOUS
<1>2. PICK d : /\ d = UpdateOf(f, local, data, c)
               /\ d = UpdateData(f, FALSE, data, c.new, c.partial, c.delete)
  BY <1>0 DEF UpdateOf
<1>3. PICK s : s = FilterData(f, c.partial).selector
  OBVIOUS
<1>4. PICK g \in BOOLEAN : g = (c.partial.given \/ c.delete.given)
  BY <1>1, UpdateSelectors DEF Exchange
<1>5. /\ ~Busy(app) /\ data' = d.list
      /\ IF d.ok
         THEN /\ app' = [Idle EXCEPT !.step = "updated",
                            !.alone = ~Busy(reader), !.selector = s,
                            !.filtered = g]
              /\ reader' = Overtaken(reader)
              /\ lossy' = (lossy \/ Busy(reader) \/ s # {}
                           \/ c.delete.given)
         ELSE UNCHANGED <<app, reader, lossy>>
      /\ UNCHANGED <<function, copy, up, down>>
  BY <1>1, <1>2, <1>3, <1>4 DEF AppUpdate, Exchange
<1>6. /\ ~d.ok => d.list = data
      /\ d.ok /\ g => SupportsPartialWrite(f)
      /\ d.ok /\ g /\ ~c.delete.given /\ s = {} => Below(t, data, d.list)
  <2>1. /\ f \in Functions /\ t = Schemas[f] /\ Listing(t, data)
        /\ c \in Commands[f]
    BY <1>1 DEF Exchange
  <2>2. d = UpdateOf(f, local, data, c) /\ ~local
    BY <1>0, <1>2
  <2>3. Locally(f, t, data, c, d)
    BY <2>1, <2>2, LocalUpdate
  <2> QED
    BY <1>3, <1>4, <2>3 DEF Locally
<1>7. CASE ~d.ok
  <2>1. UNCHANGED <<function, data, copy, app, reader, down, lossy>>
    BY <1>5, <1>6, <1>7
  <2>2. CallInv'
    BY <2>1 DEF CallInv
  <2>3. ChainInv'
    BY <2>1 DEF ChainInv, Schema
  <2> QED
    BY <2>2, <2>3
<1>8. CASE d.ok
  <2>1. /\ app'.step = "updated" /\ app'.selector = s /\ app'.filtered = g
        /\ app'.alone <=> ~Busy(reader)
    BY <1>5, <1>8 DEF Idle
  <2>2. /\ reader'.step = reader.step /\ reader'.filtered = reader.filtered
        /\ reader'.selector = reader.selector
    BY <1>1, <1>5, <1>8, CallFields DEF Exchange
  <2>3. /\ lossy \/ Busy(reader) \/ s # {} \/ c.delete.given <=> lossy'
    BY <1>5, <1>8
  <2>4. Copying(app', reader', data', lossy')
    BY <2>1, <2>2 DEF Copying, Busy
  <2>5. Copying(reader', app', data', lossy')
    <3>1. reader.step = "copied" => lossy'
      BY <2>3 DEF Busy
    <3>2. Copying(reader, app, data, lossy)
      BY DEF CallInv
    <3>3. reader \in CallsOf(t) /\ reader' = Overtaken(reader)
      BY <1>1, <1>5, <1>8 DEF Exchange
    <3> QED
      BY <3>1, <3>2, <3>3, StaysCopying
  <2>6. CallInv'
    <3>1. ~reader'.filtered /\ reader'.selector = {}
      BY <2>2 DEF CallInv
    <3>2. app'.step # "notified"
      BY <2>1
    <3>3. app'.filtered => SupportsPartialWrite(function')
      BY <1>1, <1>5, <1>6, <1>8, <2>1 DEF Exchange
    <3>4. ~lossy' => app'.selector = {}
      BY <2>1, <2>3
    <3>5. \A i \in 1..Len(down') :
              down'[i].filtered => SupportsPartialWrite(function')
      BY <1>5 DEF CallInv
    <3> QED
      BY <2>4, <2>5, <3>1, <3>2, <3>3, <3>4, <3>5 DEF CallInv
  <2>7. ChainInv'
    <3>1. SUFFICES ASSUME ~lossy', ~Pending(reader'), g
                   PROVE  \E b, p : Chain(t, data', copy, down, Pending(app'),
                                          b, p)
      <4>1. Pending(app') /\ app'.filtered = g
        BY <2>1 DEF Pending
      <4>2. Schema' = t /\ copy' = copy /\ down' = down
        BY <1>1, <1>5 DEF Exchange, Schema
      <4> QED
        BY <4>1, <4>2 DEF ChainInv
    <3>2. ~lossy /\ s = {} /\ ~c.delete.given /\ ~Pending(reader)
      BY <2>2, <2>3, <3>1 DEF Pending
    <3>3. ~Pending(app)
      BY <1>5 DEF Busy, Pending
    <3>4. PICK b, p : Chain(t, data, copy, down, Pending(app), b, p)
      BY <1>1, <3>2, <3>3 DEF ChainInv, Exchange
    <3>5. Below(t, data, data')
      BY <1>5, <1>6, <1>8, <3>1, <3>2
    <3>6. Pending(app')
      BY <2>1 DEF Pending
    <3>7. Chain(t, data', copy, down, Pending(app'), b, p)
      BY <3>4, <3>5, <3>6, ChainGrows
    <3> QED
      BY <3>7
  <2> QED
    BY <2>6, <2>7
<1> QED
  BY <1>7, <1>8

(* A message without data.                                                 *)
LEMMA ResultIs ==
    ASSUME NEW t, NEW kind \in {"error", "ok"}
    PROVE  /\ Result(kind) \in MessagesOf(t)
           /\ ~IsData(Result(kind)) /\ ~Result(kind).filtered
<1>1. {} \in SUBSET Selectors(t)
  OBVIOUS
<1>2. Result(kind) \in MessagesOf(t)
  BY <1>1, EmptyList, MessageOf DEF Result
<1>3. kind \notin {"notify", "reply"}
  OBVIOUS
<1> QED
  BY <1>2, <1>3 DEF Result, IsData

(* The steps that only send such a message.                                *)
LEMMA CopyAnswered ==
    ASSUME TypeInv, CallInv, ChainInv, NEW kind \in {"error", "ok"},
           down' = Append(down, Result(kind)), ~Pending(reader),
           UNCHANGED <<function, data, copy, app, lossy>>,
           reader' = reader \/ reader' = Idle
    PROVE  CallInv' /\ ChainInv'
<1>1. PICK f, t : Exchange(f, t)
  BY TypesHave
<1>2. PICK m \in MessagesOf(t) :
          m = Result(kind) /\ ~IsData(m) /\ ~m.filtered
  BY ResultIs
<1>3. PICK q \in Seq(MessagesOf(t)) : q = down
  BY <1>1 DEF Exchange
<1>4. PICK r : r = down' /\ r = Append(q, m)
  BY <1>2, <1>3
<1>5. \A i \in 1..Len(down') :
          down'[i].filtered => SupportsPartialWrite(function')
  <2>1. \A i \in 1..Len(q) : q[i].filtered => SupportsPartialWrite(function)
    BY <1>3 DEF CallInv
  <2>2. \A i \in 1..Len(r) : r[i].filtered => SupportsPartialWrite(function)
    BY <1>2, <1>4, <2>1, SupportStays
  <2> QED
    BY <1>4, <2>2
<1>6. /\ Idle.step = "idle" /\ ~Idle.filtered /\ Idle.selector = {}
      /\ "idle" # "updated" /\ "idle" # "copied"
  BY DEF Idle
<1>7. Copying(app', reader', data', lossy')
  BY <1>6 DEF CallInv, Copying, Busy
<1>8. Copying(reader', app', data', lossy')
  BY <1>6 DEF CallInv, Copying, Busy
<1>9. CallInv'
  BY <1>5, <1>6, <1>7, <1>8 DEF CallInv
<1>10. ASSUME ~lossy, Pending(app) => app.filtered
       PROVE  \E b, p : Chain(t, data, copy, r, Pending(app), b, p)
  <2>1. PICK b, p : Chain(t, data, copy, q, Pending(app), b, p)
    BY <1>1, <1>3, <1>10 DEF ChainInv, Exchange
  <2>2. Chain(t, data, copy, r, Pending(app), b, p)
    BY <1>2, <1>4, <2>1, ChainAppends
  <2> QED
    BY <2>2
<1>11. ChainInv'
  <2>1. Schema' = t
    BY <1>1 DEF Exchange, Schema
  <2> QED
    BY <1>4, <1>10, <2>1 DEF ChainInv
<1> QED
  BY <1>9, <1>11

(* A write that was handled.                                               *)
LEMMA CopyRefuseWrite ==
    ASSUME TypeInv, CallInv, ChainInv, RefuseWrite
    PROVE  CallInv' /\ ChainInv'
<1>1. PICK f, t : Exchange(f, t)
  BY TypesHave
<1>2. PICK d : d = Written(Head(up).command)
  OBVIOUS
<1>3. /\ ~Busy(reader) /\ data' = d.list
      /\ app' = (IF d.list # data THEN Overtaken(app) ELSE app)
      /\ lossy' = (lossy \/ d.list # data)
      /\ down' = Append(down, Result("error"))
      /\ UNCHANGED <<function, copy, reader>>
  BY <1>2 DEF RefuseWrite, WriteReceived
<1>4. CASE d.list = data
  <2>1. ~Pending(reader)
    BY <1>3 DEF Busy, Pending
  <2>2. lossy' = lossy
    BY <1>1, <1>3, <1>4 DEF Exchange
  <2> QED
    BY <1>3, <1>4, <2>1, <2>2, CopyAnswered
<1>5. CASE d.list # data
  <2>1. app' = Overtaken(app) /\ app \in CallsOf(t) /\ lossy'
    BY <1>1, <1>3, <1>5 DEF Exchange
  <2>2. Copying(app, reader, data, lossy)
    BY DEF CallInv
  <2>3. Copying(app', reader', data', lossy')
    BY <2>1, <2>2, StaysCopying
  <2>4. Copying(reader', app', data', lossy')
    BY <1>3, IdleCopying
  <2>5. app'.step = app.step /\ app'.filtered = app.filtered
    BY <2>1, CallFields
  <2>6. \A i \in 1..Len(down') :
            down'[i].filtered => SupportsPartialWrite(function')
    <3>1. PICK q \in Seq(MessagesOf(t)) : q = down
      BY <1>1 DEF Exchange
    <3>2. PICK m \in MessagesOf(t) : m = Result("error") /\ ~m.filtered
      BY ResultIs
    <3>3. \A i \in 1..Len(q) : q[i].filtered => SupportsPartialWrite(function)
      BY <3>1 DEF CallInv
    <3>4. PICK r : r = down' /\ r = Append(q, m)
      BY <1>3, <3>1, <3>2
    <3>5. \A i \in 1..Len(r) : r[i].filtered => SupportsPartialWrite(function)
      BY <3>2, <3>3, <3>4, SupportStays
    <3> QED
      BY <1>3, <3>4, <3>5
  <2>7. CallInv'
    BY <1>3, <2>1, <2>3, <2>4, <2>5, <2>6 DEF CallInv, Busy
  <2>8. ChainInv'
    BY <2>1 DEF ChainInv
  <2> QED
    BY <2>7, <2>8
<1> QED
  BY <1>4, <1>5

LEMMA CopyExecuteWrite ==
    ASSUME TypeInv, CallInv, ExecuteWrite
    PROVE  CallInv' /\ ChainInv'
<1>1. PICK f, t : Exchange(f, t)
  BY TypesHave
<1>2. /\ ~Busy(reader)
      /\ reader' = [Idle EXCEPT !.step = "updated", !.alone = ~Busy(app),
                                !.ack = Head(up).ack]
      /\ app' = Overtaken(app) /\ lossy' = (lossy \/ Busy(app))
      /\ UNCHANGED <<function, copy, down>>
  BY DEF ExecuteWrite, WriteReceived
<1>3. /\ reader'.step = "updated" /\ ~reader'.filtered
      /\ reader'.selector = {} /\ (reader'.alone <=> ~Busy(app))
  BY <1>2 DEF Idle
<1>4. app'.step = app.step /\ app'.filtered = app.filtered
      /\ app'.selector = app.selector
  BY <1>1, <1>2, CallFields DEF Exchange
<1>5. Copying(app', reader', data', lossy')
  <2>1. Copying(app, reader, data, lossy) /\ app \in CallsOf(t)
    BY <1>1 DEF CallInv, Exchange
  <2>2. app.step = "copied" => lossy'
    BY <1>2 DEF Busy
  <2> QED
    BY <1>2, <2>1, <2>2, StaysCopying
<1>6. Copying(reader', app', data', lossy')
  BY <1>3, <1>4 DEF Copying, Busy
<1>7. ~lossy' => ~lossy
  BY <1>2
<1>8. CallInv'
  BY <1>2, <1>3, <1>4, <1>5, <1>6, <1>7 DEF CallInv, Busy
<1>9. ChainInv'
  BY <1>3 DEF ChainInv, Pending
<1> QED
  BY <1>8, <1>9

LEMMA CopyHandleRead ==
    ASSUME TypeInv, CallInv, HandleRead
    PROVE  CallInv' /\ ChainInv'
<1>1. PICK f, t : Exchange(f, t)
  BY TypesHave
<1>2. PICK m : m = ReplyCmdType(data)
  OBVIOUS
<1>3. /\ ~Busy(reader)
      /\ reader' = [Idle EXCEPT !.step = "copied", !.alone = ~Busy(app),
                                !.message = m]
      /\ app' = Overtaken(app)
      /\ UNCHANGED <<function, data, copy, down, lossy>>
  BY <1>2 DEF HandleRead
<1>4. /\ reader'.step = "copied" /\ reader'.filtered = FALSE
      /\ reader'.selector = {} /\ reader'.message = m
      /\ reader'.alone <=> ~Busy(app)
  BY <1>3 DEF Idle
<1>5. app'.step = app.step /\ app'.filtered = app.filtered
      /\ app'.selector = app.selector
  BY <1>1, <1>3, CallFields DEF Exchange
<1>6. m.list = data /\ m.filtered = FALSE /\ m.selector = {} /\ IsData(m)
  BY <1>2 DEF ReplyCmdType, IsData
<1>7. Copying(app', reader', data', lossy')
  <2>1. Copying(app, reader, data, lossy) /\ app \in CallsOf(t)
    BY <1>1 DEF CallInv, Exchange
  <2> QED
    BY <1>3, <2>1, StaysCopying
<1>8. Copying(reader', app', data', lossy')
  BY <1>3, <1>4, <1>5, <1>6 DEF Copying, Busy
<1>9. CallInv'
  BY <1>3, <1>4, <1>5, <1>7, <1>8 DEF CallInv, Busy
<1>10. ChainInv'
  BY <1>4 DEF ChainInv, Pending
<1> QED
  BY <1>9, <1>10

(* The copy of the data for a notification.                                *)
LEMMA NotificationIs ==
    ASSUME NEW list, NEW call, NEW m, m = NotifyOrWriteCmdType(list, call)
    PROVE  /\ m.list = list /\ m.filtered = call.filtered /\ IsData(m)
           /\ call.selector = {} => m.selector = {}
BY DEF NotifyOrWriteCmdType, IsData

LEMMA CopyAppCopy ==
    ASSUME TypeInv, CallInv, ChainInv, AppCopy
    PROVE  CallInv' /\ ChainInv'
<1>1. PICK f, t : Exchange(f, t)
  BY TypesHave
<1>2. PICK m : m = NotifyOrWriteCmdType(data, app)
  OBVIOUS
<1>3. /\ app.step = "updated"
      /\ app' = [app EXCEPT !.step = "copied", !.message = m]
      /\ UNCHANGED <<function, data, copy, reader, down, lossy>>
  BY <1>2 DEF AppCopy
<1>4. /\ app'.step = "copied" /\ app'.alone = app.alone
      /\ app'.filtered = app.filtered
      /\ app'.selector = app.selector /\ app'.message = m
  BY <1>1, <1>3, CallFields DEF Exchange
<1>5. /\ m.list = data /\ m.filtered = app.filtered /\ IsData(m)
      /\ app.selector = {} => m.selector = {}
  BY <1>2, NotificationIs
<1>6. Copying(app', reader', data', lossy')
  BY <1>3, <1>4, <1>5 DEF CallInv, Copying, Busy
<1>7. Copying(reader', app', data', lossy')
  BY <1>3, <1>4 DEF CallInv, Copying, Busy
<1>8. CallInv'
  BY <1>3, <1>4, <1>6, <1>7 DEF CallInv, Busy
<1>9. ChainInv'
  <2>1. Pending(app) /\ Pending(app')
    BY <1>3, <1>4 DEF Pending
  <2>2. Schema' = Schema
    BY <1>3 DEF Schema
  <2>3. ASSUME ~lossy, ~Pending(reader), app.filtered
        PROVE  \E b, p : Chain(Schema, data, copy, down, Pending(app'), b, p)
    <3>1. PICK b, p : Chain(Schema, data, copy, down, Pending(app), b, p)
      BY <2>1, <2>3 DEF ChainInv
    <3>2. Chain(Schema, data, copy, down, Pending(app'), b, p)
      BY <2>1, <3>1, ChainGrows
    <3> QED
      BY <3>2
  <2> QED
    BY <1>3, <1>4, <2>1, <2>2, <2>3 DEF ChainInv
<1> QED
  BY <1>8, <1>9

LEMMA CopyReaderCopy ==
    ASSUME TypeInv, CallInv, ReaderCopy
    PROVE  CallInv' /\ ChainInv'
<1>1. PICK f, t : Exchange(f, t)
  BY TypesHave
<1>2. PICK m : m = NotifyOrWriteCmdType(data, reader)
  OBVIOUS
<1>3. /\ reader.step = "updated"
      /\ reader' = [reader EXCEPT !.step = "copied", !.message = m]
      /\ UNCHANGED <<function, data, copy, app, down, lossy>>
  BY <1>2 DEF ReaderCopy
<1>4. /\ reader'.step = "copied" /\ reader'.alone = reader.alone
      /\ reader'.filtered = reader.filtered
      /\ reader'.selector = reader.selector /\ reader'.message = m
  BY <1>1, <1>3, CallFields DEF Exchange
<1>5. /\ m.list = data /\ m.filtered = reader.filtered /\ IsData(m)
      /\ reader.selector = {} => m.selector = {}
  BY <1>2, NotificationIs
<1>6. Copying(reader', app', data', lossy')
  BY <1>3, <1>4, <1>5 DEF CallInv, Copying, Busy
<1>7. Copying(app', reader', data', lossy')
  BY <1>3, <1>4 DEF CallInv, Copying, Busy
<1>8. CallInv'
  BY <1>3, <1>4, <1>6, <1>7 DEF CallInv, Busy
<1>9. ChainInv'
  BY <1>4 DEF ChainInv, Pending
<1> QED
  BY <1>8, <1>9

(* A message that carries all of the data is a new base.                   *)
LEMMA ChainRestarts ==
    ASSUME NEW t, NEW T, NEW list, NEW c, NEW q \in Seq(T), NEW after,
           NEW m \in T, IsData(m), ~m.filtered, m.list = list,
           NEW r, r = Append(q, m)
    PROVE  \E b, p : Chain(t, list, c, r, after, b, p)
<1>1. PICK n \in Nat : n = Len(r)
  OBVIOUS
<1>2. r \in Seq(T) /\ n # 0 /\ r[n] = m
  BY <1>1
<1>3. Chain(t, list, c, r, after, n, n)
  BY <1>1, <1>2, ChainAtBase
<1> QED
  BY <1>3

LEMMA CopyAppNotify ==
    ASSUME TypeInv, CallInv, ChainInv, AppNotify
    PROVE  CallInv' /\ ChainInv'
<1>1. PICK f, t : Exchange(f, t)
  BY TypesHave
<1>2. PICK m \in MessagesOf(t) : m = app.message
  BY <1>1 DEF Exchange, AppNotify, CallsOf
<1>3. PICK q \in Seq(MessagesOf(t)) : q = down
  BY <1>1 DEF Exchange
<1>4. PICK r : r = down' /\ r = Append(q, m)
  BY <1>2, <1>3 DEF AppNotify, Sent
<1>5. /\ app.step = "copied" /\ app' = Idle
      /\ lossy' = (lossy /\ (m.filtered \/ ~app.alone))
      /\ UNCHANGED <<function, data, copy, reader>>
  BY <1>2 DEF AppNotify, Sent
<1>6. /\ Busy(app) /\ (app.alone => ~Busy(reader))
      /\ app.alone \/ ~lossy => m.list = data
      /\ m.filtered = app.filtered /\ IsData(m)
      /\ app.selector = {} => m.selector = {}
  <2>1. Busy(app)
    BY <1>5 DEF Busy
  <2> QED
    BY <1>2, <1>5, <2>1 DEF CallInv, Copying
<1>7. /\ ~lossy' => ~lossy \/ (~m.filtered /\ app.alone)
      /\ ~lossy' => m.list = data
  BY <1>5, <1>6
<1>8. app'.step = "idle" /\ ~Busy(app') /\ ~Pending(app')
  BY <1>5 DEF Idle, Busy, Pending
<1>9. Copying(app', reader', data', lossy')
  BY <1>8, IdleCopying DEF Busy
<1>10. Copying(reader', app', data', lossy')
  <2>1. Copying(reader, app, data, lossy)
    BY DEF CallInv
  <2>2. reader.step = "copied" => Busy(reader)
    BY DEF Busy
  <2>3. reader.step = "copied" /\ ~lossy' => ~lossy
    BY <1>6, <1>7, <2>2
  <2> QED
    BY <1>5, <1>8, <2>1, <2>3 DEF Copying
<1>11. \A i \in 1..Len(down') :
          down'[i].filtered => SupportsPartialWrite(function')
  <2>1. \A i \in 1..Len(q) : q[i].filtered => SupportsPartialWrite(function)
    BY <1>3 DEF CallInv
  <2>2. m.filtered => SupportsPartialWrite(function)
    BY <1>6 DEF CallInv
  <2>3. \A i \in 1..Len(r) : r[i].filtered => SupportsPartialWrite(function)
    BY <1>4, <2>1, <2>2, SupportStays
  <2> QED
    BY <1>4, <1>5, <2>3
<1>12. CallInv'
  BY <1>5, <1>8, <1>9, <1>10, <1>11 DEF CallInv, Idle
<1>13. ASSUME ~lossy', ~Pending(reader)
       PROVE  \E b, p : Chain(t, data, copy, r, Pending(app'), b, p)
  <2>1. CASE ~m.filtered
    BY <1>4, <1>6, <1>7, <1>13, <2>1, ChainRestarts
  <2>2. CASE m.filtered
    <3>1. ~lossy /\ app.filtered /\ m.selector = {} /\ m.list = data
      BY <1>6, <1>7, <1>13, <2>2 DEF CallInv
    <3>2. PICK b, p : Chain(t, data, copy, q, Pending(app), b, p)
      BY <1>1, <1>3, <1>13, <3>1 DEF ChainInv, Exchange
    <3>3. Chain(t, data, copy, r, Pending(app'), b, Len(r))
      BY <1>4, <1>6, <2>2, <3>1, <3>2, ChainAppends
    <3> QED
      BY <3>3
  <2> QED
    BY <2>1, <2>2
<1>14. ChainInv'
  <2>1. Schema' = t
    BY <1>1, <1>5 DEF Exchange, Schema
  <2> QED
    BY <1>4, <1>5, <1>13, <2>1 DEF ChainInv
<1> QED
  BY <1>12, <1>14

LEMMA CopyReaderSend ==
    ASSUME TypeInv, CallInv, ChainInv, ReaderSend
    PROVE  CallInv' /\ ChainInv'
<1>1. PICK f, t : Exchange(f, t)
  BY TypesHave
<1>2. PICK m \in MessagesOf(t) : m = reader.message
  BY <1>1 DEF Exchange, ReaderSend, CallsOf
<1>3. PICK q \in Seq(MessagesOf(t)) : q = down
  BY <1>1 DEF Exchange
<1>4. PICK r : r = down' /\ r = Append(q, m)
  BY <1>2, <1>3 DEF ReaderSend, Sent
<1>5. /\ reader.step = "copied"
      /\ reader' = (IF reader.ack THEN [reader EXCEPT !.step = "notified"]
                                  ELSE Idle)
      /\ lossy' = (lossy /\ (m.filtered \/ ~reader.alone))
      /\ UNCHANGED <<function, data, copy, app>>
  BY <1>2 DEF ReaderSend, Sent
<1>6. /\ Busy(reader) /\ (reader.alone => ~Busy(app))
      /\ reader.alone \/ ~lossy => m.list = data
      /\ m.filtered = reader.filtered /\ ~m.filtered /\ IsData(m)
  <2>1. Busy(reader)
    BY <1>5 DEF Busy
  <2> QED
    BY <1>2, <1>5, <2>1 DEF CallInv, Copying
<1>7. /\ ~lossy' => ~lossy \/ reader.alone
      /\ ~lossy' => m.list = data
  BY <1>5, <1>6
<1>8. /\ reader'.step # "copied" /\ reader'.step # "updated"
      /\ ~reader'.filtered /\ reader'.selector = {}
      /\ Busy(reader') /\ reader'.alone => reader.alone
  <2>1. CASE reader.ack
    <3>1. PICK o : o = [reader EXCEPT !.step = "notified"]
      OBVIOUS
    <3>2. /\ o.step = "notified" /\ o.alone = reader.alone
          /\ o.filtered = reader.filtered /\ o.selector = reader.selector
      BY <1>1, <3>1, CallFields DEF Exchange
    <3> QED
      BY <1>5, <2>1, <3>1, <3>2 DEF CallInv
  <2>2. CASE ~reader.ack
    BY <1>5, <2>2 DEF Idle, Busy
  <2> QED
    BY <2>1, <2>2
<1>9. Copying(reader', app', data', lossy')
  BY <1>5, <1>6, <1>8 DEF Copying
<1>10. Copying(app', reader', data', lossy')
  <2>1. Copying(app, reader, data, lossy)
    BY DEF CallInv
  <2>2. app.step = "copied" => Busy(app)
    BY DEF Busy
  <2>3. Busy(app) /\ ~lossy' => ~lossy
    BY <1>6, <1>7
  <2> QED
    BY <1>5, <1>6, <2>1, <2>2, <2>3 DEF Copying
<1>11. \A i \in 1..Len(down') :
          down'[i].filtered => SupportsPartialWrite(function')
  <2>1. \A i \in 1..Len(q) : q[i].filtered => SupportsPartialWrite(function)
    BY <1>3 DEF CallInv
  <2>2. \A i \in 1..Len(r) : r[i].filtered => SupportsPartialWrite(function)
    BY <1>4, <1>6, <2>1, SupportStays
  <2> QED
    BY <1>4, <1>5, <2>2
<1>12. CallInv'
  <2>1. Busy(app') /\ ~lossy' => app'.selector = {}
    BY <1>5, <1>6, <1>7 DEF CallInv
  <2> QED
    BY <1>5, <1>8, <1>9, <1>10, <1>11, <2>1 DEF CallInv
<1>13. ASSUME ~lossy'
       PROVE  \E b, p : Chain(t, data, copy, r, Pending(app), b, p)
  BY <1>4, <1>6, <1>7, <1>13, ChainRestarts
<1>14. ChainInv'
  <2>1. Schema' = t
    BY <1>1, <1>5 DEF Exchange, Schema
  <2> QED
    BY <1>4, <1>5, <1>13, <2>1 DEF ChainInv
<1> QED
  BY <1>12, <1>14

(* What the client makes of the first message: the copy becomes the base   *)
(* or has the items of the next list of the chain.                         *)
LEMMA CopyClientReceive ==
    ASSUME TypeInv, CallInv, ChainInv, ClientReceive
    PROVE  CallInv' /\ ChainInv'
<1>1. PICK f, t : Exchange(f, t)
  BY TypesHave
<1>2. PICK q \in Seq(MessagesOf(t)) : q = down /\ q # <<>>
  BY <1>1 DEF Exchange, ClientReceive
<1>3. PICK m \in MessagesOf(t) : m = Head(q) /\ m = q[1]
  BY <1>2
<1>4. PICK r : r = down' /\ r = Tail(q)
  BY <1>2 DEF ClientReceive
<1>5. PICK d : d = Received(f, copy, m)
  OBVIOUS
<1>6. /\ copy' = (IF IsData(m) THEN d ELSE copy)
      /\ UNCHANGED <<function, data, app, reader, lossy>>
  BY <1>1, <1>2, <1>3, <1>5
  DEF ClientReceive, Received, Partially, IsData, Exchange
<1>7. \A i \in 1..Len(q) : q[i].filtered => SupportsPartialWrite(function)
  BY <1>2 DEF CallInv
<1>8. CallInv'
  <2>1. \A i \in 1..Len(r) : r[i].filtered => SupportsPartialWrite(function)
    BY <1>2, <1>4, <1>7, SupportStays
  <2> QED
    BY <1>4, <1>6, <2>1 DEF CallInv
<1>9. PICK pending : pending = Pending(app)
  OBVIOUS
<1>10. PICK l : l = m.list /\ Listing(t, l) /\ m.filtered \in BOOLEAN
  BY DEF MessagesOf, Listing
<1>r. ReceivedAs(f, t, copy, m, d)
  <2>1. /\ f \in Functions /\ t = Schemas[f] /\ copy \in Seq(Full(t))
        /\ m.list \in Seq(Full(t))
    BY <1>1, <1>10 DEF Exchange, Listing
  <2> QED
    BY <1>5, <1>10, <2>1, ReceivedIs
<1>11. ASSUME NEW b, NEW p, Chain(t, data, copy, q, pending, b, p)
       PROVE  \E i, j : Chain(t, data, copy', r, pending, i, j)
  <2>0. PICK n \in Nat : n = Len(q) /\ n # 0
    BY <1>2
  <2>1. b \in 0..n /\ p \in b..n
    BY <1>11, <2>0 DEF Chain
  <2>2. PICK k : k = IF b = 0 THEN 0 ELSE b - 1
    OBVIOUS
  <2>3. CASE b = 0 /\ ~IsData(m)
    <3>1. PICK j : j = IF p = 0 THEN 0 ELSE p - 1
      OBVIOUS
    <3>2. Chain(t, data, copy, q, pending, 0, p)
      BY <1>11, <2>3
    <3>3. Chain(t, data, copy, r, pending, 0, j)
      BY <1>2, <1>3, <1>4, <2>3, <3>1, <3>2, ChainSkips
    <3> QED
      BY <1>6, <2>3, <3>3
  <2>4. ASSUME b # 0 \/ IsData(m),
               k = 0 => /\ IsData(q[1]) /\ Distinct(t, copy')
                        /\ ItemsIn(copy') = ItemsIn(q[1].list)
        PROVE  \E i, j : Chain(t, data, copy', r, pending, i, j)
    <3>1. p # 0
      <4>1. p = 0 => 1 \in p + 1..n /\ b = 0
        BY <2>0, <2>1
      <4> QED
        BY <1>3, <1>11, <2>0, <2>4, <4>1 DEF Chain
    <3>2. PICK e : e = copy'
      OBVIOUS
    <3>3. k = 0 => /\ IsData(q[1]) /\ Distinct(t, e)
                   /\ ItemsIn(e) = ItemsIn(q[1].list)
      BY <2>4, <3>2
    <3>4. Chain(t, data, e, r, pending, k, p - 1)
      BY <1>2, <1>4, <1>11, <2>2, <3>1, <3>3, ChainShifts
    <3> QED
      BY <3>2, <3>4
  <2>5. CASE b \notin {0, 1}
    <3>1. k # 0
      BY <2>1, <2>2, <2>5
    <3> QED
      BY <2>4, <2>5, <3>1
  <2>6. CASE b = 1
    <3>1. IsData(m) /\ ~m.filtered
      <4>1. 1 \in b..n
        BY <2>0, <2>6
      <4> QED
        BY <1>3, <1>11, <2>0, <2>6, <4>1 DEF Chain
    <3>2. d = l
      BY <1>r, <1>10, <3>1 DEF ReceivedAs
    <3>3. Distinct(t, copy') /\ ItemsIn(copy') = ItemsIn(q[1].list)
      BY <1>3, <1>6, <1>10, <3>1, <3>2 DEF Listing
    <3> QED
      BY <1>3, <2>4, <2>6, <3>1, <3>3
  <2>7. CASE b = 0 /\ IsData(m)
    <3>1. m.filtered /\ m.selector = {} /\ Distinct(t, copy)
      <4>1. 1 \in b..n /\ 1 # b
        BY <2>0, <2>7
      <4> QED
        BY <1>3, <1>11, <2>0, <2>7, <4>1 DEF Chain
    <3>2. Below(t, copy, l)
      <4>1. /\ 0 \in 0..n /\ 1 \in 0..n /\ 0 < 1
            /\ Live(q, b, 0) /\ Live(q, b, 1)
        BY <1>3, <2>0, <2>7 DEF Live
      <4>2. Below(t, At(copy, q, 0), At(copy, q, 1))
        BY <1>11, <2>0, <4>1 DEF Chain
      <4>3. At(copy, q, 0) = copy /\ At(copy, q, 1) = l
        <5>1. 1 # 0
          OBVIOUS
        <5> QED
          BY <1>3, <1>10, <5>1 DEF At
      <4> QED
        BY <4>2, <4>3
    <3>3. SupportsPartialWrite(f)
      <4>1. 1 \in 1..Len(q)
        BY <2>0
      <4> QED
        BY <1>1, <1>3, <1>7, <3>1, <4>1 DEF Exchange
    <3>4. PICK local \in BOOLEAN : local = FALSE
      OBVIOUS
    <3>5. PICK g : g = Merge(t, local, copy, l).list
      OBVIOUS
    <3>6. d = SortData(t, g)
      BY <1>r, <1>10, <3>1, <3>3, <3>4, <3>5 DEF ReceivedAs
    <3>7. Listing(t, g) /\ ItemsIn(g) = ItemsIn(l)
      <4>1. Listing(t, copy) /\ IsSchema(t)
        BY <1>1, <3>1 DEF Exchange, Listing
      <4> QED
        BY <1>10, <3>2, <3>4, <3>5, <4>1, MergeConverges
    <3>8. Distinct(t, d) /\ ItemsIn(d) = ItemsIn(g)
      BY <1>1, <3>6, <3>7, SortKeeps DEF Exchange, Listing
    <3>9. Distinct(t, copy') /\ ItemsIn(copy') = ItemsIn(q[1].list)
      BY <1>3, <1>6, <1>10, <2>7, <3>7, <3>8
    <3> QED
      BY <1>3, <2>4, <2>7, <3>9
  <2> QED
    BY <2>3, <2>5, <2>6, <2>7
<1>12. ChainInv'
  <2>1. Schema' = t /\ Schema = t
    BY <1>1, <1>6 DEF Exchange, Schema
  <2>2. SUFFICES ASSUME ~lossy, ~Pending(reader), Pending(app) => app.filtered
                 PROVE  \E b, p : Chain(t, data, copy', r, pending, b, p)
    BY <1>4, <1>6, <1>9, <2>1 DEF ChainInv
  <2>3. PICK b, p : Chain(t, data, copy, q, pending, b, p)
    BY <1>2, <1>9, <2>1, <2>2 DEF ChainInv
  <2> QED
    BY <1>11, <2>3
<1> QED
  BY <1>8, <1>12

LEMMA CopySteps ==
    ASSUME TypeInv, CallInv, ChainInv, Next
    PROVE  CallInv' /\ ChainInv'
<1>1. CASE \/ ClientRead
           \/ \E command \in Commands[function], ack \in BOOLEAN :
                 ClientWrite(command, ack)
  <2>1. UNCHANGED <<function, data, copy, app, reader, down, lossy>>
    BY <1>1 DEF ClientRead, ClientWrite
  <2>2. CallInv'
    BY <2>1 DEF CallInv
  <2>3. ChainInv'
    BY <2>1 DEF ChainInv, Schema
  <2> QED
    BY <2>2, <2>3
<1>2. CASE RejectWrite
  <2>1. /\ ~Pending(reader) /\ reader' = reader
        /\ down' = Append(down, Result("error"))
        /\ UNCHANGED <<function, data, copy, app, lossy>>
    BY <1>2 DEF RejectWrite, WriteReceived, Busy, Pending
  <2> QED
    BY <2>1, CopyAnswered
<1>3. CASE ReaderAck
  <2>1. /\ ~Pending(reader) /\ reader' = Idle
        /\ down' = Append(down, Result("ok"))
        /\ UNCHANGED <<function, data, copy, app, lossy>>
    BY <1>3 DEF ReaderAck, Pending
  <2> QED
    BY <2>1, CopyAnswered
<1> QED
  BY <1>1, <1>2, <1>3, CopyAppUpdate, CopyRefuseWrite, CopyExecuteWrite,
     CopyHandleRead, CopyAppCopy, CopyReaderCopy, CopyAppNotify,
     CopyReaderSend, CopyClientReceive
  DEF Next

LEMMA CopyInit ==
    ASSUME Init
    PROVE  CallInv /\ ChainInv
<1>1. PICK f, t : Exchange(f, t)
  BY TypeInit, TypesHave
<1>2. /\ app.step = "idle" /\ reader.step = "idle"
      /\ ~Busy(app) /\ ~Busy(reader) /\ ~reader.filtered
      /\ reader.selector = {} /\ "idle" # "notified"
  BY DEF Init, Idle, Busy
<1>3. down = <<>> /\ copy = data
  BY DEF Init
<1>4. Copying(app, reader, data, lossy) /\ Copying(reader, app, data, lossy)
  BY <1>2, IdleCopying
<1>5. \A i \in 1..Len(down) :
          down[i].filtered => SupportsPartialWrite(function)
  BY <1>3
<1>6. CallInv
  BY <1>2, <1>4, <1>5 DEF CallInv
<1>7. ChainInv
  <2>1. PICK n \in Nat : n = 0 /\ n = Len(down)
    BY <1>3
  <2>2. down \in Seq(MessagesOf(t)) /\ Distinct(t, copy) /\ Schema = t
    BY <1>1, <1>3 DEF Exchange, Listing
  <2>3. PICK q \in Seq(MessagesOf(t)) : q = down /\ n = Len(q)
    BY <2>1, <2>2
  <2>4. PICK pending : pending = Pending(app)
    OBVIOUS
  <2>5. Chain(t, data, copy, q, pending, n, n)
    BY <1>3, <2>1, <2>2, <2>3, ChainAtBase
  <2> QED
    BY <2>2, <2>3, <2>4, <2>5 DEF ChainInv
<1> QED
  BY <1>6, <1>7

LEMMA CopyStutters ==
    ASSUME CallInv, ChainInv, UNCHANGED vars
    PROVE  CallInv' /\ ChainInv'
<1>1. CallInv'
  BY DEF CallInv, vars
<1>2. ChainInv'
  BY DEF ChainInv, vars, Schema
<1> QED
  BY <1>1, <1>2

LEMMA ChainEnds ==
    ASSUME TypeInv, ChainInv
    PROVE  CopyConverges
<1> SUFFICES ASSUME Quiet, ~lossy
             PROVE  ItemsIn(copy) = ItemsIn(data)
  BY DEF CopyConverges
<1>1. /\ ~Pending(app) /\ ~Pending(reader) /\ down = <<>>
  BY DEF Quiet, Busy, Pending
<1>2. PICK b, p : Chain(Schema, data, copy, down, Pending(app), b, p)
  BY <1>1 DEF ChainInv
<1>3. b = 0 /\ p = 0
  BY <1>1, <1>2 DEF Chain
<1> QED
  BY <1>1, <1>2, <1>3 DEF Chain, At

(* Once all messages have arrived and no call is under way, the client's   *)
(* copy has the items of the server's list, unless it was declared lossy:  *)
(* CopyConverges, for any interleaving of the application, the             *)
(* connection's goroutine and the client.                                  *)
THEOREM CopyFollows == Spec => []CopyConverges
<1>1. Init => TypeInv /\ CallInv /\ ChainInv
  BY TypeInit, CopyInit
<1>2. TypeInv /\ CallInv /\ ChainInv /\ [Next]_vars
          => TypeInv' /\ CallInv' /\ ChainInv'
  BY StepKinds, TypeUpdates, TypeOthers, TypeStutters, CopySteps, CopyStutters
<1>3. TypeInv /\ CallInv /\ ChainInv => CopyConverges
  BY ChainEnds
<1> QED
  BY <1>1, <1>2, <1>3, PTL DEF Spec

=============================================================================
