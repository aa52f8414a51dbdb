----------------------------- MODULE UpdateList -----------------------------
(***************************************************************************)
(* How a list of function data is updated: the filters of a command        *)
(* (model/commandframe_additions.go), the update (model/update.go) with    *)
(* the merge of two lists (model/collection_operations.go), and what       *)
(* FunctionData makes of its result (spine/function_data.go).              *)
(*                                                                         *)
(* An item is a function of the fields that are set; a nil field is not in *)
(* its domain.  A list that is nil is the empty one, as what is sent is    *)
(* the same.  A selector must name fields that all items have set: the     *)
(* code dereferences the field without a look.                             *)
(***************************************************************************)
EXTENDS DataModel, Lists

(* What the tags of every list have in common: the keys of an item, its    *)
(* guard, the rest of it and what only its selectors have are different    *)
(* fields, and no selector of a list with a guard has a field that its     *)
(* items lack.                                                             *)
ASSUME SchemasAssumption ==
    \A function \in DOMAIN Schemas :
        LET t == Schemas[function]
            keys == ItemsIn(t.keys)
        IN /\ t.keys \in Seq(STRING)
           /\ keys \cap t.check = {}
           /\ Rest \notin keys \cup t.check
           /\ t.ignored \cap (keys \cup t.check \cup {Rest}) = {}
           /\ t.check # {} => t.ignored = {}

(* The filters of a command: what CmdControl says, optional selectors and  *)
(* elements.  An optional selector is a set of at most one.                *)
NoFilter == [given |-> FALSE, selector |-> {}, elements |-> {}]
NewFilterTypePartial == [given |-> TRUE, selector |-> {}, elements |-> {}]

(* What FilterType.Data finds; nothing is an error.                        *)
FilterData(function, filter) ==
    [selector |->
        IF function \in UnreadSelectors THEN {} ELSE filter.selector,
     elements |->
        IF function \in UnreadElements THEN {} ELSE filter.elements]
Found(filterData) == filterData.selector # {} \/ filterData.elements # {}

(* Fields the items do not have are passed over.                           *)
SelectorMatch(selector, item) ==
    \A s \in selector : \A f \in DOMAIN s \cap DOMAIN item : item[f] = s[f]

-----------------------------------------------------------------------------
HasIdentifiers(t, item) == \A i \in 1..Len(t.keys) : t.keys[i] \in DOMAIN item

(* Faulty: the last of several keys is left out.                           *)
HashWithoutLastKey(t, item) ==
    [i \in 1..(IF Len(t.keys) > 1 THEN Len(t.keys) - 1 ELSE Len(t.keys))
        |-> item[t.keys[i]]]

(* The values of the keys up to the first that is nil.                     *)
hashKey(t, item) ==
    LET known == {n \in 0..Len(t.keys) :
                     \A i \in 1..n : t.keys[i] \in DOMAIN item}
        n == CHOOSE n \in known : \A m \in known : m <= n
    IN [i \in 1..n |-> item[t.keys[i]]]

writeAllowed(t, item) ==
    \A f \in t.check : f \in DOMAIN item /\ item[f] = TRUE

(* The order of SortData, which looks at numbers only.                     *)
SortedBefore(t, a, b) ==
    \E i \in 1..Len(t.keys) :
        /\ \A j \in 1..i : t.keys[j] \in (DOMAIN a \cap DOMAIN b) \ t.unsorted
        /\ \A j \in 1..(i - 1) : a[t.keys[j]] = b[t.keys[j]]
        /\ a[t.keys[i]] < b[t.keys[i]]

(* sort.Slice sorts lists of up to 12 items by insertion, so equals stay   *)
(* in their order.                                                         *)
SortData(t, list) ==
    LET before(i, j) == \/ SortedBefore(t, list[i], list[j])
                        \/ i < j /\ ~SortedBefore(t, list[j], list[i])
        place(i) ==
            1 + Cardinality({j \in 1..Len(list) : j # i /\ before(j, i)})
    IN [n \in 1..Len(list) |-> list[CHOOSE i \in 1..Len(list) : place(i) = n]]

-----------------------------------------------------------------------------
RemoveElementFromItem(item, elements) == Without(item, elements)
CopyNonNilDataFromItemToItem(source, destination) == Over(source, destination)

(* Faulty: the field that guards the item can be overwritten.              *)
UpdateGuardToo(t, remoteWrite, source, destination) ==
    Over(destination, source)

(* The new item, completed by the existing one, which keeps its guard when *)
(* the write is remote.                                                    *)
updateFields(t, remoteWrite, source, destination) ==
    Over(IF remoteWrite THEN Without(destination, t.check) ELSE destination,
         source)

(* Faulty: items that exist are appended as well.                          *)
MergeAppendsAll(t, remoteWrite, s1, s2) ==
    [list |-> s1 \o s2,
     ok |-> remoteWrite => \A i \in 1..Len(s1) : writeAllowed(t, s1[i])]

(* Of new items with the same key the last one counts for the items that   *)
(* exist.  Only local updates append.                                      *)
Merge(t, remoteWrite, s1, s2) ==
    LET matching(item) ==
            {j \in 1..Len(s2) : hashKey(t, s2[j]) = hashKey(t, item)}
        last(item) == s2[CHOOSE j \in matching(item) :
                            \A k \in matching(item) : k <= j]
        merged == [i \in 1..Len(s1) |->
            IF matching(s1[i]) # {} /\ (remoteWrite => writeAllowed(t, s1[i]))
            THEN updateFields(t, remoteWrite, s1[i], last(s1[i]))
            ELSE s1[i]]
        new == {item \in ItemsIn(s2) :
            \A i \in 1..Len(s1) : hashKey(t, s1[i]) # hashKey(t, item)}
        appended == IF remoteWrite THEN <<>> ELSE KeptOf(s2, new)
    IN [list |-> merged \o appended,
        ok |-> remoteWrite => \A i \in 1..Len(s1) : writeAllowed(t, s1[i])]

(* The first item that matches and may be written gets the new data; items *)
(* that match before it are refused.                                       *)
copyToSelectedData(t, remoteWrite, existing, filterData, new) ==
    IF filterData.selector = {}
    THEN [list |-> existing, ok |-> TRUE]
    ELSE LET matching == {i \in 1..Len(existing) :
                             SelectorMatch(filterData.selector, existing[i])}
             allowed == {i \in matching :
                            remoteWrite => writeAllowed(t, existing[i])}
             IsFirst(i) == i \in allowed /\ \A j \in allowed : i <= j
         IN [list |-> [i \in 1..Len(existing) |->
                 IF IsFirst(i)
                 THEN CopyNonNilDataFromItemToItem(new, existing[i])
                 ELSE existing[i]],
             ok |-> \A i \in matching \ allowed : \E j \in allowed : j < i]

(* Faulty: the guards of the items are not looked at.                      *)
CopyToAllUnguarded(t, remoteWrite, existing, new) ==
    [list |-> [i \in 1..Len(existing) |->
                  CopyNonNilDataFromItemToItem(new, existing[i])],
     ok |-> TRUE]

copyToAllData(t, remoteWrite, existing, new) ==
    LET allowed(i) == remoteWrite => writeAllowed(t, existing[i])
    IN [list |-> [i \in 1..Len(existing) |->
            IF allowed(i) THEN CopyNonNilDataFromItemToItem(new, existing[i])
                          ELSE existing[i]],
        ok |-> \A i \in 1..Len(existing) : allowed(i)]

(* The items that are left, and the existing list, whose items lose their  *)
(* elements in place.                                                      *)
deleteFilteredData(t, remoteWrite, existing, filterData) ==
    LET allowed(item) == remoteWrite => writeAllowed(t, item)
        hit(item) == SelectorMatch(filterData.selector, item)
        reduced(item) ==
            IF allowed(item) /\ hit(item)
            THEN RemoveElementFromItem(item, filterData.elements)
            ELSE item
        IsLeft(item) ==
            allowed(item) /\ ~(filterData.elements = {} /\ hit(item))
        places == KeptOf([i \in 1..Len(existing) |-> i],
                         {i \in 1..Len(existing) : IsLeft(existing[i])})
    IN [left |-> [n \in 1..Len(places) |-> reduced(existing[places[n]])],
        inPlace |-> [i \in 1..Len(existing) |-> reduced(existing[i])],
        ok |-> \A i \in 1..Len(existing) : allowed(existing[i])]

-----------------------------------------------------------------------------
(* The partial update of a list, after the delete filter was processed.    *)
updatePartial(function, remoteWrite, existing, new, partial) ==
    LET t == Schemas[function]
        filterData == FilterData(function, partial)
        merged == Merge(t, remoteWrite, existing, new)
    IN IF Found(filterData)
       THEN copyToSelectedData(t, remoteWrite, existing, filterData, new[1])
       ELSE IF new # <<>> /\ ~HasIdentifiers(t, new[1])
       THEN copyToAllData(t, remoteWrite, existing, new[1])
       ELSE [list |-> SortData(t, merged.list), ok |-> merged.ok]

(* Whether the partial update writes into the items of its list.           *)
InPlace(function, new, partial) ==
    \/ Found(FilterData(function, partial))
    \/ new # <<>> /\ ~HasIdentifiers(Schemas[function], new[1])

(* Faulty: what a refused delete leaves is taken all the same.             *)
TakeRefusedDelete(function, remoteWrite, existing, new, partial, delete) ==
    LET deleteData == FilterData(function, delete)
        deleted == deleteFilteredData(Schemas[function], remoteWrite,
                                      existing, deleteData)
        updated == updatePartial(function, remoteWrite,
                       IF Found(deleteData) THEN deleted.left ELSE existing,
                       new, partial)
    IN [list |-> updated.list, ok |-> updated.ok /\ deleted.ok]

(* UpdateList, and the UpdateList of the type that keeps the result of a   *)
(* success only.  A refused update leaves what it wrote in place.          *)
UpdateList(function, remoteWrite, existing, new, partial, delete) ==
    LET deleteData == FilterData(function, delete)
        deleted ==
            IF Found(deleteData)
            THEN deleteFilteredData(Schemas[function], remoteWrite,
                                    existing, deleteData)
            ELSE [left |-> existing, inPlace |-> existing, ok |-> TRUE]
        fresh == Found(deleteData) /\ deleted.ok  \* no longer the list itself
        updated == updatePartial(function, remoteWrite,
                       IF fresh THEN deleted.left ELSE deleted.inPlace,
                       new, partial)
        ok == deleted.ok /\ updated.ok
    IN [list |-> IF ok THEN updated.list
                 ELSE IF ~fresh /\ InPlace(function, new, partial)
                 THEN updated.list
                 ELSE deleted.inPlace,
        ok |-> ok]

(* FunctionData.UpdateData with persist: data without a filter replaces    *)
(* the list, guarded or not.                                               *)
UpdateData(function, remoteWrite, existing, new, partial, delete) ==
    IF ~partial.given /\ ~delete.given
    THEN [list |-> new, ok |-> TRUE]
    ELSE IF ~SupportsPartialWrite(function)
    THEN [list |-> existing, ok |-> FALSE]
    ELSE UpdateList(function, remoteWrite, existing, new, partial, delete)
=============================================================================
