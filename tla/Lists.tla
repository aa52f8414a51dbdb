------------------------------- MODULE Lists --------------------------------
(***************************************************************************)
(* What the loops over slices and maps do that several modules have: the   *)
(* items of a list and the new list of those that are kept, the fields of  *)
(* two functions together, and a function without some of its fields.      *)
(* KeptOf is SelectSeq for the items of a set, written as a recursive      *)
(* function, which can be reasoned about, and Over is @@ of module TLC.    *)
(***************************************************************************)
EXTENDS Integers, Sequences

ItemsIn(list) == {list[i] : i \in 1..Len(list)}

KeptOf(list, S) ==
    LET kept[n \in 0..Len(list)] ==
            IF n = 0 THEN <<>>
            ELSE IF list[n] \in S THEN Append(kept[n - 1], list[n])
            ELSE kept[n - 1]
    IN kept[Len(list)]

Field(f, v) == [x \in {f} |-> v]
Over(f, g) == [x \in DOMAIN f \cup DOMAIN g |->
                  IF x \in DOMAIN f THEN f[x] ELSE g[x]]
Without(f, S) == [x \in DOMAIN f \ S |-> f[x]]
=============================================================================
